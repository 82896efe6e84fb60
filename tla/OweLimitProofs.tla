--------------------------- MODULE OweLimitProofs ---------------------------
(***************************************************************************)
(* Theorems about OweLimit, for every set of callers, teams and            *)
(* thresholds: a creditor never has two rules for one debtor, and its      *)
(* rules change only as calls say.                                         *)
(***************************************************************************)
EXTENDS OweLimit, SumProofs
-----------------------------------------------------------------------------
(* The inductive invariant.                                                *)

(* A row is a default exactly when it is for no team.                      *)
Rows ==
  {r \in [id : Nat \ {0}, team : Team, forTeam : Team \cup {NoTeam},
          isDefault : {"true", "false", "null"}, threshold : Threshold] :
     r.team # r.forTeam /\ (r.isDefault = "true" <=> r.forTeam = NoTeam)}

Types ==
  /\ rows \subseteq Rows
  /\ call \in [Caller -> {c \in Calls : c.team # c.forTeam} \cup {NoCall}]
  /\ pc \in [Caller -> {"idle", "read", "lock", "write", "commit"}]
  /\ found \in [Caller -> Nat]
  /\ held \in [Caller -> Nat]
  /\ inserted \in [Caller -> SUBSET Rows]
  /\ calls \in 0 .. MaxCalls

SamePair(r, s) == r.team = s.team /\ r.forTeam = s.forTeam

OneRowPerPair == \A r, s \in rows : SamePair(r, s) => r = s

Running(p) == pc[p] # "idle"

(* Ids are unique, and the one that a running set may give to a row is     *)
(* new: no committed row has it, no read found it, no other set gives it.  *)
IdsFresh ==
  /\ \A r, s \in rows : r.id = s.id => r = s
  /\ \A r \in rows : r.id <= calls + 1
  /\ \A p \in Caller : found[p] <= calls + 1
  /\ \A p \in Caller : Running(p) =>
       /\ call[p] \in Calls /\ call[p].id \in 2 .. calls + 1
       /\ \A r \in rows : r.id # call[p].id
       /\ \A q \in Caller : found[q] # call[p].id
       /\ \A q \in Caller \ {p} : Running(q) => call[q].id # call[p].id

(* A row that is found is locked until the end of the transaction, cannot  *)
(* be deleted, and is a row for the pair that the call names.              *)
FoundIsHeld ==
  \A p \in Caller :
    /\ pc[p] \in {"idle", "read"} => found[p] = 0
    /\ held[p] = IF pc[p] \in {"write", "commit"} THEN found[p] ELSE 0
    /\ held[p] # 0 => \E r \in rows : r.id = held[p]
    /\ \A r \in rows : r.id = found[p] => SamePair(r, call[p])

(* What a transaction has inserted is its own new row, and the unique      *)
(* indexes keep every other row, committed or not, off its pair.           *)
InsertedIsNew ==
  \A p \in Caller :
    /\ inserted[p] = IF pc[p] = "commit" /\ found[p] = 0 THEN {NewRow(p)} ELSE {}
    /\ \A r \in inserted[p] :
         /\ \A s \in rows : ~SamePair(r, s)
         /\ \A q \in Caller \ {p} : \A s \in inserted[q] : ~SamePair(r, s)

(* Every set for a pair of which the legacy writer left a row is at work   *)
(* on that row.                                                            *)
LegacyFound ==
  \A p \in Caller, r \in rows :
    (/\ pc[p] \in {"lock", "write", "commit"}
     /\ r.isDefault = "null" /\ r.team = call[p].team /\ r.forTeam = call[p].forTeam)
      => found[p] = r.id

Inv == /\ Types /\ OneRowPerPair /\ IdsFresh /\ FoundIsHeld /\ InsertedIsNew /\ LegacyFound
-----------------------------------------------------------------------------
(* The unique indexes are about pairs: a row has the key of another one    *)
(* exactly when both are for the same pair.                                *)
LEMMA SameKeyLemma ==
  ASSUME NEW r \in Rows, NEW s \in Rows
  PROVE  SameKey(r, s) <=> SamePair(r, s)
  BY OweLimitAssumption DEF Rows, SameKey, SamePair

(* The row that a running set may insert has its id, pair and threshold,   *)
(* and is none that the legacy writer could have left.                     *)
LEMMA NewRowLemma ==
  ASSUME Types, NEW p \in Caller, Running(p), IdsFresh
  PROVE  /\ NewRow(p) \in Rows
         /\ NewRow(p).id = call[p].id
         /\ SamePair(NewRow(p), call[p])
         /\ NewRow(p).threshold = call[p].threshold
         /\ NewRow(p).isDefault # "null"
  <1>1. /\ call[p] \in Calls
        /\ call[p].id \in Nat \ {0}
    BY DEF IdsFresh, Calls
  <1>2. call[p].team # call[p].forTeam
    BY <1>1, OweLimitAssumption DEF Types, Calls, NoCall
  <1> QED
    BY <1>1, <1>2, OweLimitAssumption DEF NewRow, Row, Rows, Calls, SamePair

(* The rows a read selects are those for the pair of its call.             *)
LEMMA MatchingLemma ==
  ASSUME Types, NEW team \in Team, NEW forTeam \in Team \cup {NoTeam}
  PROVE  Matching(team, forTeam) = {r \in rows : r.team = team /\ r.forTeam = forTeam}
  BY OweLimitAssumption DEF Types, Rows, Matching

LEMMA InitInv == Init => Inv
  <1> SUFFICES ASSUME Init
               PROVE  Inv
    OBVIOUS
  <1>1. PICK legacy \in {pair \in Team \X Team : pair[1] # pair[2]}, threshold \in Threshold :
          rows \in {{}, {Row(1, legacy[1], legacy[2], "null", threshold)}}
    BY DEF Init
  <1>2. Row(1, legacy[1], legacy[2], "null", threshold) \in Rows
    BY OweLimitAssumption DEF Rows, Row
  <1>3. Types
    BY <1>1, <1>2, OweLimitAssumption DEF Init, Types
  <1>4. OneRowPerPair
    BY <1>1 DEF OneRowPerPair
  <1>5. \A r \in rows : r.id = 1
    BY <1>1 DEF Row
  <1> QED
    BY <1>3, <1>4, <1>5
    DEF Init, Inv, IdsFresh, FoundIsHeld, InsertedIsNew, LegacyFound, Running

(* A set takes an id that is above every id in use.                        *)
LEMMA SetInv ==
  ASSUME Inv, NEW p \in Caller, NEW team \in Team, NEW forTeam \in Team \cup {NoTeam},
         NEW threshold \in Threshold, Set(p, team, forTeam, threshold)
  PROVE  Inv'
  <1> DEFINE c == [id |-> calls + 2, team |-> team, forTeam |-> forTeam,
                   threshold |-> threshold]
  <1>1. /\ pc[p] = "idle" /\ calls < MaxCalls /\ team # forTeam
        /\ call' = [call EXCEPT ![p] = c]
        /\ pc' = [pc EXCEPT ![p] = "read"]
        /\ calls' = calls + 1
        /\ UNCHANGED <<rows, found, held, inserted>>
    BY DEF Set, Allowed
  <1>2. /\ calls \in Nat /\ calls' \in 0 .. MaxCalls
        /\ c \in Calls /\ c.team # c.forTeam
    BY <1>1, OweLimitAssumption DEF Inv, Types, Calls
  <1>3. Types'
    BY <1>1, <1>2 DEF Inv, Types
  <1>4. OneRowPerPair'
    BY <1>1 DEF Inv, OneRowPerPair, SamePair
  <1>5. IdsFresh'
    <2>1. /\ \A r \in rows : r.id \in Nat
          /\ \A q \in Caller : found[q] \in Nat
          /\ \A q \in Caller : Running(q) => call[q].id \in Nat
      BY DEF Inv, Types, Rows, IdsFresh, Calls
    <2> QED
      BY <1>1, <1>2, <2>1 DEF Inv, Types, IdsFresh, Running
  <1>6. FoundIsHeld'
    BY <1>1 DEF Inv, Types, FoundIsHeld, SamePair, Rows
  <1>7. InsertedIsNew'
    BY <1>1 DEF Inv, Types, InsertedIsNew, SamePair, NewRow
  <1>8. LegacyFound'
    BY <1>1 DEF Inv, Types, LegacyFound
  <1> QED
    BY <1>3, <1>4, <1>5, <1>6, <1>7, <1>8 DEF Inv

(* A read finds a row for its pair, and the only one there is.             *)
LEMMA ReadInv ==
  ASSUME Inv, NEW p \in Caller, Read(p)
  PROVE  Inv'
  <1>1. /\ pc[p] = "read"
        /\ pc' = [pc EXCEPT ![p] = "lock"]
        /\ UNCHANGED <<rows, call, held, inserted, calls>>
    BY DEF Read
  <1>2. call[p] \in Calls
    BY <1>1 DEF Inv, IdsFresh, Running
  <1> DEFINE rs == {r \in rows : SamePair(r, call[p])}
  <1>3. Matching(call[p].team, call[p].forTeam) = rs
    BY <1>2, MatchingLemma DEF Inv, Calls, SamePair
  <1>4. PICK id \in IF rs = {} THEN {0} ELSE {r.id : r \in rs} :
          found' = [found EXCEPT ![p] = id]
    BY <1>3 DEF Read
  <1>5. /\ id \in Nat
        /\ \/ id = 0 /\ rs = {}
           \/ \E r \in rs : id = r.id /\ rs = {r}
    BY DEF Inv, Types, Rows, OneRowPerPair, SamePair
  <1>6. Types'
    BY <1>1, <1>4, <1>5 DEF Inv, Types
  <1>7. OneRowPerPair'
    BY <1>1 DEF Inv, OneRowPerPair, SamePair
  <1>8. IdsFresh'
    BY <1>1, <1>4, <1>5 DEF Inv, Types, IdsFresh, Running
  <1>9. FoundIsHeld'
    BY <1>1, <1>4, <1>5 DEF Inv, Types, FoundIsHeld, IdsFresh, SamePair, Rows
  <1>10. InsertedIsNew'
    BY <1>1, <1>4 DEF Inv, Types, InsertedIsNew, SamePair, NewRow
  <1>11. LegacyFound'
    BY <1>1, <1>4, <1>5 DEF Inv, Types, LegacyFound, SamePair
  <1> QED
    BY <1>6, <1>7, <1>8, <1>9, <1>10, <1>11 DEF Inv

(* A row that is gone is not found; one that is there is held from now on. *)
LEMMA LockInv ==
  ASSUME Inv, NEW p \in Caller, Lock(p)
  PROVE  Inv'
  <1> DEFINE id == IF \E r \in rows : r.id = found[p] THEN found[p] ELSE 0
  <1>1. /\ pc[p] = "lock"
        /\ found' = [found EXCEPT ![p] = id]
        /\ held' = [held EXCEPT ![p] = id]
        /\ pc' = [pc EXCEPT ![p] = "write"]
        /\ UNCHANGED <<rows, call, inserted, calls>>
    BY DEF Lock
  <1>2. /\ id \in Nat /\ id \in {0, found[p]}
        /\ id # 0 => \E r \in rows : r.id = id
        /\ \A r \in rows : r.id = found[p] => id = found[p]
    BY DEF Inv, Types
  <1> HIDE DEF id
  <1>3. Types'
    BY <1>1, <1>2 DEF Inv, Types
  <1>4. OneRowPerPair'
    BY <1>1 DEF Inv, OneRowPerPair, SamePair
  <1>5. IdsFresh'
    BY <1>1, <1>2 DEF Inv, Types, IdsFresh, Running, Calls
  <1>6. FoundIsHeld'
    BY <1>1, <1>2 DEF Inv, Types, FoundIsHeld, SamePair, Rows
  <1>7. InsertedIsNew'
    BY <1>1 DEF Inv, Types, InsertedIsNew, SamePair, NewRow
  <1>8. LegacyFound'
    BY <1>1, <1>2 DEF Inv, Types, LegacyFound
  <1> QED
    BY <1>3, <1>4, <1>5, <1>6, <1>7, <1>8 DEF Inv

(* The unique indexes let an insert through only for a pair without a row. *)
LEMMA InsertInv ==
  ASSUME Inv, NEW p \in Caller, Insert(p)
  PROVE  Inv'
  <1>1. /\ pc[p] = "write" /\ found[p] = 0
        /\ \A r \in rows \cup Others(p) : ~SameKey(r, NewRow(p))
        /\ inserted' = [inserted EXCEPT ![p] = {NewRow(p)}]
        /\ pc' = [pc EXCEPT ![p] = "commit"]
        /\ UNCHANGED <<rows, call, found, held, calls>>
    BY DEF Insert
  <1>2. NewRow(p) \in Rows
    BY <1>1, NewRowLemma DEF Inv, Running
  <1>3. /\ \A r \in rows : ~SamePair(NewRow(p), r)
        /\ \A q \in Caller \ {p} : \A r \in inserted[q] : ~SamePair(NewRow(p), r)
    <2>1. /\ rows \subseteq Rows
          /\ \A q \in Caller \ {p} : inserted[q] \subseteq Rows /\ inserted[q] \subseteq Others(p)
      BY DEF Inv, Types, Others
    <2>2. \A r \in Rows : ~SameKey(r, NewRow(p)) => ~SamePair(NewRow(p), r)
      BY <1>2, SameKeyLemma DEF SamePair
    <2> QED
      BY <1>1, <2>1, <2>2
  <1>4. Types'
    BY <1>1, <1>2 DEF Inv, Types
  <1>5. OneRowPerPair'
    BY <1>1 DEF Inv, OneRowPerPair, SamePair
  <1>6. IdsFresh'
    BY <1>1 DEF Inv, Types, IdsFresh, Running
  <1>7. FoundIsHeld'
    BY <1>1 DEF Inv, Types, FoundIsHeld, SamePair
  <1>8. InsertedIsNew'
    <2> SUFFICES ASSUME NEW q \in Caller
                 PROVE  /\ inserted'[q] = IF pc'[q] = "commit" /\ found'[q] = 0
                                          THEN {NewRow(q)'} ELSE {}
                        /\ \A r \in inserted'[q] :
                             /\ \A s \in rows' : ~SamePair(r, s)
                             /\ \A o \in Caller \ {q} : \A s \in inserted'[o] : ~SamePair(r, s)
      BY DEF InsertedIsNew, SamePair
    <2>1. NewRow(q)' = NewRow(q)
      BY <1>1 DEF NewRow
    <2>2. /\ inserted'[q] = IF q = p THEN {NewRow(p)} ELSE inserted[q]
          /\ pc'[q] = IF q = p THEN "commit" ELSE pc[q]
      BY <1>1 DEF Inv, Types
    <2>3. \A o \in Caller \ {p} : inserted'[o] = inserted[o]
      BY <1>1 DEF Inv, Types
    <2>4. CASE q = p
      BY <1>1, <1>3, <2>1, <2>2, <2>3, <2>4
    <2>5. CASE q # p
      BY <1>1, <1>3, <2>1, <2>2, <2>3, <2>5 DEF Inv, InsertedIsNew, SamePair
    <2> QED
      BY <2>4, <2>5
  <1>9. LegacyFound'
    BY <1>1 DEF Inv, Types, LegacyFound
  <1> QED
    BY <1>4, <1>5, <1>6, <1>7, <1>8, <1>9 DEF Inv

LEMMA UpdateInv ==
  ASSUME Inv, NEW p \in Caller, Update(p)
  PROVE  Inv'
  <1>1. /\ pc[p] = "write" /\ found[p] # 0
        /\ pc' = [pc EXCEPT ![p] = "commit"]
        /\ UNCHANGED <<rows, call, found, held, inserted, calls>>
    BY DEF Update
  <1>2. Types'
    BY <1>1 DEF Inv, Types
  <1>3. OneRowPerPair'
    BY <1>1 DEF Inv, OneRowPerPair, SamePair
  <1>4. IdsFresh'
    BY <1>1 DEF Inv, Types, IdsFresh, Running
  <1>5. FoundIsHeld'
    BY <1>1 DEF Inv, Types, FoundIsHeld, SamePair
  <1>6. InsertedIsNew'
    BY <1>1 DEF Inv, Types, InsertedIsNew, SamePair, NewRow
  <1>7. LegacyFound'
    BY <1>1 DEF Inv, Types, LegacyFound
  <1> QED
    BY <1>2, <1>3, <1>4, <1>5, <1>6, <1>7 DEF Inv

(* A transaction that ends without a commit leaves nothing behind.         *)
LEMMA EndInv ==
  ASSUME Inv, NEW p \in Caller, End(p), UNCHANGED rows
  PROVE  Inv'
  <1>1. /\ call' = [call EXCEPT ![p] = NoCall]
        /\ pc' = [pc EXCEPT ![p] = "idle"]
        /\ found' = [found EXCEPT ![p] = 0]
        /\ held' = [held EXCEPT ![p] = 0]
        /\ inserted' = [inserted EXCEPT ![p] = {}]
        /\ UNCHANGED calls
    BY DEF End
  <1>2. Types'
    BY <1>1 DEF Inv, Types
  <1>3. OneRowPerPair'
    BY DEF Inv, OneRowPerPair, SamePair
  <1>4. IdsFresh'
    BY <1>1 DEF Inv, Types, IdsFresh, Running, Calls
  <1>5. FoundIsHeld'
    BY <1>1 DEF Inv, Types, FoundIsHeld, SamePair, Rows
  <1>6. InsertedIsNew'
    <2> SUFFICES ASSUME NEW q \in Caller
                 PROVE  /\ inserted'[q] = IF pc'[q] = "commit" /\ found'[q] = 0
                                          THEN {NewRow(q)'} ELSE {}
                        /\ \A r \in inserted'[q] :
                             /\ \A s \in rows' : ~SamePair(r, s)
                             /\ \A o \in Caller \ {q} : \A s \in inserted'[o] : ~SamePair(r, s)
      BY DEF InsertedIsNew, SamePair
    <2>1. /\ inserted'[p] = {} /\ pc'[p] = "idle"
          /\ \A o \in Caller \ {p} :
               inserted'[o] = inserted[o] /\ pc'[o] = pc[o] /\ found'[o] = found[o]
      BY <1>1 DEF Inv, Types
    <2>2. CASE q = p
      BY <2>1, <2>2
    <2>3. CASE q # p
      <3>1. NewRow(q)' = NewRow(q)
        BY <1>1, <2>3 DEF Inv, Types, NewRow
      <3> QED
        BY <2>1, <2>3, <3>1 DEF Inv, InsertedIsNew
    <2> QED
      BY <2>2, <2>3
  <1>7. LegacyFound'
    BY <1>1 DEF Inv, Types, LegacyFound
  <1> QED
    BY <1>2, <1>3, <1>4, <1>5, <1>6, <1>7 DEF Inv

(* A deletion waits for locked rows, so that no found row goes away.       *)
LEMMA DeleteInv ==
  ASSUME Inv, NEW team \in Team, NEW forTeam \in Team, OweLimitCustomDelete(team, forTeam)
  PROVE  Inv'
  <1>1. /\ \A r \in rows : r \notin rows' => \A p \in Caller : held[p] # r.id
        /\ rows' \subseteq rows
        /\ UNCHANGED <<call, pc, found, held, inserted, calls>>
    BY DEF OweLimitCustomDelete, Locked, Inv, Types, Rows
  <1>2. Types'
    BY <1>1 DEF Inv, Types
  <1>3. OneRowPerPair'
    BY <1>1 DEF Inv, OneRowPerPair, SamePair
  <1>4. IdsFresh'
    BY <1>1 DEF Inv, Types, IdsFresh, Running
  <1>5. FoundIsHeld'
    BY <1>1 DEF Inv, Types, FoundIsHeld, SamePair
  <1>6. InsertedIsNew'
    BY <1>1 DEF Inv, Types, InsertedIsNew, SamePair, NewRow
  <1>7. LegacyFound'
    BY <1>1 DEF Inv, Types, LegacyFound
  <1> QED
    BY <1>2, <1>3, <1>4, <1>5, <1>6, <1>7 DEF Inv

(* What a commit makes of the table: the new row, if there is one, and the *)
(* old rows, of which the one that was found gets the threshold.           *)
Committed(p, r) == IF r.id = found[p] THEN [r EXCEPT !.threshold = call[p].threshold] ELSE r

LEMMA CommittedLemma ==
  ASSUME Inv, NEW p \in Caller, Commit(p)
  PROVE  /\ rows' = inserted[p] \cup {Committed(p, r) : r \in rows}
         /\ \A r \in rows :
              /\ Committed(p, r) \in Rows
              /\ Committed(p, r).id = r.id
              /\ SamePair(Committed(p, r), r)
              /\ Committed(p, r).isDefault = r.isDefault
              /\ Committed(p, r).threshold =
                   IF r.id = found[p] THEN call[p].threshold ELSE r.threshold
  <1>1. pc[p] = "commit" /\ call[p] \in Calls
    BY DEF Commit, Inv, IdsFresh, Running
  <1>2. rows' = inserted[p] \cup {Committed(p, r) : r \in rows}
    BY DEF Commit, Committed
  <1> QED
    BY <1>1, <1>2 DEF Inv, Types, Committed, Rows, Calls, SamePair

(* A commit brings its new row, whose id and pair no other row has, or a   *)
(* new threshold of the row that it holds.                                 *)
LEMMA CommitInv ==
  ASSUME Inv, NEW p \in Caller, Commit(p)
  PROVE  Inv'
  <1>1. /\ pc[p] = "commit"
        /\ call' = [call EXCEPT ![p] = NoCall]
        /\ pc' = [pc EXCEPT ![p] = "idle"]
        /\ found' = [found EXCEPT ![p] = 0]
        /\ held' = [held EXCEPT ![p] = 0]
        /\ inserted' = [inserted EXCEPT ![p] = {}]
        /\ UNCHANGED calls
    BY DEF Commit, End
  <1>2. /\ rows' = inserted[p] \cup {Committed(p, r) : r \in rows}
        /\ \A r \in rows :
             /\ Committed(p, r) \in Rows
             /\ Committed(p, r).id = r.id
             /\ SamePair(Committed(p, r), r)
             /\ Committed(p, r).isDefault = r.isDefault
    BY CommittedLemma
  <1>3. \A r \in inserted[p] :
          /\ inserted[p] = {r}
          /\ r \in Rows /\ r.id = call[p].id /\ r.isDefault # "null"
          /\ \A s \in rows : ~SamePair(r, s)
          /\ \A q \in Caller \ {p} : \A s \in inserted[q] : ~SamePair(r, s)
    <2>1. inserted[p] \in {{}, {NewRow(p)}}
      BY DEF Inv, InsertedIsNew
    <2>2. /\ NewRow(p) \in Rows /\ NewRow(p).id = call[p].id
          /\ NewRow(p).isDefault # "null"
      BY <1>1, NewRowLemma DEF Inv, Running
    <2> QED
      BY <2>1, <2>2 DEF Inv, InsertedIsNew
  <1>4. \A q \in Caller \ {p} :
          /\ call'[q] = call[q] /\ pc'[q] = pc[q] /\ found'[q] = found[q]
          /\ held'[q] = held[q] /\ inserted'[q] = inserted[q]
    BY <1>1 DEF Inv, Types
  <1>5. /\ call'[p] = NoCall /\ pc'[p] = "idle" /\ found'[p] = 0
        /\ held'[p] = 0 /\ inserted'[p] = {}
    BY <1>1 DEF Inv, Types
  <1> HIDE DEF Committed
  <1>6. Types'
    BY <1>1, <1>2, <1>3 DEF Inv, Types
  <1>7. OneRowPerPair'
    BY <1>2, <1>3 DEF Inv, OneRowPerPair, SamePair
  <1>8. IdsFresh'
    BY <1>1, <1>2, <1>3, <1>4, <1>5 DEF Inv, Types, IdsFresh, Running, Calls
  <1>9. FoundIsHeld'
    BY <1>1, <1>2, <1>3, <1>4, <1>5 DEF Inv, Types, IdsFresh, Running, FoundIsHeld, SamePair, Rows
  <1>10. InsertedIsNew'
    <2> SUFFICES ASSUME NEW q \in Caller
                 PROVE  /\ inserted'[q] = IF pc'[q] = "commit" /\ found'[q] = 0
                                          THEN {NewRow(q)'} ELSE {}
                        /\ \A r \in inserted'[q] :
                             /\ \A s \in rows' : ~SamePair(r, s)
                             /\ \A o \in Caller \ {q} : \A s \in inserted'[o] : ~SamePair(r, s)
      BY DEF InsertedIsNew, SamePair
    <2>1. CASE q = p
      BY <1>5, <2>1
    <2>2. CASE q # p
      <3>1. NewRow(q)' = NewRow(q)
        BY <1>4, <2>2 DEF NewRow
      <3>2. /\ inserted'[q] = IF pc'[q] = "commit" /\ found'[q] = 0
                              THEN {NewRow(q)'} ELSE {}
            /\ \A r \in inserted'[q] : \A o \in Caller \ {q} : \A s \in inserted'[o] :
                 ~SamePair(r, s)
        BY <1>4, <1>5, <2>2, <3>1 DEF Inv, InsertedIsNew
      <3>3. ASSUME NEW r \in inserted'[q], NEW s \in rows'
            PROVE  ~SamePair(r, s)
        <4>1. r \in inserted[q]
          BY <1>4, <2>2
        <4>2. CASE s \in inserted[p]
          BY <1>3, <2>2, <4>1, <4>2 DEF SamePair
        <4>3. CASE \E old \in rows : s = Committed(p, old)
          <5>1. PICK old \in rows : s = Committed(p, old)
            BY <4>3
          <5>2. SamePair(s, old)
            BY <1>2, <5>1
          <5>3. ~SamePair(r, old)
            BY <4>1 DEF Inv, InsertedIsNew
          <5> QED
            BY <5>2, <5>3 DEF SamePair
        <4> QED
          BY <1>2, <4>2, <4>3
      <3> QED
        BY <3>2, <3>3
    <2> QED
      BY <2>1, <2>2
  <1>11. LegacyFound'
    BY <1>2, <1>3, <1>4, <1>5 DEF Inv, LegacyFound, SamePair
  <1> QED
    BY <1>6, <1>7, <1>8, <1>9, <1>10, <1>11 DEF Inv

LEMMA StutterInv == Inv /\ UNCHANGED vars => Inv'
  <1> SUFFICES ASSUME Inv, UNCHANGED vars
               PROVE  Inv'
    OBVIOUS
  <1>1. UNCHANGED <<rows, call, pc, found, held, inserted, calls>>
    BY DEF vars
  <1>2. Types' /\ OneRowPerPair' /\ IdsFresh'
    BY <1>1 DEF Inv, Types, OneRowPerPair, IdsFresh, SamePair, Running
  <1>3. FoundIsHeld' /\ LegacyFound'
    BY <1>1, ZenonT(40) DEF Inv, FoundIsHeld, LegacyFound, SamePair
  <1>4. InsertedIsNew'
    <2>1. \A p : NewRow(p)' = NewRow(p)
      BY <1>1 DEF NewRow
    <2>2. InsertedIsNew
      BY DEF Inv
    <2> QED
      BY <1>1, <2>1, <2>2 DEF InsertedIsNew, SamePair
  <1> QED
    BY <1>2, <1>3, <1>4 DEF Inv

(* One step per action of Next.                                            *)
LEMMA StepInv == Inv /\ [Next]_vars => Inv'
  <1> SUFFICES ASSUME Inv, [Next]_vars
               PROVE  Inv'
    OBVIOUS
  <1>1. ASSUME NEW p \in Caller, NEW team \in Team, NEW forTeam \in Team \cup {NoTeam},
               NEW threshold \in Threshold, Set(p, team, forTeam, threshold)
        PROVE  Inv'
    BY <1>1, SetInv
  <1>2. ASSUME NEW p \in Caller, Progress(p)
        PROVE  Inv'
    <2>1. CASE Read(p)
      BY <2>1, ReadInv
    <2>2. CASE Lock(p)
      BY <2>2, LockInv
    <2>3. CASE Insert(p)
      BY <2>3, InsertInv
    <2>4. CASE Update(p)
      BY <2>4, UpdateInv
    <2>5. CASE Commit(p)
      BY <2>5, CommitInv
    <2>6. CASE Duplicate(p)
      BY <2>6, EndInv DEF Duplicate
    <2> QED
      BY <1>2, <2>1, <2>2, <2>3, <2>4, <2>5, <2>6 DEF Progress
  <1>3. ASSUME NEW p \in Caller, Crash(p)
        PROVE  Inv'
    BY <1>3, EndInv DEF Crash
  <1>4. ASSUME NEW team \in Team, NEW forTeam \in Team, OweLimitCustomDelete(team, forTeam)
        PROVE  Inv'
    BY <1>4, DeleteInv
  <1>5. CASE UNCHANGED vars
    BY <1>5, StutterInv
  <1> QED
    BY <1>1, <1>2, <1>3, <1>4, <1>5 DEF Next

(* The inductive invariant holds in every reachable state.                 *)
THEOREM OweLimitInvariant == Spec => []Inv
  <1>1. Init => Inv
    BY InitInv
  <1>2. Inv /\ [Next]_vars => Inv'
    BY StepInv
  <1> QED
    BY <1>1, <1>2, PTL DEF Spec
-----------------------------------------------------------------------------
(* Every row and every transaction is well typed, no team limits itself,   *)
(* and a row that a transaction has locked stays in the table.             *)
THEOREM OweLimitTypes == Spec => []TypeOK
  <1>1. Inv => TypeOK
    <2> SUFFICES ASSUME Inv
                 PROVE  TypeOK
      OBVIOUS
    <2>1. \A r \in rows :
            /\ r.team \in Team /\ r.forTeam \in (Team \cup {NoTeam}) \ {r.team}
            /\ r.isDefault \in {"true", "false", "null"} /\ r.threshold \in Threshold
      BY DEF Inv, Types, Rows
    <2>2. \A p \in Caller :
            /\ call[p] \in Calls \cup {NoCall}
            /\ pc[p] \in {"idle", "read", "lock", "write", "commit"}
      BY DEF Inv, Types
    <2>3. \A p \in Caller : held[p] # 0 => \E r \in rows : r.id = held[p]
      BY DEF Inv, FoundIsHeld
    <2> QED
      BY <2>1, <2>2, <2>3 DEF Inv, Types, TypeOK
  <1> QED
    BY <1>1, OweLimitInvariant, PTL

(* The rules as OweLimitDefaultGet and OweLimitCustomList read them are    *)
(* the rows for the pair.                                                  *)
LEMMA RuleRowsLemma ==
  ASSUME Types, NEW team \in Team, NEW forTeam \in Team \cup {NoTeam}
  PROVE  (IF forTeam = NoTeam THEN Default(team) ELSE Custom(team, forTeam))
           = {r \in rows : r.team = team /\ r.forTeam = forTeam}
  BY OweLimitAssumption DEF Types, Rows, Default, Custom

(* A creditor has at most one default and at most one rule per debtor,     *)
(* although a locking read of a missing row locks nothing; and every set   *)
(* for a pair with a row of the legacy writer works on that row.           *)
THEOREM OweLimitOneRule == Spec => []OneRule
  <1>1. Inv => OneRule
    <2> SUFFICES ASSUME Inv
                 PROVE  OneRule
      OBVIOUS
    <2>1. ASSUME NEW team \in Team, NEW forTeam \in Team \cup {NoTeam}
          PROVE  Cardinality(IF forTeam = NoTeam THEN Default(team)
                             ELSE Custom(team, forTeam)) <= 1
      <3> DEFINE own == {r \in rows : r.team = team /\ r.forTeam = forTeam}
      <3>1. \A r, s \in own : r = s
        BY DEF Inv, OneRowPerPair, SamePair
      <3>2. Cardinality(own) <= 1
        <4>1. CASE own = {}
          BY <4>1, FS_EmptySet
        <4>2. CASE own # {}
          <5>1. PICK r \in own : TRUE
            BY <4>2
          <5>2. own = {r}
            BY <3>1, <5>1
          <5> HIDE DEF own
          <5> QED
            BY <5>2, FS_Singleton
        <4> QED
          BY <4>1, <4>2
      <3> QED
        BY <3>2, RuleRowsLemma DEF Inv
    <2>2. LegacyFound
      BY DEF Inv
    <2> QED
      BY <2>1, <2>2 DEF OneRule, LegacyFound
  <1> QED
    BY <1>1, OweLimitInvariant, PTL
-----------------------------------------------------------------------------
(* How the rules change.                                                   *)

(* The rows for a pair, and the rule that they make, before a step and     *)
(* after it.                                                               *)
Own(team, forTeam) == {r \in rows : r.team = team /\ r.forTeam = forTeam}

LEMMA RuleLemma ==
  ASSUME Types, NEW team \in Team, NEW forTeam \in Team \cup {NoTeam}
  PROVE  Rule(team, forTeam) = {r.threshold : r \in Own(team, forTeam)}
  BY RuleRowsLemma DEF Rule, Own

LEMMA NextRuleLemma ==
  ASSUME Types', NEW team \in Team, NEW forTeam \in Team \cup {NoTeam}
  PROVE  Rule(team, forTeam)' = {r.threshold : r \in Own(team, forTeam)'}
  BY OweLimitAssumption DEF Types, Rows, Default, Custom, Rule, Own

(* After a commit the one row for the pair of its call has the threshold   *)
(* of the call: either the row it has held since it found it, or the new   *)
(* row for a pair that had none.                                           *)
LEMMA CommitSetsRule ==
  ASSUME Inv, NEW p \in Caller, Commit(p), NEW team, NEW forTeam,
         call[p].team = team, call[p].forTeam = forTeam
  PROVE  \E r \in rows' : Own(team, forTeam)' = {r} /\ r.threshold = call[p].threshold
  <1>1. pc[p] = "commit" /\ Running(p)
    BY DEF Commit, Running
  <1>2. /\ rows' = inserted[p] \cup {Committed(p, r) : r \in rows}
        /\ \A r \in rows : /\ SamePair(Committed(p, r), r)
                           /\ Committed(p, r).threshold =
                                IF r.id = found[p] THEN call[p].threshold ELSE r.threshold
    BY CommittedLemma
  <1>3. Own(team, forTeam)' = {r \in rows' : r.team = team /\ r.forTeam = forTeam}
    BY DEF Own
  <1>4. CASE found[p] = 0
    <2>1. inserted[p] = {NewRow(p)}
      BY <1>1, <1>4 DEF Inv, InsertedIsNew
    <2>2. /\ NewRow(p).team = team /\ NewRow(p).forTeam = forTeam
          /\ NewRow(p).threshold = call[p].threshold
      BY <1>1, NewRowLemma DEF Inv, SamePair
    <2>3. \A r \in rows : ~SamePair(NewRow(p), r)
      BY <2>1 DEF Inv, InsertedIsNew
    <2> HIDE DEF NewRow, Committed
    <2>4. Own(team, forTeam)' = {NewRow(p)}
      BY <1>2, <1>3, <2>1, <2>2, <2>3 DEF SamePair
    <2> QED
      BY <1>3, <2>2, <2>4
  <1>5. CASE found[p] # 0
    <2>1. inserted[p] = {} /\ held[p] = found[p]
      BY <1>1, <1>5 DEF Inv, InsertedIsNew, FoundIsHeld
    <2>2. PICK r \in rows : r.id = found[p]
      BY <1>5, <2>1 DEF Inv, FoundIsHeld
    <2>3. r.team = team /\ r.forTeam = forTeam
      BY <2>2 DEF Inv, FoundIsHeld, SamePair
    <2>4. \A s \in rows : s.team = team /\ s.forTeam = forTeam => s = r
      BY <2>3 DEF Inv, OneRowPerPair, SamePair
    <2> HIDE DEF Committed
    <2>5. Own(team, forTeam)' = {Committed(p, r)}
      BY <1>2, <1>3, <2>1, <2>3, <2>4 DEF SamePair
    <2> QED
      BY <1>2, <1>3, <2>2, <2>5
  <1> QED
    BY <1>4, <1>5

(* A commit leaves the rows for every other pair as they are.              *)
LEMMA CommitKeepsOthers ==
  ASSUME Inv, NEW p \in Caller, Commit(p), NEW team, NEW forTeam,
         ~(call[p].team = team /\ call[p].forTeam = forTeam)
  PROVE  Own(team, forTeam)' = Own(team, forTeam)
  <1>1. pc[p] = "commit" /\ Running(p)
    BY DEF Commit, Running
  <1>2. rows' = inserted[p] \cup {Committed(p, r) : r \in rows}
    BY CommittedLemma
  <1>3. \A r \in inserted[p] : ~(r.team = team /\ r.forTeam = forTeam)
    <2>1. inserted[p] \in {{}, {NewRow(p)}}
      BY DEF Inv, InsertedIsNew
    <2> QED
      BY <1>1, <2>1, NewRowLemma DEF Inv, SamePair
  <1>4. \A r \in rows : \/ Committed(p, r) = r
                       \/ /\ ~(r.team = team /\ r.forTeam = forTeam)
                          /\ SamePair(Committed(p, r), r)
    <2>1. \A r \in rows : r.id = found[p] => SamePair(r, call[p])
      BY DEF Inv, FoundIsHeld
    <2> QED
      BY <2>1, CommittedLemma DEF Committed, SamePair
  <1> HIDE DEF Committed
  <1>5. \A r \in Own(team, forTeam) : r \in Own(team, forTeam)'
    BY <1>2, <1>4 DEF Own
  <1>6. \A r \in Own(team, forTeam)' : r \in Own(team, forTeam)
    BY <1>2, <1>3, <1>4 DEF Own, SamePair
  <1> QED
    BY <1>5, <1>6

(* Of two commits in one step, one caller would have to end the            *)
(* transaction of the other.                                               *)
LEMMA OneCommit ==
  ASSUME Inv, NEW p \in Caller, NEW q \in Caller, Commit(p), Commit(q)
  PROVE  p = q
  BY DEF Inv, Types, Commit, End

LEMMA RuleStepLemma == Inv /\ [Next]_vars => RuleStep
  <1> SUFFICES ASSUME Inv, [Next]_vars
               PROVE  RuleStep
    OBVIOUS
  <1> SUFFICES ASSUME NEW team \in Team, NEW forTeam \in Team \cup {NoTeam},
                      NEW set, NEW deleted \in BOOLEAN,
                      set = {p \in Caller : /\ Commit(p)
                                            /\ call[p].team = team
                                            /\ call[p].forTeam = forTeam},
                      deleted <=> forTeam \in Team /\ OweLimitCustomDelete(team, forTeam)
               PROVE  Rule(team, forTeam)' =
                        IF set # {} THEN {call[p].threshold : p \in set}
                        ELSE IF deleted THEN {} ELSE Rule(team, forTeam)
    BY DEF RuleStep
  <1>1. Types /\ Types'
    BY StepInv DEF Inv
  <1>2. /\ Rule(team, forTeam) = {r.threshold : r \in Own(team, forTeam)}
        /\ Rule(team, forTeam)' = {r.threshold : r \in Own(team, forTeam)'}
    BY <1>1, RuleLemma, NextRuleLemma
  <1>3. CASE set # {}
    <2>1. PICK p \in Caller : /\ Commit(p)
                              /\ call[p].team = team /\ call[p].forTeam = forTeam
      BY <1>3
    <2>2. set = {p}
      BY <2>1, OneCommit
    <2>3. PICK r \in rows' : Own(team, forTeam)' = {r} /\ r.threshold = call[p].threshold
      BY <2>1, CommitSetsRule
    <2>4. Rule(team, forTeam)' = {call[p].threshold}
      BY <1>2, <2>3
    <2>5. {call[q].threshold : q \in set} = {call[p].threshold}
      BY <2>2
    <2> QED
      BY <1>3, <2>4, <2>5
  <1>4. CASE set = {} /\ deleted
    <2>1. rows' = rows \ Matching(team, forTeam)
      BY <1>4 DEF OweLimitCustomDelete
    <2>2. Own(team, forTeam)' = {}
      BY <1>1, <2>1, MatchingLemma DEF Own
    <2> QED
      BY <1>2, <1>4, <2>2
  <1>5. CASE set = {} /\ ~deleted
    <2>1. Own(team, forTeam)' = Own(team, forTeam)
      <3>1. CASE UNCHANGED rows
        BY <3>1 DEF Own
      <3>2. ASSUME NEW p \in Caller, Commit(p)
            PROVE  Own(team, forTeam)' = Own(team, forTeam)
        BY <1>5, <3>2, CommitKeepsOthers
      <3>3. ASSUME NEW t \in Team, NEW u \in Team, OweLimitCustomDelete(t, u)
            PROVE  Own(team, forTeam)' = Own(team, forTeam)
        <4>1. rows' = rows \ {r \in rows : r.team = t /\ r.forTeam = u}
          BY <1>1, <3>3, MatchingLemma DEF OweLimitCustomDelete
        <4>2. ~(t = team /\ u = forTeam)
          BY <1>5, <3>3
        <4> QED
          BY <4>1, <4>2 DEF Own
      <3>4. \/ UNCHANGED rows
            \/ \E p \in Caller : Commit(p)
            \/ \E t, u \in Team : OweLimitCustomDelete(t, u)
        BY DEF Next, Progress, Set, Read, Lock, Insert, Update, Duplicate, Crash, vars
      <3> QED
        BY <3>1, <3>2, <3>3, <3>4
    <2> QED
      BY <1>2, <1>5, <2>1
  <1> QED
    BY <1>3, <1>4, <1>5

(* The rules change only as calls say: a set that answers without an error *)
(* is in force then, a delete takes the rule for its debtor away, and no   *)
(* statement touches another rule.                                         *)
THEOREM OweLimitRulesFollowCalls == Spec => RulesFollowCalls
  <1>1. Inv /\ [Next]_vars => [RuleStep]_vars
    BY RuleStepLemma
  <1> QED
    BY <1>1, OweLimitInvariant, PTL DEF Spec, RulesFollowCalls
-----------------------------------------------------------------------------
(* The evaluation, row by row.                                             *)

Limit == [threshold : Int, hasCustom : BOOLEAN, hasCfg : BOOLEAN]

(* Rows that the evaluation for a debtor may read.                         *)
Readable(r, debtor, creditors) ==
  r \in Rows /\ r.team \in creditors /\ (r.forTeam = debtor \/ r.isDefault = "true")

IsCustom(r, debtor) == r.isDefault # "true" /\ r.forTeam = debtor

(* A row decides the limit of its creditor, or leaves it alone.            *)
LEMMA ResolveLemma ==
  ASSUME NEW debtor, NEW creditors, NEW limits \in [creditors -> Limit], NEW r,
         Readable(r, debtor, creditors)
  PROVE  /\ Resolve(limits, r, debtor) \in [creditors -> Limit]
         /\ \A c \in creditors \ {r.team} : Resolve(limits, r, debtor)[c] = limits[c]
         /\ Resolve(limits, r, debtor)[r.team] =
              IF IsCustom(r, debtor)
              THEN [threshold |-> r.threshold, hasCustom |-> TRUE, hasCfg |-> TRUE]
              ELSE IF limits[r.team].hasCustom THEN limits[r.team]
              ELSE [threshold |-> r.threshold, hasCustom |-> FALSE, hasCfg |-> TRUE]
  <1> DEFINE new == Resolve(limits, r, debtor)
             t == r.team
             set == [threshold |-> r.threshold, hasCustom |-> TRUE, hasCfg |-> TRUE]
             default == [threshold |-> r.threshold, hasCustom |-> FALSE, hasCfg |-> TRUE]
  <1>1. t \in creditors /\ r.threshold \in Int /\ (IsCustom(r, debtor) \/ r.isDefault = "true")
    <2>1. r \in Rows /\ t \in creditors /\ (r.forTeam = debtor \/ r.isDefault = "true")
      BY DEF Readable
    <2>2. r.threshold \in Int
      <3>1. \A q \in Rows : q.threshold \in Threshold
        BY DEF Rows
      <3>2. r.threshold \in Nat
        BY <2>1, <3>1, OweLimitAssumption
      <3> QED
        BY <3>2
    <2> QED
      BY <2>1, <2>2 DEF IsCustom
  <1>2. set \in Limit /\ default \in Limit
    BY <1>1 DEF Limit
  <1>3. CASE IsCustom(r, debtor)
    <2>1. new = [limits EXCEPT ![t] = set]
      BY <1>3 DEF Resolve, IsCustom
    <2> HIDE DEF set, default, t, new
    <2> QED
      BY <1>1, <1>2, <1>3, <2>1 DEF set, default, t, new
  <1>4. CASE ~IsCustom(r, debtor) /\ limits[t].hasCustom
    <2>1. r.isDefault = "true"
      BY <1>1, <1>4
    <2>2. new = limits
      BY <1>4, <2>1 DEF Resolve
    <2> QED
      BY <1>1, <1>4, <2>2
  <1>5. CASE ~IsCustom(r, debtor) /\ ~limits[t].hasCustom
    <2>1. r.isDefault = "true"
      BY <1>1, <1>5
    <2>2. new = [limits EXCEPT ![t] = default]
      BY <1>5, <2>1 DEF Resolve
    <2> HIDE DEF set, default, t, new
    <2> QED
      BY <1>1, <1>2, <1>5, <2>2 DEF set, default, t, new
  <1> QED
    BY <1>3, <1>4, <1>5
(* The limits of all creditors after the rows cfgs[1], ..., cfgs[n].       *)
Unset(creditors) ==
  [c \in creditors |-> [threshold |-> 0, hasCustom |-> FALSE, hasCfg |-> FALSE]]

Limits(cfgs, debtor, creditors) ==
  FoldLeft(LAMBDA ls, cfg : Resolve(ls, cfg, debtor), Unset(creditors), cfgs)

ResolveFrom(V, cfgs, debtor, n) ==
  [x \in (1 .. n) \X V |-> Resolve(x[2], cfgs[x[1]], debtor)]

(* L has the limits before each row and after the last one.                *)
Evaluation(L, cfgs, debtor, creditors, n) ==
  /\ L[0] = Unset(creditors) /\ L[n] = Limits(cfgs, debtor, creditors)
  /\ \A i \in 1 .. n : L[i] = Resolve(L[i - 1], cfgs[i], debtor)

(* The evaluation goes through the rows one by one.                        *)
LEMMA LimitsLemma ==
  ASSUME NEW debtor, NEW creditors, NEW n \in Nat, NEW S, NEW cfgs \in [1 .. n -> S],
         \A r \in S : Readable(r, debtor, creditors)
  PROVE  \E L : Evaluation(L, cfgs, debtor, creditors, n)
  <1> DEFINE V == [creditors -> Limit]
             base == Unset(creditors)
             step == ResolveFrom(V, cfgs, debtor, n)
  <1>1. base \in V
    BY DEF Unset, Limit
  <1>2. \A i \in 1 .. n, v \in V : /\ step[<<i, v>>] = Resolve(v, cfgs[i], debtor)
                                   /\ step[<<i, v>>] \in V
    <2> TAKE i \in 1 .. n, v \in V
    <2>1. step[<<i, v>>] = Resolve(v, cfgs[i], debtor)
      <3> HIDE DEF V
      <3> QED
        BY DEF ResolveFrom
    <2>2. Readable(cfgs[i], debtor, creditors)
      OBVIOUS
    <2>3. v \in [creditors -> Limit]
      OBVIOUS
    <2>4. Resolve(v, cfgs[i], debtor) \in [creditors -> Limit]
      BY <2>2, <2>3, ResolveLemma
    <2> QED
      BY <2>1, <2>4
  <1> HIDE DEF V, base, step
  <1>3. PICK g \in [SUBSET (1 .. n) -> V] : FoldsLeft(g, base, step, n)
    BY <1>1, <1>2, FoldsLeftExists
  <1> DEFINE Body(h) == [s \in SUBSET (1 .. n) |->
               IF s = {} THEN base
               ELSE Resolve(h[s \ {CHOOSE m \in s : \A k \in s : m >= k}],
                            cfgs[CHOOSE m \in s : \A k \in s : m >= k], debtor)]
  <1>4. g = Body(g)
    <2>1. ASSUME NEW s \in SUBSET (1 .. n)
          PROVE  g[s] = Body(g)[s]
      <3> DEFINE m == Greatest(n)[s]
      <3>1. m = CHOOSE i \in s : \A k \in s : i >= k
        BY DEF Greatest
      <3>2. g[s] = IF s = {} THEN base ELSE step[<<m, g[s \ {m}]>>]
        BY <1>3 DEF FoldsLeft, IsFold, FoldBody
      <3>3. s # {} => m \in 1 .. n /\ s \ {m} \in SUBSET (1 .. n)
        BY GreatestLemma
      <3> HIDE DEF m
      <3>4. s # {} => step[<<m, g[s \ {m}]>>] = Resolve(g[s \ {m}], cfgs[m], debtor)
        BY <1>2, <3>3
      <3> QED
        BY <3>1, <3>2, <3>4
    <2>2. g = [s \in SUBSET (1 .. n) |-> g[s]]
      OBVIOUS
    <2>3. Body(g) = [s \in SUBSET (1 .. n) |-> Body(g)[s]]
      OBVIOUS
    <2> HIDE DEF Body
    <2> QED
      BY <2>1, <2>2, <2>3
  <1> DEFINE iter == CHOOSE h : h = Body(h)
  <1>5. iter = Body(iter)
    <2> HIDE DEF Body
    <2> QED
      BY <1>4
  <1>6. Limits(cfgs, debtor, creditors) = iter[1 .. n]
    BY DEF Limits, FoldLeft, MapThenFoldSet, base, Max
  <1>7. iter[1 .. 0] = base
    <2>1. 1 .. 0 = {} /\ {} \in SUBSET (1 .. n)
      OBVIOUS
    <2>2. Body(iter)[{}] = base
      BY <2>1
    <2> QED
      BY <1>5, <2>1, <2>2
  <1>8. ASSUME NEW i \in 1 .. n
        PROVE  iter[1 .. i] = Resolve(iter[1 .. (i - 1)], cfgs[i], debtor)
    <2> DEFINE s == 1 .. i
               m == CHOOSE x \in s : \A k \in s : x >= k
    <2>1. /\ s \in SUBSET (1 .. n) /\ s # {} /\ m = i /\ s \ {i} = 1 .. (i - 1)
      BY GreatestLemma DEF Greatest
    <2>2. Body(iter)[s] = Resolve(iter[s \ {m}], cfgs[m], debtor)
      <3> HIDE DEF iter
      <3> QED
        BY <2>1
    <2> HIDE DEF Body, iter, m, s
    <2>3. iter[s] = Resolve(iter[1 .. (i - 1)], cfgs[i], debtor)
      BY <1>5, <2>1, <2>2
    <2> QED
      BY <2>3 DEF s
  <1> DEFINE L == [i \in 0 .. n |-> iter[1 .. i]]
  <1> HIDE DEF iter
  <1>9. \A i \in 0 .. n : L[i] = iter[1 .. i]
    OBVIOUS
  <1>10. 0 \in 0 .. n /\ n \in 0 .. n /\ \A i \in 1 .. n : i \in 0 .. n /\ i - 1 \in 0 .. n
    OBVIOUS
  <1> HIDE DEF L
  <1>11. Evaluation(L, cfgs, debtor, creditors, n)
    BY <1>6, <1>7, <1>8, <1>9, <1>10 DEF base, Evaluation
  <1> QED
    BY <1>11
(* What the limits say of the rows seen so far: whether the creditor has a *)
(* row, whether it has a custom one, and the threshold of that or of the   *)
(* default.                                                                *)
Known(limits, seen, debtor, creditors) ==
  /\ limits \in [creditors -> Limit]
  /\ \A c \in creditors :
       /\ limits[c].hasCfg <=> \E r \in seen : r.team = c
       /\ limits[c].hasCustom <=> \E r \in seen : r.team = c /\ IsCustom(r, debtor)
       /\ \A r \in seen : r.team = c /\ (IsCustom(r, debtor) \/ ~limits[c].hasCustom)
            => limits[c].threshold = r.threshold

(* One row for each pair, each of which the evaluation may read.           *)
OneEach(S, debtor, creditors) ==
  /\ \A r \in S : Readable(r, debtor, creditors)
  /\ \A r, s \in S : SamePair(r, s) => r = s

LEMMA SameKindLemma ==
  ASSUME NEW debtor, NEW creditors, NEW r, Readable(r, debtor, creditors),
         NEW s, Readable(s, debtor, creditors), r.team = s.team,
         IsCustom(r, debtor) <=> IsCustom(s, debtor)
  PROVE  SamePair(r, s)
  <1>1. \A q \in Rows : q.isDefault = "true" <=> q.forTeam = NoTeam
    BY DEF Rows
  <1>2. r \in Rows /\ s \in Rows
    BY DEF Readable
  <1> QED
    BY <1>1, <1>2 DEF Readable, IsCustom, SamePair

LEMMA KnownLemma ==
  ASSUME NEW debtor, NEW creditors, NEW S, OneEach(S, debtor, creditors),
         NEW seen \in SUBSET S, NEW r \in S,
         NEW limits, Known(limits, seen, debtor, creditors)
  PROVE  Known(Resolve(limits, r, debtor), seen \cup {r}, debtor, creditors)
  <1> DEFINE new == Resolve(limits, r, debtor)
             custom == IsCustom(r, debtor)
  <1>1. Readable(r, debtor, creditors) /\ limits \in [creditors -> Limit] /\ r.team \in creditors
    BY DEF OneEach, Known, Readable
  <1>2. /\ new \in [creditors -> Limit]
        /\ \A c \in creditors \ {r.team} : new[c] = limits[c]
        /\ new[r.team] = IF custom
             THEN [threshold |-> r.threshold, hasCustom |-> TRUE, hasCfg |-> TRUE]
             ELSE IF limits[r.team].hasCustom THEN limits[r.team]
             ELSE [threshold |-> r.threshold, hasCustom |-> FALSE, hasCfg |-> TRUE]
    BY <1>1, ResolveLemma
  <1>3. \A s \in seen : s.team = r.team /\ (IsCustom(s, debtor) <=> custom)
          => s.threshold = r.threshold
    <2> TAKE s \in seen
    <2> HAVE s.team = r.team /\ (IsCustom(s, debtor) <=> custom)
    <2>1. s \in S /\ Readable(s, debtor, creditors)
      BY DEF OneEach
    <2>2. SamePair(r, s)
      BY <1>1, <2>1, SameKindLemma
    <2> QED
      BY <2>1, <2>2 DEF OneEach
  <1> HIDE DEF new, custom
  <1>4. ASSUME NEW c \in creditors, c # r.team
        PROVE  /\ new[c].hasCfg <=> \E s \in seen \cup {r} : s.team = c
               /\ new[c].hasCustom
                    <=> \E s \in seen \cup {r} : s.team = c /\ IsCustom(s, debtor)
               /\ \A s \in seen \cup {r} :
                    s.team = c /\ (IsCustom(s, debtor) \/ ~new[c].hasCustom)
                      => new[c].threshold = s.threshold
    <2>1. new[c] = limits[c]
      BY <1>2, <1>4
    <2> QED
      BY <1>4, <2>1 DEF Known
  <1>5. /\ new[r.team].hasCfg <=> \E s \in seen \cup {r} : s.team = r.team
        /\ new[r.team].hasCustom
             <=> \E s \in seen \cup {r} : s.team = r.team /\ IsCustom(s, debtor)
        /\ \A s \in seen \cup {r} :
             s.team = r.team /\ (IsCustom(s, debtor) \/ ~new[r.team].hasCustom)
               => new[r.team].threshold = s.threshold
    <2>1. CASE custom
      <3>1. new[r.team].hasCustom = TRUE /\ new[r.team].hasCfg = TRUE
            /\ new[r.team].threshold = r.threshold
        BY <1>2, <2>1
      <3> QED
        BY <1>3, <2>1, <3>1 DEF custom
    <2>2. CASE ~custom /\ limits[r.team].hasCustom
      <3>1. new[r.team] = limits[r.team]
        BY <1>2, <2>2
      <3> QED
        BY <1>1, <2>2, <3>1 DEF Known, custom
    <2>3. CASE ~custom /\ ~limits[r.team].hasCustom
      <3>1. new[r.team].hasCustom = FALSE /\ new[r.team].hasCfg = TRUE
            /\ new[r.team].threshold = r.threshold
        BY <1>2, <2>3
      <3>2. \A s \in seen : s.team = r.team => ~IsCustom(s, debtor)
        BY <1>1, <2>3 DEF Known
      <3> QED
        BY <1>3, <2>3, <3>1, <3>2 DEF custom
    <2> QED
      BY <2>1, <2>2, <2>3
  <1>6. Known(new, seen \cup {r}, debtor, creditors)
    BY <1>2, <1>4, <1>5 DEF Known
  <1> QED
    BY <1>6 DEF new

(* The evaluation knows all rows it was given, whatever their order.       *)
LEMMA AllKnown ==
  ASSUME NEW debtor, NEW creditors, NEW S, OneEach(S, debtor, creditors),
         NEW n \in Nat, NEW cfgs \in [1 .. n -> S]
  PROVE  Known(Limits(cfgs, debtor, creditors), {cfgs[i] : i \in 1 .. n}, debtor, creditors)
  <1>1. \A r \in S : Readable(r, debtor, creditors)
    BY DEF OneEach
  <1>2. PICK L : Evaluation(L, cfgs, debtor, creditors, n)
    BY <1>1, LimitsLemma
  <1>3. /\ L[0] = Unset(creditors) /\ L[n] = Limits(cfgs, debtor, creditors)
        /\ \A i \in 1 .. n : L[i] = Resolve(L[i - 1], cfgs[i], debtor)
    BY <1>2 DEF Evaluation
  <1> DEFINE Seen(i) == {cfgs[j] : j \in 1 .. i}
             Bad == {i \in 0 .. n : ~Known(L[i], Seen(i), debtor, creditors)}
  <1>4. Bad = {}
    <2> SUFFICES ASSUME Bad # {} PROVE FALSE
      OBVIOUS
    <2>1. PICK i \in Bad : \A k \in Bad : i <= k
      <3>1. Bad \in SUBSET Nat
        OBVIOUS
      <3> HIDE DEF Bad
      <3> QED
        BY <3>1, LeastNatural
    <2>2. i # 0
      <3>1. Seen(0) = {}
        OBVIOUS
      <3> HIDE DEF Seen
      <3>2. Known(L[0], Seen(0), debtor, creditors)
        BY <1>3, <3>1 DEF Known, Unset, Limit
      <3> QED
        BY <3>2
    <2>3. i \in 1 .. n /\ i - 1 \in 0 .. n /\ i - 1 \notin Bad
      <3>1. i \in 0 .. n
        OBVIOUS
      <3> HIDE DEF Bad
      <3> QED
        BY <3>1, <2>1, <2>2
    <2>4. Known(L[i - 1], Seen(i - 1), debtor, creditors)
      BY <2>3
    <2>5. Seen(i - 1) \in SUBSET S /\ cfgs[i] \in S /\ Seen(i) = Seen(i - 1) \cup {cfgs[i]}
      <3>1. 1 .. i = (1 .. (i - 1)) \cup {i} /\ 1 .. (i - 1) \subseteq 1 .. n
        BY <2>3
      <3> QED
        BY <2>3, <3>1
    <2> HIDE DEF Seen
    <2>6. Known(Resolve(L[i - 1], cfgs[i], debtor), Seen(i), debtor, creditors)
      BY <2>4, <2>5, KnownLemma
    <2>7. Known(L[i], Seen(i), debtor, creditors)
      BY <1>3, <2>3, <2>6
    <2> QED
      BY <2>1, <2>7
  <1>5. n \in 0 .. n
    OBVIOUS
  <1> HIDE DEF Seen
  <1>6. Known(L[n], Seen(n), debtor, creditors)
    BY <1>4, <1>5
  <1> QED
    BY <1>3, <1>6 DEF Seen
-----------------------------------------------------------------------------
(* The table is finite: its ids are, and each is of one row.               *)
LEMMA RowsFinite == Inv => IsFiniteSet(rows)
  <1> SUFFICES ASSUME Inv
               PROVE  IsFiniteSet(rows)
    OBVIOUS
  <1> DEFINE f == [r \in rows |-> r.id]
             ids == 1 .. calls + 1
  <1>1. calls + 1 \in Nat /\ rows \subseteq Rows
    BY OweLimitAssumption DEF Inv, Types
  <1>2. \A r \in Rows : r.id \in Nat \ {0}
    BY DEF Rows
  <1>3. \A r \in rows : r.id \in ids
    BY <1>1, <1>2 DEF Inv, IdsFresh
  <1>4. \A r, s \in rows : f[r] = f[s] => r = s
    BY DEF Inv, IdsFresh
  <1>5. IsFiniteSet(ids)
    BY <1>1, FS_Interval
  <1> HIDE DEF ids
  <1>6. f \in Injection(rows, ids)
    BY <1>3, <1>4 DEF Injection, IsInjective
  <1> QED
    BY <1>5, <1>6, FS_Injection

(* A sequence of all elements of a finite set, each once, has them all.    *)
LEMMA AllElements ==
  ASSUME NEW S, IsFiniteSet(S), NEW cfgs \in SetToSeqs(S)
  PROVE  /\ Cardinality(S) \in Nat /\ cfgs \in [1 .. Cardinality(S) -> S]
         /\ {cfgs[i] : i \in 1 .. Cardinality(S)} = S
  <1> DEFINE n == Cardinality(S)
             D == 1 .. n
  <1>1. n \in Nat
    BY FS_CardinalityType
  <1>2. cfgs \in [D -> S] /\ \A i, j \in D : i # j => cfgs[i] # cfgs[j]
    BY DEF SetToSeqs
  <1>3. Cardinality(D) = n
    BY <1>1, FS_Interval
  <1> HIDE DEF D
  <1>4. cfgs \in Injection(D, S)
    BY <1>2 DEF Injection, IsInjective
  <1>5. cfgs \in Surjection(D, S)
    BY <1>3, <1>4, FS_Injection
  <1>6. {cfgs[i] : i \in D} = S
    BY <1>2, <1>5 DEF Surjection
  <1> QED
    BY <1>1, <1>2, <1>6 DEF D

(* In whatever order the rows come, the answer to a debtor is that of its  *)
(* creditor's rule for it, of the default when there is none, and yes when *)
(* there is neither or the threshold is 0.                                 *)
THEOREM OweLimitAnswers == Spec => []AnswerFollowsRules
  <1>1. Inv => AnswerFollowsRules
    <2> SUFFICES ASSUME Inv, NEW debtor \in Team,
                        NEW cfgs \in SetToSeqs(Selected(rows, debtor, Team \ {debtor})),
                        NEW debtOf \in [Team \ {debtor} -> Debt], NEW c \in Team \ {debtor}
                 PROVE  EvaluateOweLimits(cfgs, debtor, Team \ {debtor}, debtOf)[c].allow
                          <=> \A threshold \in IF Custom(c, debtor) # {} THEN Rule(c, debtor)
                                               ELSE Rule(c, NoTeam) :
                                threshold = 0 \/ debtOf[c] < threshold
      BY DEF AnswerFollowsRules
    <2> DEFINE creditors == Team \ {debtor}
               S == Selected(rows, debtor, creditors)
               limits == Limits(cfgs, debtor, creditors)
    <2>1. /\ rows \subseteq Rows /\ debtor # NoTeam
          /\ \A r, s \in rows : SamePair(r, s) => r = s
      BY OweLimitAssumption DEF Inv, Types, OneRowPerPair
    <2>2. IsFiniteSet(S)
      BY RowsFinite, FS_Subset DEF Selected
    <2>3. OneEach(S, debtor, creditors)
      BY <2>1 DEF OneEach, Readable, Selected
    <2>4. EvaluateOweLimits(cfgs, debtor, creditors, debtOf)[c].allow
            <=> \/ ~limits[c].hasCfg \/ limits[c].threshold = 0
                \/ debtOf[c] < limits[c].threshold
      BY DEF EvaluateOweLimits, Limits, Unset
    <2> HIDE DEF S, limits
    <2>5. Known(limits, S, debtor, creditors)
      <3> DEFINE n == Cardinality(S)
      <3>1. n \in Nat /\ cfgs \in [1 .. n -> S] /\ {cfgs[i] : i \in 1 .. n} = S
        BY <2>2, AllElements DEF S
      <3> HIDE DEF n
      <3>2. Known(limits, {cfgs[i] : i \in 1 .. n}, debtor, creditors)
        BY <2>3, <3>1, AllKnown DEF limits
      <3> QED
        BY <3>1, <3>2
    <2>6. \A r \in Rows : r.isDefault = "true" <=> r.forTeam = NoTeam
      BY DEF Rows
    <2>7. /\ Custom(c, debtor) = {r \in S : r.team = c /\ IsCustom(r, debtor)}
          /\ Default(c) = {r \in S : r.team = c /\ ~IsCustom(r, debtor)}
      BY <2>1, <2>6 DEF Custom, Default, S, Selected, IsCustom
    <2>8. /\ Rule(c, debtor) = {r.threshold : r \in Custom(c, debtor)}
          /\ Rule(c, NoTeam) = {r.threshold : r \in Default(c)}
      BY <2>1 DEF Rule
    <2>9. CASE Custom(c, debtor) # {}
      <3>1. PICK r \in S : r.team = c /\ IsCustom(r, debtor)
        BY <2>7, <2>9
      <3>2. limits[c].hasCfg /\ limits[c].threshold = r.threshold
        BY <2>5, <3>1 DEF Known
      <3>3. \A s \in Custom(c, debtor) : s.threshold = r.threshold
        BY <2>5, <2>7, <3>2 DEF Known
      <3>4. Rule(c, debtor) = {r.threshold}
        BY <2>7, <2>8, <3>1, <3>3
      <3> QED
        BY <2>4, <2>9, <3>2, <3>4
    <2>10. CASE Custom(c, debtor) = {} /\ Default(c) # {}
      <3>1. PICK r \in S : r.team = c /\ ~IsCustom(r, debtor)
        BY <2>7, <2>10
      <3>2. ~limits[c].hasCustom
        BY <2>5, <2>7, <2>10 DEF Known
      <3>3. limits[c].hasCfg /\ limits[c].threshold = r.threshold
        BY <2>5, <3>1, <3>2 DEF Known
      <3>4. \A s \in Default(c) : s.threshold = r.threshold
        BY <2>5, <2>7, <3>2, <3>3 DEF Known
      <3>5. Rule(c, NoTeam) = {r.threshold}
        BY <2>7, <2>8, <3>1, <3>4
      <3> QED
        BY <2>4, <2>10, <3>3, <3>5
    <2>11. CASE Custom(c, debtor) = {} /\ Default(c) = {}
      <3>1. ~\E r \in S : r.team = c
        BY <2>7, <2>11
      <3>2. ~limits[c].hasCfg
        BY <2>5, <3>1 DEF Known
      <3>3. Rule(c, NoTeam) = {}
        BY <2>8, <2>11
      <3> QED
        BY <2>4, <2>11, <3>2, <3>3
    <2> QED
      BY <2>9, <2>10, <2>11
  <1> QED
    BY <1>1, OweLimitInvariant, PTL
=============================================================================
