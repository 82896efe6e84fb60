------------------------------ MODULE OweLimit ------------------------------
(***************************************************************************)
(* Owe limits: a creditor configures how much a debtor may owe it, by a    *)
(* default row and by custom rows that beat the default.  The handlers     *)
(* upsert the rows in transactions of two statements (a locking read, then *)
(* an insert or an update by id), so concurrent ones meet at row locks and *)
(* at the partial unique indexes.  OweEval evaluates the rows.             *)
(***************************************************************************)
EXTENDS OweEval

CONSTANTS Caller,     \* concurrent callers of the handlers
          Team, NoTeam,
          Threshold,  \* thresholds that are set; 0 is "unlimited"
          Debt,       \* debts at which limits are evaluated
          MaxCalls    \* bound on the sets of all callers

ASSUME OweLimitAssumption ==
  /\ NoTeam \notin Team
  /\ Threshold \subseteq Nat
  /\ Debt \subseteq Int
  /\ MaxCalls \in Nat

VARIABLES rows,      \* owe_limit_configurations
          call,      \* each caller's running set; its id is that of the row it may create
          pc,        \* the next statement of its transaction
          found,     \* id of the row its read found, 0 for none
          held,      \* id of the row it has locked, 0 for none
          inserted,  \* the rows it has inserted and not committed
          calls      \* sets so far

vars == <<rows, call, pc, found, held, inserted, calls>>

(* A set without forTeam is one of the default.                            *)
Calls == [id : Nat, team : Team, forTeam : Team \cup {NoTeam}, threshold : Threshold]
NoCall == [id |-> 0, team |-> NoTeam, forTeam |-> NoTeam, threshold |-> 0]

(* The table starts empty or with a custom row that selling_service wrote: *)
(* is_default may be NULL in it.                                           *)
Init ==
  /\ \E legacy \in {pair \in Team \X Team : pair[1] # pair[2]}, threshold \in Threshold :
       rows \in {{}, {Row(1, legacy[1], legacy[2], "null", threshold)}}
  /\ call = [p \in Caller |-> NoCall]
  /\ pc = [p \in Caller |-> "idle"]
  /\ found = [p \in Caller |-> 0]
  /\ held = [p \in Caller |-> 0]
  /\ inserted = [p \in Caller |-> {}]
  /\ calls = 0

(* The rows a handler selects: the default of team when there is no        *)
(* forTeam, otherwise its row for forTeam of which is_default IS NOT TRUE. *)
Matching(team, forTeam) ==
  {r \in rows : /\ r.team = team
                /\ IF forTeam = NoTeam THEN r.isDefault = "true"
                   ELSE r.isDefault # "true" /\ r.forTeam = forTeam}

(* Faulty variant: the table has no unique index.                          *)
BadSameKey(r, s) == FALSE

(* uniq_owe_limit_default and uniq_owe_limit_custom.                       *)
SameKey(r, s) ==
  /\ r.team = s.team
  /\ r.isDefault = "true" <=> s.isDefault = "true"
  /\ r.isDefault = "true" \/ r.forTeam = s.forTeam

Locked(id) == \E p \in Caller : held[p] = id /\ id # 0

NewRow(p) ==
  Row(call[p].id, call[p].team, call[p].forTeam,
      IF call[p].forTeam = NoTeam THEN "true" ELSE "false", call[p].threshold)

Others(p) == UNION {inserted[q] : q \in Caller \ {p}}
-----------------------------------------------------------------------------
(* Faulty variant: a team may set a custom limit for itself.               *)
BadAllowed(c) == TRUE

Allowed(c) == c.team # c.forTeam

(* OweLimitDefaultSet and OweLimitCustomSet.                               *)
Set(p, team, forTeam, threshold) ==
  LET c == [id |-> calls + 2, team |-> team, forTeam |-> forTeam, threshold |-> threshold]
  IN  /\ pc[p] = "idle" /\ calls < MaxCalls
      /\ Allowed(c)
      /\ call' = [call EXCEPT ![p] = c]
      /\ pc' = [pc EXCEPT ![p] = "read"]
      /\ calls' = calls + 1
      /\ UNCHANGED <<rows, found, held, inserted>>

(* The locking read finds a row of its snapshot ...                        *)
Read(p) ==
  LET rs == Matching(call[p].team, call[p].forTeam)
  IN  /\ pc[p] = "read"
      /\ \E id \in IF rs = {} THEN {0} ELSE {r.id : r \in rs} :
           found' = [found EXCEPT ![p] = id]
      /\ pc' = [pc EXCEPT ![p] = "lock"]
      /\ UNCHANGED <<rows, call, held, inserted, calls>>

(* Faulty variant: the row is read without FOR UPDATE.                     *)
BadLock(p) ==
  /\ pc[p] = "lock"
  /\ pc' = [pc EXCEPT ![p] = "write"]
  /\ UNCHANGED <<rows, call, found, held, inserted, calls>>

(* ... and waits for its lock; a row deleted meanwhile is not returned.    *)
Lock(p) ==
  LET id == IF \E r \in rows : r.id = found[p] THEN found[p] ELSE 0
  IN  /\ pc[p] = "lock" /\ ~Locked(found[p])
      /\ found' = [found EXCEPT ![p] = id]
      /\ held' = [held EXCEPT ![p] = id]
      /\ pc' = [pc EXCEPT ![p] = "write"]
      /\ UNCHANGED <<rows, call, inserted, calls>>

(* An insert waits for an uncommitted row with its key.                    *)
Insert(p) ==
  /\ pc[p] = "write" /\ found[p] = 0
  /\ \A r \in rows \cup Others(p) : ~SameKey(r, NewRow(p))
  /\ inserted' = [inserted EXCEPT ![p] = {NewRow(p)}]
  /\ pc' = [pc EXCEPT ![p] = "commit"]
  /\ UNCHANGED <<rows, call, found, held, calls>>

(* The update by id; others see it when it commits.                        *)
Update(p) ==
  /\ pc[p] = "write" /\ found[p] # 0
  /\ pc' = [pc EXCEPT ![p] = "commit"]
  /\ UNCHANGED <<rows, call, found, held, inserted, calls>>

(* Faulty variant: the end of a transaction keeps its row locked.          *)
BadEnd(p) ==
  /\ call' = [call EXCEPT ![p] = NoCall]
  /\ pc' = [pc EXCEPT ![p] = "idle"]
  /\ found' = [found EXCEPT ![p] = 0]
  /\ inserted' = [inserted EXCEPT ![p] = {}]
  /\ UNCHANGED <<held, calls>>

End(p) ==
  /\ call' = [call EXCEPT ![p] = NoCall]
  /\ pc' = [pc EXCEPT ![p] = "idle"]
  /\ found' = [found EXCEPT ![p] = 0]
  /\ held' = [held EXCEPT ![p] = 0]
  /\ inserted' = [inserted EXCEPT ![p] = {}]
  /\ UNCHANGED calls

(* The caller gets its response.                                           *)
Commit(p) ==
  /\ pc[p] = "commit"
  /\ rows' = inserted[p] \cup
       {IF r.id = found[p] THEN [r EXCEPT !.threshold = call[p].threshold] ELSE r : r \in rows}
  /\ End(p)

(* Another caller has committed the row that was missing from the read:    *)
(* the insert violates a unique index and the caller gets an error.        *)
Duplicate(p) ==
  /\ pc[p] = "write" /\ found[p] = 0
  /\ \E r \in rows : SameKey(r, NewRow(p))
  /\ End(p)
  /\ UNCHANGED rows

(* The transaction is lost with its connection.                            *)
Crash(p) ==
  /\ pc[p] # "idle"
  /\ End(p)
  /\ UNCHANGED rows

(* OweLimitCustomDelete is one statement; it waits for locked rows.        *)
OweLimitCustomDelete(team, forTeam) ==
  /\ \A r \in Matching(team, forTeam) : ~Locked(r.id)
  /\ rows' = rows \ Matching(team, forTeam)
  /\ UNCHANGED <<call, pc, found, held, inserted, calls>>

Progress(p) == \/ Read(p) \/ Lock(p) \/ Insert(p) \/ Update(p) \/ Commit(p) \/ Duplicate(p)

Next ==
  \/ \E p \in Caller :
       \/ \E team \in Team, forTeam \in Team \cup {NoTeam}, threshold \in Threshold :
            Set(p, team, forTeam, threshold)
       \/ Progress(p) \/ Crash(p)
  \/ \E team, forTeam \in Team : OweLimitCustomDelete(team, forTeam)

(* The database executes the statements it has accepted.                   *)
Spec == Init /\ [][Next]_vars /\ \A p \in Caller : WF_vars(Progress(p))
-----------------------------------------------------------------------------
(* The rules: the default as OweLimitDefaultGet reads it, the custom ones  *)
(* as OweLimitCustomList does, each as the set of its thresholds.          *)
Default(team) == {r \in rows : r.team = team /\ r.isDefault = "true"}
Custom(team, debtor) ==
  {r \in rows : r.team = team /\ r.isDefault # "true" /\ r.forTeam = debtor}
Rule(team, forTeam) ==
  {r.threshold : r \in IF forTeam = NoTeam THEN Default(team) ELSE Custom(team, forTeam)}

(* The types of the table and of the transactions.  No team limits itself. *)
TypeOK ==
  /\ \A r \in rows :
       /\ r.team \in Team /\ r.forTeam \in (Team \cup {NoTeam}) \ {r.team}
       /\ r.isDefault \in {"true", "false", "null"} /\ r.threshold \in Threshold
  /\ \A p \in Caller :
       /\ call[p] \in Calls \cup {NoCall}
       /\ pc[p] \in {"idle", "read", "lock", "write", "commit"}
       /\ held[p] # 0 => \E r \in rows : r.id = held[p]
  /\ calls \in 0 .. MaxCalls

(* However sets, deletes and crashes interleave, and although a locking    *)
(* read of a missing row locks nothing, a creditor has at most one default *)
(* and at most one rule per debtor; and when that is a row of the legacy   *)
(* writer, of which is_default may be NULL, every set for the pair works   *)
(* on it instead of failing on the unique index again and again.           *)
OneRule ==
  /\ \A team \in Team, forTeam \in Team \cup {NoTeam} :
       Cardinality(IF forTeam = NoTeam THEN Default(team) ELSE Custom(team, forTeam)) <= 1
  /\ \A p \in Caller, r \in rows :
       (/\ pc[p] \in {"lock", "write", "commit"}
        /\ r.isDefault = "null" /\ r.team = call[p].team /\ r.forTeam = call[p].forTeam)
         => found[p] = r.id

(* The rules change only as calls say: a set that answers without an error *)
(* is in force then, it neither updates a row that is gone nor is lost; a  *)
(* delete takes away the rule for that debtor in the sense in which the    *)
(* evaluation looks for one, whoever wrote its row, so that the debtor     *)
(* falls back to the default; and no statement touches another rule.       *)
RuleStep ==
  \A team \in Team, forTeam \in Team \cup {NoTeam} :
    LET set == {p \in Caller : /\ Commit(p)
                               /\ call[p].team = team /\ call[p].forTeam = forTeam}
        deleted == forTeam \in Team /\ OweLimitCustomDelete(team, forTeam)
    IN  Rule(team, forTeam)' =
          IF set # {} THEN {call[p].threshold : p \in set}
          ELSE IF deleted THEN {} ELSE Rule(team, forTeam)

RulesFollowCalls == [][RuleStep]_vars

(* In whatever order the rows come, the answer for each creditor is that   *)
(* of its rule for the debtor, of its default when it has none, and yes    *)
(* when it has neither or the threshold is 0.                              *)
AnswerFollowsRules ==
  \A debtor \in Team :
    LET creditors == Team \ {debtor}
        InForce(c) == IF Custom(c, debtor) # {} THEN Rule(c, debtor) ELSE Rule(c, NoTeam)
    IN  \A cfgs \in SetToSeqs(Selected(rows, debtor, creditors)), debtOf \in [creditors -> Debt] :
          \A c \in creditors :
            EvaluateOweLimits(cfgs, debtor, creditors, debtOf)[c].allow
              <=> \A threshold \in InForce(c) : threshold = 0 \/ debtOf[c] < threshold

(* Waiting for locks and for keys ends: every set returns.                 *)
EverySetReturns == \A p \in Caller : pc[p] # "idle" ~> pc[p] = "idle"
=============================================================================
