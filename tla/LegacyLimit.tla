---------------------------- MODULE LegacyLimit ----------------------------
(***************************************************************************)
(* The legacy limit service of service.go: a creditor limits the unpaid    *)
(* invoices of all debtors or of one, and the answer to whether a debtor   *)
(* may order is kept in a cache for a minute.  There is no transaction     *)
(* anywhere: the answer is two statements and a cache entry, a set is a    *)
(* read and a save, and the table has no unique index.                     *)
(***************************************************************************)
EXTENDS Integers, FiniteSets

CONSTANTS Client,     \* concurrent callers
          Creditor, Debtor, NoDebtor,
          Limit,      \* thresholds that are set; 0 is "unlimited"
          MaxUnpaid,  \* bound on what a debtor has unpaid
          MaxChanges  \* bound on the changes of limits and invoices

ASSUME LegacyAssumption ==
  /\ NoDebtor \notin Debtor
  /\ Limit \subseteq Nat
  /\ MaxUnpaid \in Nat /\ MaxChanges \in Nat

VARIABLES configs,  \* invoice_limit_configurations
          unpaid,   \* what each debtor has unpaid of each creditor's invoices
          cache,    \* the answers kept, per creditor and debtor
          client,   \* what each caller is doing
          changes   \* changes so far

legacyVars == <<configs, unpaid, cache, client, changes>>

Key == Creditor \X Debtor
Nothing == [can |-> "none"]
Resting == [pc |-> "idle"]

LegacyInit ==
  /\ configs = {}
  /\ unpaid = [k \in Key |-> 0]
  /\ cache = [k \in Key |-> Nothing]
  /\ client = [c \in Client |-> Resting]
  /\ changes = 0

(* The thresholds that may decide for a pair: the rows come in no order,   *)
(* and of several of one limit type the last one counts.                   *)
Limitter(k) ==
  LET Of(debtor) == {r.threshold : r \in {x \in configs : /\ x.team = k[1]
                                                           /\ x.forTeam = debtor}}
  IN  IF Of(k[2]) # {} THEN Of(k[2]) ELSE IF Of(NoDebtor) # {} THEN Of(NoDebtor) ELSE {0}

(* An answer, and whether the cache will let go of it.                     *)
Answer(amount, threshold) ==
  [can |-> threshold = 0 \/ amount < threshold, amount |-> amount,
   threshold |-> threshold, expires |-> TRUE]

Doing(c, pc) == client[c].pc = pc

(* GetLimitInvoice: a hit answers and changes nothing; a miss goes on ...  *)
Miss(c, k) ==
  /\ Doing(c, "idle") /\ cache[k] = Nothing
  /\ client' = [client EXCEPT ![c] = [pc |-> "amount", key |-> k]]
  /\ UNCHANGED <<configs, unpaid, cache, changes>>

(* ... to the sum of the unpaid invoices ...                               *)
ReadUnpaid(c) ==
  /\ Doing(c, "amount")
  /\ client' = [client EXCEPT
       ![c] = [pc |-> "limitter", key |-> @.key, amount |-> unpaid[@.key]]]
  /\ UNCHANGED <<configs, unpaid, cache, changes>>

(* ... to the configurations ...                                           *)
ReadConfigs(c) ==
  /\ Doing(c, "limitter")
  /\ \E threshold \in Limitter(client[c].key) :
       client' = [client EXCEPT
         ![c] = [pc |-> "add", key |-> @.key, answer |-> Answer(@.amount, threshold)]]
  /\ UNCHANGED <<configs, unpaid, cache, changes>>

(* Faulty variant: the entry has no expiration.                            *)
AddForGood(c) ==
  /\ Doing(c, "add")
  /\ cache' = [cache EXCEPT ![client[c].key] = [client[c].answer EXCEPT !.expires = FALSE]]
  /\ client' = [client EXCEPT ![c] = Resting]
  /\ UNCHANGED <<configs, unpaid, changes>>

(* ... and to the cache, whatever that got in the meantime.                *)
Add(c) ==
  /\ Doing(c, "add")
  /\ cache' = [cache EXCEPT ![client[c].key] = client[c].answer]
  /\ client' = [client EXCEPT ![c] = Resting]
  /\ UNCHANGED <<configs, unpaid, changes>>

(* SetLimitInvoice reads the first row of the pair, or of the default ...  *)
FindConfig(c, team, forTeam, threshold) ==
  LET ids == {r.id : r \in {x \in configs : x.team = team /\ x.forTeam = forTeam}}
  IN  /\ Doing(c, "idle") /\ changes < MaxChanges
      /\ changes' = changes + 1
      /\ \E id \in IF ids = {} THEN {changes'} ELSE {i \in ids : \A j \in ids : i <= j} :
           client' = [client EXCEPT
             ![c] = [pc |-> "save", config |-> [id |-> id, team |-> team, forTeam |-> forTeam,
                                                threshold |-> threshold]]]
      /\ UNCHANGED <<configs, unpaid, cache>>

(* ... and saves it, or a new one; a row deleted meanwhile is saved anew.  *)
Save(c) ==
  /\ Doing(c, "save")
  /\ configs' = {r \in configs : r.id # client[c].config.id} \cup {client[c].config}
  /\ client' = [client EXCEPT ![c] = Resting]
  /\ UNCHANGED <<unpaid, cache, changes>>

(* LimitInvoiceDelete; without a debtor all rows of the team go.           *)
LimitInvoiceDelete(team, forTeam) ==
  /\ changes < MaxChanges
  /\ configs' = {r \in configs : r.team # team \/ (forTeam # NoDebtor /\ r.forTeam # forTeam)}
  /\ changes' = changes + 1
  /\ UNCHANGED <<unpaid, cache, client>>

(* A statement or the cache fails, and the caller gets the error.          *)
Fail(c) ==
  /\ ~Doing(c, "idle")
  /\ client' = [client EXCEPT ![c] = Resting]
  /\ UNCHANGED <<configs, unpaid, cache, changes>>

UnpaidChanges(k) ==
  /\ changes < MaxChanges
  /\ \E amount \in (0 .. MaxUnpaid) \ {unpaid[k]} : unpaid' = [unpaid EXCEPT ![k] = amount]
  /\ changes' = changes + 1
  /\ UNCHANGED <<configs, cache, client>>

(* The minute of an entry is over.                                         *)
Expire(k) ==
  /\ cache[k] # Nothing /\ cache[k].expires
  /\ cache' = [cache EXCEPT ![k] = Nothing]
  /\ UNCHANGED <<configs, unpaid, client, changes>>

GoOn(c) == ReadUnpaid(c) \/ ReadConfigs(c) \/ Add(c) \/ Save(c)

LegacyNext ==
  \/ \E c \in Client :
       \/ \E k \in Key : Miss(c, k)
       \/ \E team \in Creditor, forTeam \in Debtor \cup {NoDebtor}, threshold \in Limit :
            FindConfig(c, team, forTeam, threshold)
       \/ GoOn(c) \/ Fail(c)
  \/ \E team \in Creditor, forTeam \in Debtor \cup {NoDebtor} : LimitInvoiceDelete(team, forTeam)
  \/ \E k \in Key : UnpaidChanges(k) \/ Expire(k)

(* Statements return, and the minute of a cache entry passes.              *)
LegacyFairness ==
  /\ \A c \in Client : WF_legacyVars(GoOn(c))
  /\ \A k \in Key : WF_legacyVars(Expire(k))

LegacySpec == LegacyInit /\ [][LegacyNext]_legacyVars /\ LegacyFairness
-----------------------------------------------------------------------------
(* A cached answer can be stale, and an answer computed from older rows    *)
(* can even replace a newer one.  But once limits and invoices have come   *)
(* to rest, the cache in the end only holds answers that a caller without  *)
(* a cache would get as well.                                              *)
CacheCatchesUp ==
  <>[](\A k \in Key :
         cache[k] # Nothing =>
           \E threshold \in Limitter(k) : cache[k] = Answer(unpaid[k], threshold))
=============================================================================
