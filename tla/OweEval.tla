------------------------------ MODULE OweEval ------------------------------
(***************************************************************************)
(* EvaluateOweLimits: from the configuration rows that apply to a debtor   *)
(* and its debts, whether each creditor allows it to owe more.  The rows   *)
(* come in no particular order.                                            *)
(***************************************************************************)
EXTENDS Integers, SequencesExt

(* A row of owe_limit_configurations.                                      *)
Row(id, team, forTeam, isDefault, threshold) ==
  [id |-> id, team |-> team, forTeam |-> forTeam, isDefault |-> isDefault,
   threshold |-> threshold]

(* The rows it reads: the first of its two statements.                     *)
Selected(rows, debtor, creditors) ==
  {r \in rows : r.team \in creditors /\ (r.forTeam = debtor \/ r.isDefault = "true")}

(* Faulty variant: a default row seen after the custom one replaces it.    *)
BadResolve(limits, cfg, debtor) ==
  IF cfg.isDefault # "true" /\ cfg.forTeam # debtor THEN limits
  ELSE [limits EXCEPT ![cfg.team] = [threshold |-> cfg.threshold, hasCfg |-> TRUE,
                                     hasCustom |-> cfg.isDefault # "true"]]

(* EvaluateOweLimits for debtor, row by row: the limit of each creditor.   *)
Resolve(limits, cfg, debtor) ==
  CASE cfg.isDefault # "true" /\ cfg.forTeam = debtor ->
         [limits EXCEPT ![cfg.team] =
            [threshold |-> cfg.threshold, hasCustom |-> TRUE, hasCfg |-> TRUE]]
    [] cfg.isDefault = "true" /\ ~limits[cfg.team].hasCustom ->
         [limits EXCEPT ![cfg.team] =
            [threshold |-> cfg.threshold, hasCustom |-> FALSE, hasCfg |-> TRUE]]
    [] OTHER -> limits

(* cfgs is in the order in which the database returned the rows.           *)
EvaluateOweLimits(cfgs, debtor, creditors, debtOf) ==
  LET limits == FoldLeft(LAMBDA ls, cfg : Resolve(ls, cfg, debtor),
                  [c \in creditors |-> [threshold |-> 0, hasCustom |-> FALSE, hasCfg |-> FALSE]],
                  cfgs)
  IN  [c \in creditors |->
         [allow |-> ~limits[c].hasCfg \/ limits[c].threshold = 0
                      \/ debtOf[c] < limits[c].threshold,
          threshold |-> limits[c].threshold,
          activeAmount |-> IF limits[c].hasCfg THEN debtOf[c] ELSE 0]]
=============================================================================
