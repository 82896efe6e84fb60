---------------------------- MODULE MCOrderFlow ----------------------------
(* A small instance of OrderFlow for TLC.                                  *)
EXTENDS OrderFlow

CONSTANTS t1, t2, t3, zero, o1, o2, o3, p1, none

MCTeam == {t1, t2, t3}
MCRef == {o1, o2, o3, p1, none}

(* Three orders of t1 with goods of t2; the last one is handled by t3's    *)
(* warehouse, and the second one carries an earlier day than the others.   *)
Item(productTeam, total) == [owned |-> FALSE, productTeam |-> productTeam, total |-> total]
MCOrderRow ==
  [o \in {o1, o2, o3} |->
     [team |-> t1, warehouse |-> IF o = o3 THEN t3 ELSE t2, fee |-> 1,
      items |-> IF o = o3 THEN << Item(t2, 2) >> ELSE << Item(t2, 1) >>]]
MCEventDay ==
  [e \in {<<o1, "OrderCreated">>, <<o2, "OrderCreated">>, <<o3, "OrderCreated">>,
          <<o1, "OrderCanceled">>} |-> IF e[1] = o2 THEN 1 ELSE 2]
MCLimitSet ==
  {[team |-> t2, forTeam |-> zero, threshold |-> 1],
   [team |-> t2, forTeam |-> t1, threshold |-> 2]}
MCPayPair == {<<t1, t2>>}
MCNone == [x \in {} |-> 0]
MCTeams ==
  [t \in {t1, t2} |-> [name |-> IF t = t1 THEN 1 ELSE 2, type |-> "SELLING"]]

MCRequest ==
  {[op |-> "timeline", team |-> t1, forTeam |-> zero, unit |-> 1, start |-> 2, end |-> 3],
   [op |-> "list", team |-> t1, forTeam |-> zero, type |-> "UNSPECIFIED", sort |-> "PAYABLE",
    desc |-> TRUE, page |-> [page |-> 1, limit |-> 1], bt |-> "PAYABLE",
    start |-> 1, end |-> 2]}
=============================================================================
