--------------------------- MODULE MCPushHandler ---------------------------
(* Small instances of PushHandler for TLC.                                 *)
EXTENDS PushHandler

CONSTANTS t1, t2, t3, zero, d1, d2, o1, none, h1, h2

MCTeam == {t1, t2, t3}
MCDay == {d1, d2}
MCRef == {o1, none}
MCHandler == {h1, h2}
MCClock == {d1}

(* One order of t1 with goods of t2 and t3, handled by t2's warehouse, and *)
(* with items that cost nothing: own goods, and one without a team.        *)
Item(productTeam, total) == [owned |-> FALSE, productTeam |-> productTeam, total |-> total]
MCOrderRow ==
  [o \in {o1} |->
     [team |-> t1, warehouse |-> t2, fee |-> 1,
      items |-> << Item(t2, 2), Item(zero, 1), Item(t3, 1), Item(t2, 3),
                   [Item(t1, 4) EXCEPT !.owned = TRUE] >>]]
MCRestockRow == [x \in {"x1"} |-> [team |-> t3, warehouse |-> t2, codFee |-> 2]]
MCProblemRow ==
  [x \in {"x2"} |->
     [warehouse |-> t2,
      items |-> << [problem |-> "lost_w", productTeam |-> t1, total |-> 1],
                   [problem |-> "lost_s", productTeam |-> t1, total |-> 5],
                   [problem |-> "broken_w", productTeam |-> t2, total |-> 1] >>]]
MCSubmissionRow == [b \in {"b1"} |-> [fromTeam |-> t1, toTeam |-> t2, amount |-> 6]]

Msg(id, sub, type, subject, day) ==
  [id |-> id, sub |-> sub, type |-> type, subject |-> subject, day |-> day]

Created == Msg(1, "selling", "OrderCreated", o1, d2)
Canceled == Msg(2, "selling", "OrderCanceled", o1, d1)
Paid == Msg(3, "selling", "PaymentAccept", "b1", d1)
Restocked == Msg(1, "stock", "RestockAccepted", "x1", d1)
Problem == Msg(2, "stock", "StockProblem", "x2", d1)
Malformed == Msg(4, "selling", "Malformed", o1, d1)

AllMessage == {Created, Canceled, Paid, Restocked, Problem, Malformed}
PaidMessage == {Created, Canceled, Paid}
=============================================================================
