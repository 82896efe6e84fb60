---------------------------- MODULE MCLedgerTxn ----------------------------
(* Small instances of LedgerTxn for TLC.                                   *)
EXTENDS LedgerTxn, TLC

CONSTANTS t1, t2, zero, p1, p2, none, s1, s2, s3, free

MCTeam == {t1, t2}
MCDay == {1, 2}
MCPaymentId == {p1, p2}
MCRef == {p1, p2, none}
TwoSessions == {s1, s2}
ThreeSessions == {s1, s2, s3}

Post(team, forTeam, bt, amount, day) ==
  [op |-> "post", team |-> team, forTeam |-> forTeam, bt |-> bt,
   kind |-> "ADJUSTMENT", amount |-> amount, day |-> day]
Create(team, forTeam, amount, day) ==
  [op |-> "create", team |-> team, forTeam |-> forTeam, amount |-> amount, day |-> day]
Decide(op, id, team, forTeam, day) ==
  [op |-> op, id |-> id, team |-> team, forTeam |-> forTeam, day |-> day]

(* t1 runs up a debt of 2 to t2, which a payment of 3 overpays; t2 pays    *)
(* t1 as well; p1 is decided as a payment of either to the other.          *)
PayRequests ==
  {Post(t2, t1, "RECEIVABLE", 2, 1), Create(t1, t2, 3, 1), Create(t2, t1, 1, 1),
   Decide("accept", p1, t1, t2, 2), Decide("reject", p1, t1, t2, 2),
   Decide("accept", p1, t2, t1, 1)}

(* Postings that start from each of the four accounts of the pair, on both *)
(* days, one that is refused, and a payment in each direction.             *)
MixedRequests ==
  {Post(t2, t1, "RECEIVABLE", 2, 1), Post(t1, t2, "PAYABLE", 1, 2),
   Post(t1, t2, "RECEIVABLE", 1, 1), Post(t1, t1, "PAYABLE", 1, 1),
   Create(t1, t2, 3, 1), Create(t2, t1, 1, 1),
   Decide("accept", p1, t1, t2, 2)}

SessionSymmetry == Permutations({s1, s2, s3})
=============================================================================
