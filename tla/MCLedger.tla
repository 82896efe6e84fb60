------------------------------ MODULE MCLedger ------------------------------
(* Small instances of Ledger and its views for TLC.                        *)
EXTENDS LedgerViews, TLC

CONSTANTS t1, t2, zero, p1, p2, none

MCPair == {t1, t2}
MCPaymentId == {p1, p2}
MCRef == {p1, p2, none}
NoTeams == [t \in {} |-> [name |-> 0, type |-> "UNSPECIFIED"]]

Symmetry == Permutations({t1, t2}) \cup Permutations({p1, p2})
=============================================================================
