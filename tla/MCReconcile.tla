---------------------------- MODULE MCReconcile ----------------------------
(* Small instances of Reconcile for TLC.                                   *)
EXTENDS Reconcile

CONSTANTS t1, t2, t3, zero, d1, none, c1, c2

MCTeam == {t1, t2, t3}
MCDay == {d1}
MCRef == {none}

(* sync-legacy reconciles every team, a TeamReconcile client one.          *)
SyncScope == {MCTeam}
TeamScope == {{t1}}

(* A team with two creditors, and a pair that owes each other.             *)
MCDebt == {<<t1, t2>>, <<t1, t3>>, <<t2, t1>>}
=============================================================================
