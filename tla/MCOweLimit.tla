----------------------------- MODULE MCOweLimit -----------------------------
(* A small instance of OweLimit for TLC: two callers race on the rules of  *)
(* two teams, with the threshold 0 that means unlimited among the values.  *)
(* And one of LegacyLimit, which has a table of its own: a behavior takes  *)
(* the steps of one of the two, since they have nothing to interleave on.  *)
EXTENDS OweLimit, LegacyLimit

CONSTANTS p1, p2, a, b, none

MCInit == Init /\ LegacyInit

MCNext ==
  \/ Next /\ LegacyInit /\ UNCHANGED legacyVars
  \/ LegacyNext /\ Init /\ rows = {} /\ UNCHANGED vars

MCSpec ==
  /\ MCInit /\ [][MCNext]_<<vars, legacyVars>>
  /\ \A p \in Caller : WF_vars(Progress(p))
  /\ LegacyFairness
=============================================================================
