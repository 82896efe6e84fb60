------------------------------ MODULE PushOnce ------------------------------
(***************************************************************************)
(* What the push endpoint promises: every published message is applied to  *)
(* the ledger at most once and all at once, in any order.                  *)
(***************************************************************************)
EXTENDS PushPostings

CONSTANT Message
VARIABLES db, applied

vars == <<db, applied>>

Init == db = EmptyLedger /\ applied = {}

Apply(m, today) ==
  /\ m \notin applied
  /\ m.type # "Malformed"
  /\ db' = PostAll(db, Postings(m), PostingDay(m, today))
  /\ applied' = applied \cup {m}

Next == \E m \in Message, today \in Day : Apply(m, today)

Spec == Init /\ [][Next]_vars
=============================================================================
