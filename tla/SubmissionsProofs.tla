------------------------- MODULE SubmissionsProofs -------------------------
(***************************************************************************)
(* Theorems about Submissions, for any teams, stock transactions, amounts  *)
(* and numbers of rows: what the invoices of a transaction cost, who pays  *)
(* for an invoice, and what is given back.  At the end, those about the    *)
(* queries it reads its rows with, InvoiceQuery, for any number of         *)
(* builders: the statement that is built is sound.                         *)
(***************************************************************************)
EXTENDS Submissions, InvoiceQuery, SumProofs
-----------------------------------------------------------------------------
(* The types of the tables and of the loaded object.                       *)

Party == UNION {{pair[1], pair[2]} : pair \in Pair}

InvoiceRow ==
  [from : Party, to : Party, tx : Tx \cup {NoTx}, status : InvoiceStatus,
   amount : Nat \ {0}, needAdj : BOOLEAN, type : {"fee", "adjustment"},
   hasSubmission : BOOLEAN, hist : Nat]

SubmissionRow ==
  [status : SubmissionStatus, amount : Int, invoices : SUBSET (Nat \ {0}),
   log : Seq(SubmissionStatus)]

Types ==
  /\ invoices \in Seq(InvoiceRow)
  /\ \A i \in DOMAIN invoices : invoices[i].hist <= Len(histories)
  /\ submissions \in Seq(SubmissionRow)
  /\ \A s \in DOMAIN submissions : submissions[s].invoices \subseteq DOMAIN invoices
  /\ histories \in Seq(Int)
  /\ data \in [id : Nat, status : SubmissionStatus, locked : SUBSET Nat, calls : 0 .. MaxCalls]
  /\ data = Nothing \/ data.id \in DOMAIN submissions
-----------------------------------------------------------------------------
(* What the invoices inv with these ids cost, and the ids of those that    *)
(* are fees paid under reservation, and that give one back.                *)

Cost(inv, ids) == SumFunctionOnSet([i \in DOMAIN inv |-> inv[i].amount], ids)

From(inv, ids, pair) == {i \in ids : inv[i].from = pair[1] /\ inv[i].to = pair[2]}

Fees(inv) == {i \in DOMAIN inv : /\ inv[i].status = "paid" /\ inv[i].needAdj
                                 /\ inv[i].type = "fee"}

Back(inv) == {i \in DOMAIN inv : inv[i].type = "adjustment"}

Swapped(pair) == <<pair[2], pair[1]>>

Refunded ==
  \A pair \in Pair : Cost(invoices, From(invoices, Fees(invoices), pair))
                       = Cost(invoices, From(invoices, Back(invoices), Swapped(pair)))

(* A submission costs what its invoices cost.                              *)
Priced ==
  \A s \in DOMAIN submissions :
    submissions[s].amount = Cost(invoices, submissions[s].invoices)

(* Accepting a submission leaves none of its invoices to be paid.          *)
Settled ==
  \A s \in DOMAIN submissions : submissions[s].status = "accepted" =>
    \A i \in submissions[s].invoices : invoices[i].status \in {"paid", "cancel"}

(* The object has the status of its submission until it mutates it.        *)
Loaded ==
  data # Nothing /\ data.calls = 0 => data.status = submissions[data.id].status

Inv == Types /\ Refunded /\ Priced /\ Settled /\ Loaded

(* What holds as long as a loaded object is mutated once.                  *)

Holds(subs, s, i) == subs[s].status # "rejected" /\ i \in subs[s].invoices

Exclusive ==
  /\ \A s, t \in DOMAIN submissions : \A i \in DOMAIN invoices :
       Holds(submissions, s, i) /\ Holds(submissions, t, i) => s = t
  /\ \A i \in DOMAIN invoices :
       invoices[i].hasSubmission <=> \E s \in DOMAIN submissions : Holds(submissions, s, i)

PaidBy ==
  \A i \in DOMAIN invoices :
    IF invoices[i].status = "paid"
    THEN /\ invoices[i].hist \in DOMAIN histories
         /\ \E s \in DOMAIN submissions :
              /\ submissions[s].status = "accepted" /\ i \in submissions[s].invoices
              /\ submissions[s].amount = histories[invoices[i].hist]
              /\ \A j \in submissions[s].invoices :
                   invoices[j].status = "paid" => invoices[j].hist = invoices[i].hist
    ELSE invoices[i].hist = 0

OnceInv == Inv /\ Exclusive /\ PaidBy /\ DecidedOnce
-----------------------------------------------------------------------------
(* Costs.                                                                  *)

LEMMA SeqLemma ==
  ASSUME NEW S, NEW q \in Seq(S)
  PROVE  /\ Len(q) \in Nat /\ DOMAIN q = 1 .. Len(q)
         /\ \A i \in DOMAIN q : q[i] \in S
         /\ IsFiniteSet(DOMAIN q)
  <1>1. Len(q) \in Nat /\ DOMAIN q = 1 .. Len(q) /\ \A i \in DOMAIN q : q[i] \in S
    OBVIOUS
  <1> QED
    BY <1>1, FS_Interval

LEMMA InvoicesLemma ==
  ASSUME NEW inv \in Seq(InvoiceRow)
  PROVE  /\ Len(inv) \in Nat /\ DOMAIN inv = 1 .. Len(inv) /\ IsFiniteSet(DOMAIN inv)
         /\ \A i \in DOMAIN inv : /\ inv[i] \in InvoiceRow
                                  /\ inv[i].amount \in Int /\ inv[i].amount > 0
                                  /\ inv[i].status \in InvoiceStatus
                                  /\ inv[i].hist \in Nat
  <1>1. /\ Len(inv) \in Nat /\ DOMAIN inv = 1 .. Len(inv) /\ IsFiniteSet(DOMAIN inv)
        /\ \A i \in DOMAIN inv : inv[i] \in InvoiceRow
    BY SeqLemma
  <1>2. \A r \in InvoiceRow : /\ r.amount \in Int /\ r.amount > 0
                              /\ r.status \in InvoiceStatus /\ r.hist \in Nat
    BY DEF InvoiceRow
  <1> QED
    BY <1>1, <1>2

LEMMA CostType ==
  ASSUME NEW inv \in Seq(InvoiceRow), NEW ids, ids \subseteq DOMAIN inv
  PROVE  IsFiniteSet(ids) /\ Cost(inv, ids) \in Int
  <1> DEFINE f == [i \in DOMAIN inv |-> inv[i].amount]
  <1>1. IsFiniteSet(ids)
    BY InvoicesLemma, FS_Subset
  <1>2. \A i \in ids : f[i] \in Int
    BY InvoicesLemma
  <1> HIDE DEF f
  <1>3. SumFunctionOnSet(f, ids) \in Int
    BY <1>1, <1>2, SumType
  <1> QED
    BY <1>1, <1>3 DEF Cost, f

(* Amounts never change, so neither does what given invoices cost.         *)
LEMMA CostSame ==
  ASSUME NEW inv \in Seq(InvoiceRow), NEW new \in Seq(InvoiceRow),
         NEW ids, ids \subseteq DOMAIN inv, DOMAIN inv \subseteq DOMAIN new,
         \A i \in ids : new[i].amount = inv[i].amount
  PROVE  Cost(new, ids) = Cost(inv, ids)
  <1> DEFINE f == [i \in DOMAIN inv |-> inv[i].amount]
             g == [i \in DOMAIN new |-> new[i].amount]
  <1>1. IsFiniteSet(ids)
    BY CostType
  <1>2. \A i \in ids : g[i] = f[i]
    OBVIOUS
  <1> HIDE DEF f, g
  <1>3. SumFunctionOnSet(g, ids) = SumFunctionOnSet(f, ids)
    BY <1>1, <1>2, SumSame
  <1> QED
    BY <1>3 DEF Cost, f, g

LEMMA CostUnion ==
  ASSUME NEW inv \in Seq(InvoiceRow), NEW ids, NEW more,
         ids \subseteq DOMAIN inv, more \subseteq DOMAIN inv, ids \cap more = {}
  PROVE  Cost(inv, ids \cup more) = Cost(inv, ids) + Cost(inv, more)
  <1> DEFINE f == [i \in DOMAIN inv |-> inv[i].amount]
  <1>1. IsFiniteSet(ids) /\ IsFiniteSet(more)
    BY CostType
  <1>2. \A i \in ids \cup more : f[i] \in Int
    BY InvoicesLemma
  <1> HIDE DEF f
  <1>3. SumFunctionOnSet(f, ids \cup more) = SumFunctionOnSet(f, ids) + SumFunctionOnSet(f, more)
    BY <1>1, <1>2, SumUnion
  <1> QED
    BY <1>3 DEF Cost, f

LEMMA CostEmpty == ASSUME NEW inv PROVE Cost(inv, {}) = 0
  BY SumEmpty DEF Cost

LEMMA CostOne ==
  ASSUME NEW inv \in Seq(InvoiceRow), NEW i \in DOMAIN inv
  PROVE  Cost(inv, {i}) = inv[i].amount
  <1> DEFINE f == [k \in DOMAIN inv |-> inv[k].amount]
  <1>1. f[i] \in Int /\ f[i] = inv[i].amount
    BY InvoicesLemma
  <1>2. IsFiniteSet({}) /\ {} \cup {i} = {i} /\ i \notin {}
    BY FS_EmptySet
  <1> HIDE DEF f
  <1>3. \A x \in {} \cup {i} : f[x] \in Int
    BY <1>1, <1>2
  <1>4. SumFunctionOnSet(f, {} \cup {i}) = f[i] + SumFunctionOnSet(f, {})
    BY <1>2, <1>3, SumAdd
  <1>5. SumFunctionOnSet(f, {i}) = f[i]
    BY <1>1, <1>2, <1>4, SumEmpty
  <1> QED
    BY <1>1, <1>5 DEF Cost, f
-----------------------------------------------------------------------------
(* Steps that decide nothing.                                              *)

(* No step changes who is to pay what for what, and what is paid or        *)
(* canceled stays so.                                                      *)
Keeps(inv, new) ==
  /\ DOMAIN inv \subseteq DOMAIN new
  /\ \A i \in DOMAIN inv :
       /\ new[i].from = inv[i].from /\ new[i].to = inv[i].to /\ new[i].tx = inv[i].tx
       /\ new[i].amount = inv[i].amount /\ new[i].needAdj = inv[i].needAdj
       /\ new[i].type = inv[i].type
       /\ inv[i].status \in {"paid", "cancel"} => new[i].status = inv[i].status

(* No invoice is paid, and those that are new are fees.                    *)
PaysNothing(inv, new) ==
  /\ \A i \in DOMAIN inv : /\ new[i].status = "paid" <=> inv[i].status = "paid"
                           /\ new[i].hist = inv[i].hist
  /\ \A i \in DOMAIN new \ DOMAIN inv :
       new[i].status # "paid" /\ new[i].type = "fee" /\ new[i].hist = 0

SameFlags(inv, new) ==
  /\ \A i \in DOMAIN inv : new[i].hasSubmission = inv[i].hasSubmission
  /\ \A i \in DOMAIN new \ DOMAIN inv : new[i].hasSubmission = FALSE

LEMMA RefundedKept ==
  ASSUME invoices \in Seq(InvoiceRow), invoices' \in Seq(InvoiceRow), Refunded,
         Keeps(invoices, invoices'), PaysNothing(invoices, invoices')
  PROVE  Refunded'
  <1> SUFFICES ASSUME NEW pair \in Pair
               PROVE  Cost(invoices', From(invoices', Fees(invoices'), pair))
                        = Cost(invoices', From(invoices', Back(invoices'), Swapped(pair)))
    BY DEF Refunded
  <1> DEFINE F == From(invoices, Fees(invoices), pair)
             B == From(invoices, Back(invoices), Swapped(pair))
  <1>1. Fees(invoices') = Fees(invoices) /\ Back(invoices') = Back(invoices)
    BY DEF Keeps, PaysNothing, Fees, Back
  <1>2. /\ From(invoices', Fees(invoices'), pair) = F
        /\ From(invoices', Back(invoices'), Swapped(pair)) = B
    BY <1>1 DEF Keeps, From, Fees, Back
  <1>3. F \subseteq DOMAIN invoices /\ B \subseteq DOMAIN invoices
    BY DEF From, Fees, Back
  <1>4. Cost(invoices, F) = Cost(invoices, B)
    BY DEF Refunded
  <1> HIDE DEF F, B
  <1>5. Cost(invoices', F) = Cost(invoices, F) /\ Cost(invoices', B) = Cost(invoices, B)
    BY <1>3, CostSame DEF Keeps
  <1> QED
    BY <1>2, <1>4, <1>5

LEMMA PricedKept ==
  ASSUME Types, invoices' \in Seq(InvoiceRow), Keeps(invoices, invoices'),
         NEW s \in DOMAIN submissions, submissions[s].amount = Cost(invoices, submissions[s].invoices)
  PROVE  submissions[s].amount = Cost(invoices', submissions[s].invoices)
  <1> DEFINE ids == submissions[s].invoices
  <1>1. /\ invoices \in Seq(InvoiceRow) /\ ids \subseteq DOMAIN invoices
        /\ DOMAIN invoices \subseteq DOMAIN invoices'
        /\ \A i \in ids : invoices'[i].amount = invoices[i].amount
    BY DEF Types, Keeps
  <1> HIDE DEF ids
  <1>2. Cost(invoices', ids) = Cost(invoices, ids)
    BY <1>1, CostSame
  <1> QED
    BY <1>2 DEF ids

(* A step that only adds, finalizes or cancels invoices.                   *)
LEMMA QuietInv ==
  ASSUME Inv, invoices' \in Seq(InvoiceRow), Keeps(invoices, invoices'),
         PaysNothing(invoices, invoices'), SameFlags(invoices, invoices'),
         UNCHANGED <<submissions, histories, data>>
  PROVE  Inv' /\ (OnceInv => OnceInv')
  <1>1. /\ invoices \in Seq(InvoiceRow) /\ Len(histories) \in Nat
        /\ \A s \in DOMAIN submissions : submissions[s].invoices \subseteq DOMAIN invoices
        /\ DOMAIN invoices \subseteq DOMAIN invoices'
    BY SeqLemma DEF Inv, Types, Keeps
  <1>2. Types'
    <2>1. \A i \in DOMAIN invoices' : invoices'[i].hist <= Len(histories)
      <3>1. \A i \in DOMAIN invoices : invoices'[i].hist <= Len(histories)
        BY DEF Inv, Types, PaysNothing
      <3>2. \A i \in DOMAIN invoices' \ DOMAIN invoices : invoices'[i].hist = 0
        BY DEF PaysNothing
      <3>3. 0 <= Len(histories)
        BY <1>1
      <3> QED
        BY <3>1, <3>2, <3>3
    <2>2. \A s \in DOMAIN submissions : submissions[s].invoices \subseteq DOMAIN invoices'
      BY <1>1
    <2> QED
      BY <2>1, <2>2 DEF Inv, Types
  <1>3. Refunded'
    BY <1>1, RefundedKept DEF Inv
  <1>4. Priced'
    BY PricedKept DEF Inv, Priced
  <1>5. Settled'
    BY <1>1 DEF Inv, Settled, Keeps
  <1>6. Loaded'
    BY DEF Inv, Loaded
  <1>7. Inv'
    BY <1>2, <1>3, <1>4, <1>5, <1>6 DEF Inv
  <1>8. ASSUME OnceInv PROVE Exclusive'
    <2>1. \A s \in DOMAIN submissions : \A i : Holds(submissions', s, i) <=> Holds(submissions, s, i)
      BY DEF Holds
    <2>2. \A s \in DOMAIN submissions : \A i : Holds(submissions, s, i) => i \in DOMAIN invoices
      BY <1>1 DEF Holds
    <2> QED
      BY <1>1, <1>8, <2>1, <2>2 DEF OnceInv, Exclusive, SameFlags
  <1>9. ASSUME OnceInv PROVE PaidBy'
    <2> SUFFICES ASSUME NEW i \in DOMAIN invoices'
                 PROVE  IF invoices'[i].status = "paid"
                        THEN /\ invoices'[i].hist \in DOMAIN histories
                             /\ \E s \in DOMAIN submissions :
                                  /\ submissions[s].status = "accepted"
                                  /\ i \in submissions[s].invoices
                                  /\ submissions[s].amount = histories[invoices'[i].hist]
                                  /\ \A j \in submissions[s].invoices :
                                       invoices'[j].status = "paid" =>
                                         invoices'[j].hist = invoices'[i].hist
                        ELSE invoices'[i].hist = 0
      BY DEF PaidBy
    <2>1. CASE i \notin DOMAIN invoices
      BY <2>1 DEF PaysNothing
    <2>2. CASE i \in DOMAIN invoices
      <3>1. \A j \in DOMAIN invoices : /\ invoices'[j].status = "paid" <=> invoices[j].status = "paid"
                                       /\ invoices'[j].hist = invoices[j].hist
        BY DEF PaysNothing
      <3>2. CASE invoices[i].status = "paid"
        <4>1. PICK s \in DOMAIN submissions :
                /\ submissions[s].status = "accepted" /\ i \in submissions[s].invoices
                /\ submissions[s].amount = histories[invoices[i].hist]
                /\ \A j \in submissions[s].invoices :
                     invoices[j].status = "paid" => invoices[j].hist = invoices[i].hist
          BY <1>9, <2>2, <3>2 DEF OnceInv, PaidBy
        <4>2. invoices[i].hist \in DOMAIN histories
          BY <1>9, <2>2, <3>2 DEF OnceInv, PaidBy
        <4>3. \A j \in submissions[s].invoices :
                invoices'[j].status = "paid" => invoices'[j].hist = invoices'[i].hist
          BY <1>1, <2>2, <3>1, <4>1
        <4> QED
          BY <2>2, <3>1, <3>2, <4>1, <4>2, <4>3
      <3>3. CASE invoices[i].status # "paid"
        BY <1>9, <2>2, <3>1, <3>3 DEF OnceInv, PaidBy
      <3> QED
        BY <3>2, <3>3
    <2> QED
      BY <2>1, <2>2
  <1>10. ASSUME OnceInv PROVE DecidedOnce'
    BY <1>10 DEF OnceInv, DecidedOnce
  <1> QED
    BY <1>7, <1>8, <1>9, <1>10 DEF OnceInv
-----------------------------------------------------------------------------
(* Rows and tables of invoices.                                            *)

LEMMA NewInvoiceLemma ==
  ASSUME NEW from \in Party, NEW to \in Party, NEW tx \in Tx \cup {NoTx},
         NEW status \in InvoiceStatus, NEW amount \in Nat \ {0}, NEW needAdj \in BOOLEAN,
         NEW type \in {"fee", "adjustment"}
  PROVE  LET r == Invoice(<<from, to>>, tx, status, amount, needAdj, type)
         IN  /\ r \in InvoiceRow
             /\ r.from = from /\ r.to = to /\ r.tx = tx /\ r.status = status
             /\ r.amount = amount /\ r.needAdj = needAdj /\ r.type = type
             /\ r.hasSubmission = FALSE /\ r.hist = 0
  BY DEF Invoice, InvoiceRow

LEMMA PartyLemma ==
  ASSUME NEW pair \in Pair
  PROVE  pair[1] \in Party /\ pair[2] \in Party /\ pair[1] # pair[2]
  BY SubmissionsAssumption DEF Party

(* The table with rows replaced.                                           *)
LEMMA ReplaceLemma ==
  ASSUME NEW inv \in Seq(InvoiceRow), NEW new, new = [i \in DOMAIN inv |-> new[i]],
         \A i \in DOMAIN inv : new[i] \in InvoiceRow
  PROVE  new \in Seq(InvoiceRow) /\ DOMAIN new = DOMAIN inv /\ Len(new) = Len(inv)
  <1>1. Len(inv) \in Nat /\ DOMAIN inv = 1 .. Len(inv)
    OBVIOUS
  <1>2. new \in [1 .. Len(inv) -> InvoiceRow]
    BY <1>1
  <1>3. new \in Seq(InvoiceRow)
    BY <1>1, <1>2
  <1> QED
    BY <1>1, <1>2, <1>3

LEMMA AppendLemma ==
  ASSUME NEW inv \in Seq(InvoiceRow), NEW r \in InvoiceRow
  PROVE  LET new == Append(inv, r)
             n == Len(inv) + 1
         IN  /\ new \in Seq(InvoiceRow)
             /\ DOMAIN new = DOMAIN inv \cup {n} /\ n \notin DOMAIN inv
             /\ \A i \in DOMAIN inv : new[i] = inv[i]
             /\ new[n] = r
  OBVIOUS

(* A new fee to be paid is a quiet step, whoever creates it.               *)
LEMMA AppendQuiet ==
  ASSUME NEW inv \in Seq(InvoiceRow), NEW r \in InvoiceRow,
         r.status # "paid", r.type = "fee", r.hist = 0, r.hasSubmission = FALSE
  PROVE  /\ Append(inv, r) \in Seq(InvoiceRow) /\ Keeps(inv, Append(inv, r))
         /\ PaysNothing(inv, Append(inv, r)) /\ SameFlags(inv, Append(inv, r))
  <1> DEFINE new == Append(inv, r)
             n == Len(inv) + 1
  <1>1. /\ new \in Seq(InvoiceRow)
        /\ DOMAIN new = DOMAIN inv \cup {n} /\ n \notin DOMAIN inv
        /\ \A i \in DOMAIN inv : new[i] = inv[i]
        /\ new[n] = r
    BY AppendLemma
  <1> HIDE DEF new, n
  <1>2. new \in Seq(InvoiceRow) /\ Keeps(inv, new) /\ PaysNothing(inv, new) /\ SameFlags(inv, new)
    BY <1>1 DEF Keeps, PaysNothing, SameFlags
  <1> QED
    BY <1>2 DEF new

LEMMA CreateInvoiceInv ==
  ASSUME Inv, NEW pair \in Pair, NEW tx \in Tx \cup {NoTx},
         NEW status \in {"not_final", "not_paid"}, NEW amount \in Amount, NEW needAdj \in BOOLEAN,
         CreateInvoice(pair, tx, status, amount, needAdj)
  PROVE  Inv' /\ (OnceInv => OnceInv')
  <1> DEFINE r == Invoice(pair, tx, status, amount, needAdj, "fee")
  <1>1. invoices' = Append(invoices, r) /\ UNCHANGED <<submissions, histories, data>>
    BY DEF CreateInvoice
  <1>2. /\ r \in InvoiceRow
        /\ r.status # "paid" /\ r.type = "fee" /\ r.hist = 0 /\ r.hasSubmission = FALSE
    BY PartyLemma, SubmissionsAssumption DEF Invoice, InvoiceRow, InvoiceStatus
  <1>3. invoices \in Seq(InvoiceRow)
    BY DEF Inv, Types
  <1> HIDE DEF r
  <1> QED
    BY <1>1, <1>2, <1>3, AppendQuiet, QuietInv

(* A step that changes the status of unpaid invoices.                      *)
LEMMA StatusQuiet ==
  ASSUME NEW inv \in Seq(InvoiceRow), NEW new, DOMAIN new = DOMAIN inv,
         \A i \in DOMAIN inv : \E status \in InvoiceStatus \ {"paid"} :
           \/ new[i] = inv[i]
           \/ /\ inv[i].status \in {"not_final", "not_paid"}
              /\ new[i] = [inv[i] EXCEPT !.status = status]
  PROVE  /\ \A i \in DOMAIN inv : new[i] \in InvoiceRow
         /\ Keeps(inv, new) /\ PaysNothing(inv, new) /\ SameFlags(inv, new)
  <1>1. \A i \in DOMAIN inv : inv[i] \in InvoiceRow
    BY InvoicesLemma
  <1>2. ASSUME NEW i \in DOMAIN inv
        PROVE  /\ new[i] \in InvoiceRow
               /\ new[i].from = inv[i].from /\ new[i].to = inv[i].to /\ new[i].tx = inv[i].tx
               /\ new[i].amount = inv[i].amount /\ new[i].needAdj = inv[i].needAdj
               /\ new[i].type = inv[i].type
               /\ inv[i].status \in {"paid", "cancel"} => new[i].status = inv[i].status
               /\ new[i].status = "paid" <=> inv[i].status = "paid"
               /\ new[i].hist = inv[i].hist
               /\ new[i].hasSubmission = inv[i].hasSubmission
    <2>1. PICK status \in InvoiceStatus \ {"paid"} :
            \/ new[i] = inv[i]
            \/ /\ inv[i].status \in {"not_final", "not_paid"}
               /\ new[i] = [inv[i] EXCEPT !.status = status]
      OBVIOUS
    <2>2. inv[i] \in InvoiceRow
      BY <1>1
    <2> QED
      BY <2>1, <2>2 DEF InvoiceRow, InvoiceStatus
  <1> QED
    BY <1>2 DEF Keeps, PaysNothing, SameFlags

LEMMA FinalizeInv ==
  ASSUME Inv, NEW i \in DOMAIN invoices, Finalize(i)
  PROVE  Inv' /\ (OnceInv => OnceInv')
  <1>1. /\ invoices[i].status = "not_final"
        /\ invoices' = [invoices EXCEPT ![i].status = "not_paid"]
        /\ UNCHANGED <<submissions, histories, data>>
    BY DEF Finalize
  <1>2. /\ invoices \in Seq(InvoiceRow) /\ Len(invoices) \in Nat
        /\ DOMAIN invoices = 1 .. Len(invoices) /\ DOMAIN invoices' = DOMAIN invoices
    BY <1>1, InvoicesLemma DEF Inv, Types
  <1>3. \A k \in DOMAIN invoices : \E status \in InvoiceStatus \ {"paid"} :
          \/ invoices'[k] = invoices[k]
          \/ /\ invoices[k].status \in {"not_final", "not_paid"}
             /\ invoices'[k] = [invoices[k] EXCEPT !.status = status]
    BY <1>1 DEF InvoiceStatus
  <1>4. /\ \A k \in DOMAIN invoices : invoices'[k] \in InvoiceRow
        /\ Keeps(invoices, invoices') /\ PaysNothing(invoices, invoices')
        /\ SameFlags(invoices, invoices')
    BY <1>2, <1>3, StatusQuiet
  <1>5. invoices' \in Seq(InvoiceRow)
    BY <1>1, <1>2, <1>4
  <1> QED
    BY <1>1, <1>4, <1>5, QuietInv

(* The table after canceling, before the new invoice.                      *)
Canceled(inv, ids) ==
  [i \in DOMAIN inv |-> [inv[i] EXCEPT !.status =
     IF i \in ids /\ @ \in {"not_final", "not_paid"} THEN "cancel" ELSE @]]

LEMMA SameStatus ==
  ASSUME NEW r \in InvoiceRow
  PROVE  [r EXCEPT !.status = r.status] = r
  BY DEF InvoiceRow

LEMMA CancelLemma ==
  ASSUME NEW inv \in Seq(InvoiceRow), NEW ids
  PROVE  LET new == Canceled(inv, ids)
         IN  /\ new \in Seq(InvoiceRow) /\ DOMAIN new = DOMAIN inv /\ Len(new) = Len(inv)
             /\ Keeps(inv, new) /\ PaysNothing(inv, new) /\ SameFlags(inv, new)
             /\ \A i \in DOMAIN inv \cap ids : new[i].status \in {"paid", "cancel"}
  <1> DEFINE new == Canceled(inv, ids)
  <1>1. new = [i \in DOMAIN inv |-> new[i]] /\ DOMAIN new = DOMAIN inv
    BY DEF Canceled
  <1>2. ASSUME NEW i \in DOMAIN inv
        PROVE  /\ inv[i] \in InvoiceRow
               /\ new[i] = [inv[i] EXCEPT !.status =
                    IF i \in ids /\ inv[i].status \in {"not_final", "not_paid"} THEN "cancel"
                    ELSE inv[i].status]
    BY InvoicesLemma DEF Canceled
  <1> HIDE DEF new
  <1>3. \A i \in DOMAIN inv : \E status \in InvoiceStatus \ {"paid"} :
          \/ new[i] = inv[i]
          \/ /\ inv[i].status \in {"not_final", "not_paid"}
             /\ new[i] = [inv[i] EXCEPT !.status = status]
    <2> SUFFICES ASSUME NEW i \in DOMAIN inv
                 PROVE  \/ new[i] = inv[i]
                        \/ /\ inv[i].status \in {"not_final", "not_paid"}
                           /\ new[i] = [inv[i] EXCEPT !.status = "cancel"]
      BY DEF InvoiceStatus
    <2>1. CASE i \in ids /\ inv[i].status \in {"not_final", "not_paid"}
      BY <1>2, <2>1
    <2>2. CASE ~(i \in ids /\ inv[i].status \in {"not_final", "not_paid"})
      <3>1. new[i] = [inv[i] EXCEPT !.status = inv[i].status]
        BY <1>2, <2>2
      <3> QED
        BY <1>2, <3>1, SameStatus
    <2> QED
      BY <2>1, <2>2
  <1>4. /\ \A i \in DOMAIN inv : new[i] \in InvoiceRow
        /\ Keeps(inv, new) /\ PaysNothing(inv, new) /\ SameFlags(inv, new)
    BY <1>1, <1>3, StatusQuiet
  <1>5. new \in Seq(InvoiceRow) /\ Len(new) = Len(inv)
    BY <1>1, <1>4, ReplaceLemma
  <1>6. \A i \in DOMAIN inv \cap ids : new[i].status \in {"paid", "cancel"}
    BY <1>2 DEF InvoiceRow, InvoiceStatus
  <1> QED
    BY <1>1, <1>4, <1>5, <1>6 DEF new

LEMMA QuietTrans ==
  ASSUME NEW inv, NEW mid, NEW new, Keeps(inv, mid), Keeps(mid, new),
         PaysNothing(inv, mid), PaysNothing(mid, new), SameFlags(inv, mid), SameFlags(mid, new),
         DOMAIN mid = DOMAIN inv
  PROVE  Keeps(inv, new) /\ PaysNothing(inv, new) /\ SameFlags(inv, new)
  <1>1. Keeps(inv, new)
    BY DEF Keeps
  <1>2. PaysNothing(inv, new)
    BY DEF Keeps, PaysNothing
  <1>3. SameFlags(inv, new)
    BY DEF Keeps, SameFlags
  <1> QED
    BY <1>1, <1>2, <1>3

OfTx(inv, tx) == {i \in DOMAIN inv : inv[i].tx = tx}
PaidOf(inv, ids) == {i \in ids : inv[i].status = "paid"}

(* What a readjustment does to the table of invoices.                      *)
LEMMA ReadjustLemma ==
  ASSUME Types, NEW tx \in Tx, NEW pair \in Pair, NEW amount \in Amount \cup {0},
         ReadjustAmount(tx, pair, amount)
  PROVE  LET ids == OfTx(invoices, tx)
             rest == amount - Cost(invoices, PaidOf(invoices, ids))
             mid == Canceled(invoices, ids)
             r == RestInvoice(pair, tx, rest)
         IN  /\ rest \in Int
             /\ \A i \in ids : invoices[i].from = pair[1] /\ invoices[i].to = pair[2]
             /\ invoices' = IF rest = 0 THEN mid ELSE Append(mid, r)
             /\ rest # 0 => /\ r \in InvoiceRow /\ r.tx = tx /\ r.status = "not_paid"
                            /\ r.type = "fee" /\ r.hist = 0 /\ r.hasSubmission = FALSE
                            /\ r.from = (IF rest > 0 THEN pair[1] ELSE pair[2])
                            /\ r.to = (IF rest > 0 THEN pair[2] ELSE pair[1])
                            /\ r.amount = (IF rest > 0 THEN rest ELSE -rest)
             /\ UNCHANGED <<submissions, histories, data>>
  <1> DEFINE ids == OfTx(invoices, tx)
             rest == amount - Cost(invoices, PaidOf(invoices, ids))
             mid == Canceled(invoices, ids)
             r == RestInvoice(pair, tx, rest)
  <1>1. rest \in Int
    <2>1. Cost(invoices, PaidOf(invoices, ids)) \in Int
      BY CostType DEF Types, PaidOf, OfTx
    <2>2. amount \in Int
      BY SubmissionsAssumption
    <2> QED
      BY <2>1, <2>2
  <1>2. /\ \A i \in ids : invoices[i].from = pair[1] /\ invoices[i].to = pair[2]
        /\ invoices' = IF rest = 0 THEN mid ELSE Append(mid, r)
        /\ UNCHANGED <<submissions, histories, data>>
    BY DEF ReadjustAmount, Rest, GetAmount, Cost, OfTx, PaidOf, Canceled
  <1> HIDE DEF ids, rest, mid
  <1>3. rest # 0 => /\ r \in InvoiceRow /\ r.tx = tx /\ r.status = "not_paid"
                    /\ r.type = "fee" /\ r.hist = 0 /\ r.hasSubmission = FALSE
                    /\ r.from = (IF rest > 0 THEN pair[1] ELSE pair[2])
                    /\ r.to = (IF rest > 0 THEN pair[2] ELSE pair[1])
                    /\ r.amount = (IF rest > 0 THEN rest ELSE -rest)
    <2>1. pair[1] \in Party /\ pair[2] \in Party
      BY PartyLemma
    <2>2. CASE rest > 0
      BY <1>1, <2>1, <2>2 DEF RestInvoice, Invoice, InvoiceRow, InvoiceStatus
    <2>3. CASE rest < 0
      BY <1>1, <2>1, <2>3 DEF RestInvoice, Invoice, InvoiceRow, InvoiceStatus
    <2>4. rest = 0 \/ rest > 0 \/ rest < 0
      BY <1>1
    <2> QED
      BY <2>2, <2>3, <2>4
  <1> QED
    BY <1>1, <1>2, <1>3 DEF ids, rest, mid

LEMMA ReadjustInv ==
  ASSUME Inv, NEW tx \in Tx, NEW pair \in Pair, NEW amount \in Amount \cup {0},
         ReadjustAmount(tx, pair, amount)
  PROVE  Inv' /\ (OnceInv => OnceInv')
  <1> DEFINE ids == OfTx(invoices, tx)
             rest == amount - Cost(invoices, PaidOf(invoices, ids))
             mid == Canceled(invoices, ids)
             r == RestInvoice(pair, tx, rest)
  <1>1. /\ invoices' = IF rest = 0 THEN mid ELSE Append(mid, r)
        /\ rest # 0 => /\ r \in InvoiceRow /\ r.tx = tx /\ r.status = "not_paid"
                       /\ r.type = "fee" /\ r.hist = 0 /\ r.hasSubmission = FALSE
                       /\ r.from = (IF rest > 0 THEN pair[1] ELSE pair[2])
                       /\ r.to = (IF rest > 0 THEN pair[2] ELSE pair[1])
                       /\ r.amount = (IF rest > 0 THEN rest ELSE -rest)
        /\ UNCHANGED <<submissions, histories, data>>
    <2>1. Types
      BY DEF Inv
    <2> QED
      BY <2>1, ReadjustLemma, ZenonT(40)
  <1>2. /\ mid \in Seq(InvoiceRow) /\ DOMAIN mid = DOMAIN invoices
        /\ Keeps(invoices, mid) /\ PaysNothing(invoices, mid) /\ SameFlags(invoices, mid)
    BY CancelLemma DEF Inv, Types
  <1> HIDE DEF ids, rest, mid, r
  <1>3. CASE rest = 0
    BY <1>1, <1>2, <1>3, QuietInv
  <1>4. CASE rest # 0
    <2>1. /\ Append(mid, r) \in Seq(InvoiceRow) /\ Keeps(mid, Append(mid, r))
          /\ PaysNothing(mid, Append(mid, r)) /\ SameFlags(mid, Append(mid, r))
      BY <1>1, <1>2, <1>4, AppendQuiet
    <2>2. invoices' = Append(mid, r)
      BY <1>1, <1>4
    <2>3. /\ Keeps(invoices, invoices') /\ PaysNothing(invoices, invoices')
          /\ SameFlags(invoices, invoices')
      BY <1>2, <2>1, <2>2, QuietTrans
    <2> QED
      BY <1>1, <2>1, <2>2, <2>3, QuietInv
  <1> QED
    BY <1>3, <1>4
-----------------------------------------------------------------------------
(* Submissions.                                                            *)

LEMMA SubmissionsLemma ==
  ASSUME Types
  PROVE  /\ Len(submissions) \in Nat /\ DOMAIN submissions = 1 .. Len(submissions)
         /\ \A s \in DOMAIN submissions :
              /\ submissions[s] \in SubmissionRow
              /\ submissions[s].status \in SubmissionStatus
              /\ submissions[s].amount \in Int
              /\ submissions[s].invoices \subseteq DOMAIN invoices
  <1>1. \A r \in SubmissionRow : r.status \in SubmissionStatus /\ r.amount \in Int
    BY DEF SubmissionRow
  <1> QED
    BY <1>1, SeqLemma DEF Types

(* Loading an object and ending its transaction touch no table.            *)
LEMMA DataInv ==
  ASSUME Inv, UNCHANGED <<invoices, submissions, histories>>,
         data' \in [id : Nat, status : SubmissionStatus, locked : SUBSET Nat,
                    calls : 0 .. MaxCalls],
         \/ data' = Nothing
         \/ data'.id \in DOMAIN submissions /\ data'.status = submissions[data'.id].status
  PROVE  Inv' /\ (OnceInv => OnceInv')
  <1>1. Types' /\ Loaded'
    BY DEF Inv, Types, Loaded
  <1>2. Refunded' /\ Priced' /\ Settled'
    BY DEF Inv, Refunded, Priced, Settled
  <1>3. OnceInv => Exclusive' /\ PaidBy' /\ DecidedOnce'
    BY DEF OnceInv, Exclusive, Holds, PaidBy, DecidedOnce
  <1> QED
    BY <1>1, <1>2, <1>3 DEF Inv, OnceInv

LEMMA NothingType ==
  Nothing \in [id : Nat, status : SubmissionStatus, locked : SUBSET Nat, calls : 0 .. MaxCalls]
  BY SubmissionsAssumption DEF Nothing, SubmissionStatus

LEMMA GetFromQueryInv ==
  ASSUME Inv, NEW s \in DOMAIN submissions, GetFromQuery(s)
  PROVE  Inv' /\ (OnceInv => OnceInv')
  <1>1. /\ data' = [id |-> s, status |-> submissions[s].status,
                    locked |-> submissions[s].invoices, calls |-> 0]
        /\ UNCHANGED <<invoices, submissions, histories>>
    BY DEF GetFromQuery
  <1>2. /\ s \in Nat /\ submissions[s].status \in SubmissionStatus
        /\ submissions[s].invoices \subseteq Nat /\ 0 \in 0 .. MaxCalls
    <2>1. /\ s \in DOMAIN submissions /\ submissions[s].invoices \subseteq DOMAIN invoices
          /\ submissions[s].status \in SubmissionStatus
      BY SubmissionsLemma DEF Inv
    <2>2. DOMAIN submissions \subseteq Nat /\ DOMAIN invoices \subseteq Nat
      BY SubmissionsLemma, InvoicesLemma DEF Inv, Types
    <2> QED
      BY <2>1, <2>2, SubmissionsAssumption
  <1>3. /\ data' \in [id : Nat, status : SubmissionStatus, locked : SUBSET Nat,
                      calls : 0 .. MaxCalls]
        /\ data'.id \in DOMAIN submissions /\ data'.status = submissions[data'.id].status
    BY <1>1, <1>2
  <1> QED
    BY <1>1, <1>3, DataInv

LEMMA CommitInv ==
  ASSUME Inv, Commit
  PROVE  Inv' /\ (OnceInv => OnceInv')
  BY NothingType, DataInv DEF Commit

(* A step that changes has_submission only.                                *)
Flagged(inv, flag) == [i \in DOMAIN inv |-> [inv[i] EXCEPT !.hasSubmission = flag[i]]]

LEMMA FlagLemma ==
  ASSUME NEW inv \in Seq(InvoiceRow), NEW flag \in [DOMAIN inv -> BOOLEAN]
  PROVE  /\ Flagged(inv, flag) \in Seq(InvoiceRow) /\ DOMAIN Flagged(inv, flag) = DOMAIN inv
         /\ Keeps(inv, Flagged(inv, flag)) /\ PaysNothing(inv, Flagged(inv, flag))
         /\ \A i \in DOMAIN inv : /\ Flagged(inv, flag)[i].status = inv[i].status
                                  /\ Flagged(inv, flag)[i].hasSubmission = flag[i]
  <1> DEFINE new == Flagged(inv, flag)
  <1>0. new = [i \in DOMAIN inv |-> new[i]] /\ DOMAIN new = DOMAIN inv
    BY DEF Flagged
  <1>1. ASSUME NEW i \in DOMAIN inv
        PROVE  /\ new[i] \in InvoiceRow
               /\ new[i].from = inv[i].from /\ new[i].to = inv[i].to /\ new[i].tx = inv[i].tx
               /\ new[i].amount = inv[i].amount /\ new[i].needAdj = inv[i].needAdj
               /\ new[i].type = inv[i].type /\ new[i].status = inv[i].status
               /\ new[i].hist = inv[i].hist /\ new[i].hasSubmission = flag[i]
    <2>1. new[i] = [inv[i] EXCEPT !.hasSubmission = flag[i]] /\ flag[i] \in BOOLEAN
      BY DEF Flagged
    <2>2. inv[i] \in InvoiceRow
      BY InvoicesLemma
    <2> QED
      BY <2>1, <2>2 DEF InvoiceRow
  <1> HIDE DEF new
  <1>2. new \in Seq(InvoiceRow) /\ DOMAIN new = DOMAIN inv
    BY <1>0, <1>1, ReplaceLemma
  <1>3. Keeps(inv, new) /\ PaysNothing(inv, new)
    BY <1>1, <1>2 DEF Keeps, PaysNothing
  <1> QED
    BY <1>1, <1>2, <1>3 DEF new

(* What a submission takes, and what it leaves of the tables.              *)
LEMMA SubmitLemma ==
  ASSUME Inv, NEW asked \in SUBSET DOMAIN invoices, NEW given \in Amount \cup {0},
         CreateSubmission(asked, given)
  PROVE  \E new \in SUBSET DOMAIN invoices :
           /\ \A i \in new : invoices[i].status = "not_paid" /\ ~Active(i)
           /\ submissions' = Append(submissions,
                [status |-> "submitted", amount |-> Cost(invoices, new), invoices |-> new,
                 log |-> <<"submitted">>])
           /\ invoices' = [i \in DOMAIN invoices |->
                [invoices[i] EXCEPT !.hasSubmission = @ \/ i \in new]]
           /\ data' = [id |-> Len(submissions'), status |-> "submitted", locked |-> asked,
                       calls |-> 1]
           /\ UNCHANGED histories
  <1> DEFINE amount == IF given = 0 THEN GetAmount(asked) ELSE given
             Seen(last) == {i \in asked : i <= last}
             New(last) == {i \in Seen(last) : invoices[i].status = "not_paid" /\ ~Active(i)}
  <1>1. PICK last \in asked :
          /\ AddsUp(New(last), amount)
          /\ submissions' = Append(submissions,
               [status |-> "submitted", amount |-> amount, invoices |-> New(last),
                log |-> <<"submitted">>])
          /\ invoices' = [i \in DOMAIN invoices |->
               [invoices[i] EXCEPT !.hasSubmission = @ \/ i \in New(last)]]
    BY DEF CreateSubmission
  <1>2. /\ data' = [id |-> Len(submissions'), status |-> "submitted", locked |-> asked,
                    calls |-> 1]
        /\ UNCHANGED histories
    BY DEF CreateSubmission
  <1>3. amount = Cost(invoices, New(last))
    BY <1>1 DEF AddsUp, GetAmount, Cost
  <1>4. /\ New(last) \in SUBSET DOMAIN invoices
        /\ \A i \in New(last) : invoices[i].status = "not_paid" /\ ~Active(i)
    OBVIOUS
  <1> HIDE DEF New, amount
  <1> QED
    BY <1>1, <1>2, <1>3, <1>4

(* No invoice is paid, and what was accepted keeps its invoices and amount. *)
LEMMA PaidByKept ==
  ASSUME PaidBy, UNCHANGED histories, DOMAIN invoices' = DOMAIN invoices,
         \A i \in DOMAIN invoices : /\ invoices'[i].status = invoices[i].status
                                    /\ invoices'[i].hist = invoices[i].hist,
         DOMAIN submissions \subseteq DOMAIN submissions',
         \A s \in DOMAIN submissions : submissions[s].invoices \subseteq DOMAIN invoices,
         \A s \in DOMAIN submissions :
           submissions[s].status = "accepted" => submissions'[s] = submissions[s]
  PROVE  PaidBy'
  <1> SUFFICES ASSUME NEW i \in DOMAIN invoices
               PROVE  IF invoices'[i].status = "paid"
                      THEN /\ invoices'[i].hist \in DOMAIN histories
                           /\ \E s \in DOMAIN submissions' :
                                /\ submissions'[s].status = "accepted"
                                /\ i \in submissions'[s].invoices
                                /\ submissions'[s].amount = histories[invoices'[i].hist]
                                /\ \A j \in submissions'[s].invoices :
                                     invoices'[j].status = "paid" =>
                                       invoices'[j].hist = invoices'[i].hist
                      ELSE invoices'[i].hist = 0
    BY DEF PaidBy
  <1>1. CASE invoices[i].status = "paid"
    <2>1. /\ invoices[i].hist \in DOMAIN histories
          /\ \E s \in DOMAIN submissions :
               /\ submissions[s].status = "accepted" /\ i \in submissions[s].invoices
               /\ submissions[s].amount = histories[invoices[i].hist]
               /\ \A j \in submissions[s].invoices :
                    invoices[j].status = "paid" => invoices[j].hist = invoices[i].hist
      BY <1>1 DEF PaidBy
    <2>2. PICK s \in DOMAIN submissions :
            /\ submissions[s].status = "accepted" /\ i \in submissions[s].invoices
            /\ submissions[s].amount = histories[invoices[i].hist]
            /\ \A j \in submissions[s].invoices :
                 invoices[j].status = "paid" => invoices[j].hist = invoices[i].hist
      BY <2>1
    <2>3. submissions'[s] = submissions[s] /\ s \in DOMAIN submissions'
      BY <2>2
    <2>4. \A j \in submissions[s].invoices :
            invoices'[j].status = "paid" => invoices'[j].hist = invoices'[i].hist
      BY <2>2
    <2> QED
      BY <1>1, <2>1, <2>2, <2>3, <2>4
  <1>2. CASE invoices[i].status # "paid"
    BY <1>2 DEF PaidBy
  <1> QED
    BY <1>1, <1>2

LEMMA SubmitInv ==
  ASSUME Inv, NEW asked \in SUBSET DOMAIN invoices, NEW given \in Amount \cup {0},
         CreateSubmission(asked, given)
  PROVE  Inv' /\ (OnceInv => OnceInv')
  <1>1. PICK new \in SUBSET DOMAIN invoices :
           /\ \A i \in new : invoices[i].status = "not_paid" /\ ~Active(i)
           /\ submissions' = Append(submissions,
                [status |-> "submitted", amount |-> Cost(invoices, new), invoices |-> new,
                 log |-> <<"submitted">>])
           /\ invoices' = [i \in DOMAIN invoices |->
                [invoices[i] EXCEPT !.hasSubmission = @ \/ i \in new]]
           /\ data' = [id |-> Len(submissions'), status |-> "submitted", locked |-> asked,
                       calls |-> 1]
           /\ UNCHANGED histories
    BY SubmitLemma
  <1> DEFINE row == [status |-> "submitted", amount |-> Cost(invoices, new), invoices |-> new,
                     log |-> <<"submitted">>]
             n == Len(submissions) + 1
  <1>2. /\ invoices \in Seq(InvoiceRow) /\ DOMAIN invoices \subseteq Nat \ {0}
        /\ submissions \in Seq(SubmissionRow)
        /\ Len(submissions) \in Nat /\ DOMAIN submissions = 1 .. Len(submissions)
        /\ \A s \in DOMAIN submissions : submissions[s].invoices \subseteq DOMAIN invoices
    BY SubmissionsLemma, InvoicesLemma DEF Inv, Types
  <1>3. row \in SubmissionRow
    BY <1>2, CostType DEF SubmissionRow, SubmissionStatus
  <1>4. /\ submissions' \in Seq(SubmissionRow) /\ Len(submissions') = n
        /\ DOMAIN submissions' = DOMAIN submissions \cup {n} /\ n \notin DOMAIN submissions
        /\ \A s \in DOMAIN submissions : submissions'[s] = submissions[s]
        /\ submissions'[n] = row
    BY <1>1, <1>2, <1>3
  <1>5. /\ row.status = "submitted" /\ row.invoices = new /\ row.log = <<"submitted">>
        /\ row.amount = Cost(invoices, new)
    OBVIOUS
  <1> DEFINE flag == [i \in DOMAIN invoices |-> invoices[i].hasSubmission \/ i \in new]
  <1>6. /\ invoices' \in Seq(InvoiceRow) /\ DOMAIN invoices' = DOMAIN invoices
        /\ Keeps(invoices, invoices') /\ PaysNothing(invoices, invoices')
        /\ \A i \in DOMAIN invoices : /\ invoices'[i].status = invoices[i].status
                                     /\ invoices'[i].hasSubmission = flag[i]
    <2>1. flag \in [DOMAIN invoices -> BOOLEAN]
      OBVIOUS
    <2>2. invoices' = Flagged(invoices, flag)
      BY <1>1 DEF Flagged
    <2> HIDE DEF flag
    <2> QED
      BY <1>2, <2>1, <2>2, FlagLemma
  <1>7. \A i \in DOMAIN invoices :
          invoices'[i].hasSubmission <=> invoices[i].hasSubmission \/ i \in new
    BY <1>6
  <1> HIDE DEF row, n
  <1>8. Types'
    <2>1. \A i \in DOMAIN invoices' : invoices'[i].hist <= Len(histories')
      BY <1>1, <1>6 DEF Inv, Types, PaysNothing
    <2>2. \A s \in DOMAIN submissions' : submissions'[s].invoices \subseteq DOMAIN invoices'
      BY <1>2, <1>4, <1>5, <1>6
    <2>3. /\ data' \in [id : Nat, status : SubmissionStatus, locked : SUBSET Nat,
                        calls : 0 .. MaxCalls]
          /\ data'.id \in DOMAIN submissions'
      <3>1. asked \subseteq Nat /\ n \in Nat /\ 1 \in 0 .. MaxCalls
        BY <1>2, SubmissionsAssumption DEF n
      <3> QED
        BY <1>1, <1>4, <3>1 DEF SubmissionStatus
    <2>4. histories' \in Seq(Int)
      BY <1>1 DEF Inv, Types
    <2> QED
      BY <1>4, <1>6, <2>1, <2>2, <2>3, <2>4 DEF Types
  <1>9. Refunded'
    BY <1>2, <1>6, RefundedKept DEF Inv
  <1>10. Priced'
    <2>1. \A s \in DOMAIN submissions :
            submissions[s].amount = Cost(invoices', submissions[s].invoices)
      BY <1>6, PricedKept DEF Inv, Priced
    <2>2. Cost(invoices', new) = Cost(invoices, new)
      BY <1>2, <1>6, CostSame DEF Keeps
    <2> QED
      BY <1>4, <1>5, <2>1, <2>2 DEF Priced
  <1>11. Settled'
    BY <1>2, <1>4, <1>5, <1>6 DEF Inv, Settled
  <1>12. Loaded'
    BY <1>1 DEF Loaded
  <1>13. Inv'
    BY <1>8, <1>9, <1>10, <1>11, <1>12 DEF Inv
  <1>14. ASSUME OnceInv PROVE Exclusive'
    <2>1. \A s \in DOMAIN submissions : \A i : Holds(submissions', s, i) <=> Holds(submissions, s, i)
      BY <1>4 DEF Holds
    <2>2. \A i : Holds(submissions', n, i) <=> i \in new
      BY <1>4, <1>5 DEF Holds
    <2>3. ASSUME NEW i \in new, NEW s \in DOMAIN submissions, Holds(submissions, s, i) PROVE FALSE
      <3>1. submissions[s].status \in {"submitted", "accepted"}
        BY <2>3, SubmissionsLemma DEF Inv, Holds, SubmissionStatus
      <3>2. submissions[s].status # "submitted"
        BY <1>1, <2>3 DEF Active, Holds
      <3>3. invoices[i].status \in {"paid", "cancel"}
        BY <2>3, <3>1, <3>2 DEF Inv, Settled, Holds
      <3> QED
        BY <1>1, <3>3
    <2>4. Exclusive
      BY <1>14 DEF OnceInv
    <2>5. \A s, t \in DOMAIN submissions' : \A i \in DOMAIN invoices' :
            Holds(submissions', s, i) /\ Holds(submissions', t, i) => s = t
      BY <1>4, <1>6, <2>1, <2>2, <2>3, <2>4 DEF Exclusive
    <2>6. \A i \in DOMAIN invoices' :
            invoices'[i].hasSubmission <=> \E s \in DOMAIN submissions' : Holds(submissions', s, i)
      BY <1>4, <1>6, <1>7, <2>1, <2>2, <2>4 DEF Exclusive
    <2> QED
      BY <2>5, <2>6 DEF Exclusive
  <1>15. ASSUME OnceInv PROVE PaidBy'
    <2>1. \A i \in DOMAIN invoices : /\ invoices'[i].status = invoices[i].status
                                     /\ invoices'[i].hist = invoices[i].hist
      BY <1>6 DEF PaysNothing
    <2> QED
      BY <1>1, <1>2, <1>4, <1>6, <1>15, <2>1, PaidByKept DEF OnceInv
  <1>16. ASSUME OnceInv PROVE DecidedOnce'
    BY <1>4, <1>5, <1>16 DEF OnceInv, DecidedOnce
  <1> QED
    BY <1>13, <1>14, <1>15, <1>16 DEF OnceInv
-----------------------------------------------------------------------------
(* Decisions.                                                              *)

LEMMA DecideLemma ==
  ASSUME Inv, NEW st \in {"accepted", "rejected"}, Call, UpdateStatus(st)
  PROVE  /\ data.id \in DOMAIN submissions
         /\ submissions' \in Seq(SubmissionRow) /\ DOMAIN submissions' = DOMAIN submissions
         /\ \A s \in DOMAIN submissions : s # data.id => submissions'[s] = submissions[s]
         /\ \A s \in DOMAIN submissions : /\ submissions'[s].invoices = submissions[s].invoices
                                          /\ submissions'[s].amount = submissions[s].amount
         /\ submissions'[data.id].status = st
         /\ submissions'[data.id].log = Append(submissions[data.id].log, st)
         /\ data' \in [id : Nat, status : SubmissionStatus, locked : SUBSET Nat,
                       calls : 0 .. MaxCalls]
         /\ data'.id = data.id /\ data'.calls # 0
         /\ MaxCalls = 1 => submissions[data.id].status = "submitted"
  <1> DEFINE d == data.id
             row == Decided(submissions[d], st)
  <1>1. /\ d \in DOMAIN submissions /\ data # Nothing /\ data.status = "submitted"
        /\ submissions' = [submissions EXCEPT ![d] = row]
    <2>1. d \in DOMAIN submissions /\ data # Nothing
      BY DEF Inv, Types, Call
    <2>2. data.status = "submitted" /\ submissions' = [submissions EXCEPT ![d] = row]
      BY DEF UpdateStatus
    <2> QED
      BY <2>1, <2>2
  <1>2. /\ submissions \in Seq(SubmissionRow) /\ submissions[d] \in SubmissionRow
        /\ Len(submissions) \in Nat /\ DOMAIN submissions = 1 .. Len(submissions)
    BY <1>1, SubmissionsLemma DEF Inv, Types
  <1>3. Append(submissions[d].log, st) \in Seq(SubmissionStatus)
    <2>1. submissions[d].log \in Seq(SubmissionStatus) /\ st \in SubmissionStatus
      BY <1>2 DEF SubmissionRow, SubmissionStatus
    <2> QED
      BY <2>1
  <1>4. /\ row \in SubmissionRow /\ row.status = st
        /\ row.log = Append(submissions[d].log, st)
        /\ row.invoices = submissions[d].invoices /\ row.amount = submissions[d].amount
    BY <1>2, <1>3 DEF Decided, SubmissionRow, SubmissionStatus
  <1>5. /\ data' \in [id : Nat, status : SubmissionStatus, locked : SUBSET Nat,
                      calls : 0 .. MaxCalls]
        /\ data'.id = d /\ data'.calls # 0
    <2>1. /\ data' = [data EXCEPT !.calls = data.calls + 1] /\ data.calls < MaxCalls
          /\ data \in [id : Nat, status : SubmissionStatus, locked : SUBSET Nat,
                       calls : 0 .. MaxCalls]
      BY DEF Inv, Types, Call
    <2>2. data.calls \in Nat /\ data.calls + 1 \in 0 .. MaxCalls /\ data.calls + 1 # 0
      BY <2>1, SubmissionsAssumption
    <2> QED
      BY <2>1, <2>2
  <1>6. MaxCalls = 1 => submissions[d].status = "submitted"
    <2>1. MaxCalls = 1 => data.calls = 0
      BY DEF Inv, Types, Call
    <2> QED
      BY <1>1, <2>1 DEF Inv, Loaded
  <1> HIDE DEF row, d
  <1>7. /\ submissions' \in Seq(SubmissionRow) /\ DOMAIN submissions' = DOMAIN submissions
        /\ \A s \in DOMAIN submissions : s # d => submissions'[s] = submissions[s]
        /\ submissions'[d] = row
    BY <1>1, <1>2, <1>4
  <1>8. \A s \in DOMAIN submissions : /\ submissions'[s].invoices = submissions[s].invoices
                                      /\ submissions'[s].amount = submissions[s].amount
    BY <1>4, <1>7
  <1> QED
    BY <1>1, <1>4, <1>5, <1>6, <1>7, <1>8 DEF d

(* What a decision leaves of the invariant, whatever it does to invoices.  *)
LEMMA DecideTypes ==
  ASSUME Inv, NEW st \in {"accepted", "rejected"}, Call, UpdateStatus(st),
         invoices' \in Seq(InvoiceRow), Keeps(invoices, invoices'),
         histories' \in Seq(Int),
         \A i \in DOMAIN invoices' : invoices'[i].hist <= Len(histories')
  PROVE  Types' /\ Priced' /\ Loaded'
  <1>1. /\ \A s \in DOMAIN submissions : submissions[s].invoices \subseteq DOMAIN invoices
        /\ DOMAIN invoices \subseteq DOMAIN invoices'
    BY DEF Inv, Types, Keeps
  <1>2. Types'
    <2>1. /\ data.id \in DOMAIN submissions
          /\ submissions' \in Seq(SubmissionRow) /\ DOMAIN submissions' = DOMAIN submissions
          /\ \A s \in DOMAIN submissions : submissions'[s].invoices = submissions[s].invoices
          /\ data' \in [id : Nat, status : SubmissionStatus, locked : SUBSET Nat,
                        calls : 0 .. MaxCalls]
          /\ data'.id = data.id
      BY DecideLemma
    <2>2. \A s \in DOMAIN submissions' : submissions'[s].invoices \subseteq DOMAIN invoices'
      BY <1>1, <2>1
    <2> QED
      BY <2>1, <2>2 DEF Types
  <1>3. Priced'
    <2>1. \A s \in DOMAIN submissions :
            submissions[s].amount = Cost(invoices', submissions[s].invoices)
      BY PricedKept DEF Inv, Priced
    <2>2. /\ DOMAIN submissions' = DOMAIN submissions
          /\ \A s \in DOMAIN submissions : /\ submissions'[s].invoices = submissions[s].invoices
                                           /\ submissions'[s].amount = submissions[s].amount
      BY DecideLemma
    <2> QED
      BY <2>1, <2>2 DEF Priced
  <1>4. Loaded'
    BY DecideLemma DEF Loaded
  <1> QED
    BY <1>2, <1>3, <1>4

LEMMA PairOf ==
  ASSUME NEW S, NEW r \in Seq(S), Len(r) = 2
  PROVE  r = <<r[1], r[2]>>
  OBVIOUS

(* With one call an object, the decision is the first of its submission.   *)
LEMMA DecideOnce ==
  ASSUME Inv, DecidedOnce, MaxCalls = 1, NEW st \in {"accepted", "rejected"},
         Call, UpdateStatus(st)
  PROVE  DecidedOnce'
  <1> DEFINE d == data.id
  <1>1. /\ d \in DOMAIN submissions /\ DOMAIN submissions' = DOMAIN submissions
        /\ \A s \in DOMAIN submissions : s # d => submissions'[s] = submissions[s]
        /\ submissions'[d].status = st /\ submissions[d].status = "submitted"
        /\ submissions'[d].log = Append(submissions[d].log, st)
    BY DecideLemma
  <1>2. submissions'[d].log = <<"submitted", st>>
    <2>1. submissions[d].log = <<"submitted">>
      BY <1>1 DEF DecidedOnce
    <2>2. Append(<<"submitted">>, st) = <<"submitted", st>>
      <3> DEFINE q == <<"submitted">>
                 r == Append(q, st)
      <3>1. q \in Seq(SubmissionStatus) /\ st \in SubmissionStatus
        BY DEF SubmissionStatus
      <3>2. Len(q) = 1 /\ q[1] = "submitted"
        OBVIOUS
      <3> HIDE DEF q
      <3>3. /\ r \in Seq(SubmissionStatus) /\ Len(r) = Len(q) + 1 /\ r[Len(q) + 1] = st
            /\ \A i \in 1 .. Len(q) : r[i] = q[i]
        BY <3>1
      <3> HIDE DEF r
      <3>4. Len(r) = 2 /\ r[1] = "submitted" /\ r[2] = st
        BY <3>2, <3>3
      <3>5. r = <<r[1], r[2]>>
        BY <3>3, <3>4, PairOf
      <3> QED
        BY <3>4, <3>5 DEF q, r
    <2> QED
      BY <1>1, <2>1, <2>2
  <1> HIDE DEF d
  <1> QED
    BY <1>1, <1>2 DEF DecidedOnce

LEMMA RejectInv ==
  ASSUME Inv, RejectSubmission
  PROVE  Inv' /\ (MaxCalls = 1 /\ OnceInv => OnceInv')
  <1> DEFINE d == data.id
             ids == submissions[d].invoices
             flag == [i \in DOMAIN invoices |-> invoices[i].hasSubmission /\ i \notin ids]
  <1>1. /\ Call /\ UpdateStatus("rejected") /\ UNCHANGED histories
        /\ invoices' = [i \in DOMAIN invoices |->
             [invoices[i] EXCEPT !.hasSubmission = @ /\ i \notin ids]]
    BY DEF RejectSubmission
  <1>2. /\ invoices \in Seq(InvoiceRow) /\ Len(histories) \in Nat
        /\ \A i \in DOMAIN invoices : invoices[i].hist <= Len(histories)
        /\ \A s \in DOMAIN submissions : submissions[s].invoices \subseteq DOMAIN invoices
    BY SeqLemma DEF Inv, Types
  <1>3. /\ invoices' \in Seq(InvoiceRow) /\ DOMAIN invoices' = DOMAIN invoices
        /\ Keeps(invoices, invoices') /\ PaysNothing(invoices, invoices')
        /\ \A i \in DOMAIN invoices : /\ invoices'[i].status = invoices[i].status
                                      /\ invoices'[i].hasSubmission = flag[i]
    <2>1. flag \in [DOMAIN invoices -> BOOLEAN]
      <3>1. \A i \in DOMAIN invoices : (invoices[i].hasSubmission /\ i \notin ids) \in BOOLEAN
        OBVIOUS
      <3> QED
        BY <3>1
    <2>2. invoices' = Flagged(invoices, flag)
      BY <1>1 DEF Flagged
    <2> HIDE DEF flag
    <2> QED
      BY <1>2, <2>1, <2>2, FlagLemma
  <1>4. /\ d \in DOMAIN submissions /\ DOMAIN submissions' = DOMAIN submissions
        /\ \A s \in DOMAIN submissions : s # d => submissions'[s] = submissions[s]
        /\ \A s \in DOMAIN submissions : submissions'[s].invoices = submissions[s].invoices
        /\ submissions'[d].status = "rejected"
        /\ MaxCalls = 1 => submissions[d].status = "submitted"
    BY <1>1, DecideLemma
  <1>5. Types' /\ Priced' /\ Loaded'
    <2>1. histories' \in Seq(Int) /\ \A i \in DOMAIN invoices' : invoices'[i].hist <= Len(histories')
      BY <1>1, <1>2, <1>3 DEF Inv, Types, PaysNothing
    <2> QED
      BY <1>1, <1>3, <2>1, DecideTypes
  <1>6. Refunded'
    BY <1>2, <1>3, RefundedKept DEF Inv
  <1> HIDE DEF d
  <1>7. Settled'
    BY <1>2, <1>3, <1>4 DEF Inv, Settled
  <1>8. ASSUME MaxCalls = 1, OnceInv PROVE Exclusive'
    <2>1. \A s \in DOMAIN submissions : \A i :
            Holds(submissions', s, i) <=> Holds(submissions, s, i) /\ s # d
      BY <1>4 DEF Holds
    <2>2. \A i : Holds(submissions, d, i) <=> i \in ids
      BY <1>4, <1>8 DEF Holds
    <2>3. /\ \A s, t \in DOMAIN submissions : \A i \in DOMAIN invoices :
               Holds(submissions, s, i) /\ Holds(submissions, t, i) => s = t
          /\ \A i \in DOMAIN invoices :
               invoices[i].hasSubmission <=> \E s \in DOMAIN submissions : Holds(submissions, s, i)
      BY <1>8 DEF OnceInv, Exclusive
    <2>4. \A i \in DOMAIN invoices :
            invoices'[i].hasSubmission <=> invoices[i].hasSubmission /\ i \notin ids
      BY <1>3
    <2> HIDE DEF ids, flag
    <2>5. \A s, t \in DOMAIN submissions' : \A i \in DOMAIN invoices' :
            Holds(submissions', s, i) /\ Holds(submissions', t, i) => s = t
      BY <1>3, <1>4, <2>1, <2>3
    <2>6. \A i \in DOMAIN invoices' :
            invoices'[i].hasSubmission <=> \E s \in DOMAIN submissions' : Holds(submissions', s, i)
      BY <1>3, <1>4, <2>1, <2>2, <2>3, <2>4
    <2> QED
      BY <2>5, <2>6 DEF Exclusive
  <1>9. ASSUME MaxCalls = 1, OnceInv PROVE PaidBy'
    <2>1. \A i \in DOMAIN invoices : /\ invoices'[i].status = invoices[i].status
                                     /\ invoices'[i].hist = invoices[i].hist
      BY <1>3 DEF PaysNothing
    <2>2. \A s \in DOMAIN submissions :
            submissions[s].status = "accepted" => submissions'[s] = submissions[s]
      BY <1>4, <1>9
    <2> QED
      BY <1>1, <1>2, <1>3, <1>4, <1>9, <2>1, <2>2, PaidByKept DEF OnceInv
  <1>10. ASSUME MaxCalls = 1, OnceInv PROVE DecidedOnce'
    BY <1>1, <1>10, DecideOnce DEF OnceInv
  <1> QED
    BY <1>5, <1>6, <1>7, <1>8, <1>9, <1>10 DEF Inv, OnceInv
-----------------------------------------------------------------------------
(* Acceptance.                                                             *)

(* The first m elements of q are those of S, each once.                    *)
Lists(q, m, S) ==
  /\ q \in [1 .. m -> S]
  /\ \A a, b \in 1 .. m : q[a] = q[b] => a = b
  /\ \A x \in S : \E k \in 1 .. m : q[k] = x

LEMMA SetToSeqLemma ==
  ASSUME NEW S, IsFiniteSet(S)
  PROVE  Cardinality(S) \in Nat /\ Lists(SetToSeq(S), Cardinality(S), S)
  <1> DEFINE m == Cardinality(S)
             upto == 1 .. m
             q == SetToSeq(S)
  <1>1. m \in Nat /\ ExistsBijection(upto, S)
    BY FS_CardinalityType
  <1>2. \E f \in [upto -> S] : IsInjective(f)
    BY <1>1 DEF ExistsBijection, Bijection, Injection
  <1>3. q \in [upto -> S] /\ IsInjective(q)
    BY <1>2 DEF SetToSeq
  <1>4. IsFiniteSet(upto) /\ Cardinality(upto) = m
    BY <1>1, FS_Interval
  <1> HIDE DEF m, upto, q
  <1>5. q \in Injection(upto, S)
    BY <1>3 DEF Injection
  <1>6. q \in Surjection(upto, S)
    BY <1>4, <1>5, FS_Injection DEF m
  <1>7. \A x \in S : \E k \in upto : q[k] = x
    BY <1>6 DEF Surjection
  <1> QED
    BY <1>1, <1>3, <1>7 DEF m, upto, q, IsInjective, Lists

(* The table with the submitted invoices paid, and the invoices that give  *)
(* back what q lists.                                                      *)
Paid(inv, ids, h) ==
  [i \in DOMAIN inv |-> IF i \in ids THEN [inv[i] EXCEPT !.status = "paid", !.hist = h]
                        ELSE inv[i]]

Given(inv, q, m) == [k \in 1 .. m |-> AdjustmentInvoice(inv[q[k]])]

LEMMA AdjustmentLemma ==
  ASSUME NEW item \in InvoiceRow
  PROVE  LET r == AdjustmentInvoice(item)
         IN  /\ r \in InvoiceRow /\ r.from = item.to /\ r.to = item.from
             /\ r.amount = item.amount /\ r.status = "not_paid" /\ r.type = "adjustment"
             /\ r.needAdj = FALSE /\ r.hasSubmission = FALSE /\ r.hist = 0
  BY DEF AdjustmentInvoice, Invoice, InvoiceRow, InvoiceStatus

LEMMA PaidLemma ==
  ASSUME NEW inv \in Seq(InvoiceRow), NEW ids, NEW h \in Nat,
         \A i \in ids : i \in DOMAIN inv /\ inv[i].status = "not_paid"
  PROVE  /\ Paid(inv, ids, h) \in Seq(InvoiceRow) /\ DOMAIN Paid(inv, ids, h) = DOMAIN inv
         /\ Len(Paid(inv, ids, h)) = Len(inv)
         /\ Keeps(inv, Paid(inv, ids, h))
         /\ \A i \in DOMAIN inv :
              Paid(inv, ids, h)[i].hasSubmission = inv[i].hasSubmission
         /\ \A i \in ids : Paid(inv, ids, h)[i].status = "paid" /\ Paid(inv, ids, h)[i].hist = h
         /\ \A i \in DOMAIN inv \ ids : Paid(inv, ids, h)[i] = inv[i]
  <1> DEFINE new == Paid(inv, ids, h)
  <1>1. new = [i \in DOMAIN inv |-> new[i]] /\ DOMAIN new = DOMAIN inv
    BY DEF Paid
  <1>2. ASSUME NEW i \in ids
        PROVE  /\ i \in DOMAIN inv /\ new[i] \in InvoiceRow
               /\ new[i].from = inv[i].from /\ new[i].to = inv[i].to /\ new[i].tx = inv[i].tx
               /\ new[i].amount = inv[i].amount /\ new[i].needAdj = inv[i].needAdj
               /\ new[i].type = inv[i].type /\ new[i].hasSubmission = inv[i].hasSubmission
               /\ new[i].status = "paid" /\ new[i].hist = h
               /\ inv[i].status = "not_paid"
    <2>1. /\ i \in DOMAIN inv /\ inv[i].status = "not_paid"
          /\ new[i] = [inv[i] EXCEPT !.status = "paid", !.hist = h]
      BY DEF Paid
    <2>2. inv[i] \in InvoiceRow
      BY <2>1, InvoicesLemma
    <2> QED
      BY <2>1, <2>2 DEF InvoiceRow, InvoiceStatus
  <1>3. \A i \in DOMAIN inv \ ids : new[i] = inv[i]
    BY DEF Paid
  <1>4. \A i \in DOMAIN inv : inv[i] \in InvoiceRow
    BY InvoicesLemma
  <1> HIDE DEF new
  <1>5. new \in Seq(InvoiceRow) /\ Len(new) = Len(inv)
    <2>1. \A i \in DOMAIN inv : new[i] \in InvoiceRow
      BY <1>2, <1>3, <1>4
    <2> QED
      BY <1>1, <2>1, ReplaceLemma
  <1>6. Keeps(inv, new)
    BY <1>1, <1>2, <1>3 DEF Keeps
  <1>7. \A i \in DOMAIN inv : new[i].hasSubmission = inv[i].hasSubmission
    BY <1>2, <1>3
  <1> QED
    BY <1>1, <1>2, <1>3, <1>5, <1>6, <1>7 DEF new

LEMMA GivenLemma ==
  ASSUME NEW inv \in Seq(InvoiceRow), NEW m \in Nat, NEW q \in [1 .. m -> DOMAIN inv]
  PROVE  /\ Given(inv, q, m) \in Seq(InvoiceRow) /\ Len(Given(inv, q, m)) = m
         /\ \A k \in 1 .. m : Given(inv, q, m)[k] = AdjustmentInvoice(inv[q[k]])
  <1> DEFINE new == Given(inv, q, m)
  <1>1. \A k \in 1 .. m : new[k] = AdjustmentInvoice(inv[q[k]]) /\ q[k] \in DOMAIN inv
    BY DEF Given
  <1>2. new = [k \in 1 .. m |-> new[k]]
    BY DEF Given
  <1> HIDE DEF new
  <1>3. \A k \in 1 .. m : new[k] \in InvoiceRow
    BY <1>1, InvoicesLemma, AdjustmentLemma
  <1>4. new \in [1 .. m -> InvoiceRow]
    BY <1>2, <1>3
  <1>5. new \in Seq(InvoiceRow) /\ Len(new) = m
    BY <1>4
  <1> QED
    BY <1>1, <1>5 DEF new

Accepted(inv, ids, h, q, m) == Paid(inv, ids, h) \o Given(inv, q, m)

LEMMA ConcatLemma ==
  ASSUME NEW S, NEW s \in Seq(S), NEW t \in Seq(S)
  PROVE  /\ s \o t \in Seq(S) /\ Len(s \o t) = Len(s) + Len(t)
         /\ \A i \in 1 .. Len(s) : (s \o t)[i] = s[i]
         /\ \A k \in 1 .. Len(t) : (s \o t)[Len(s) + k] = t[k]
  OBVIOUS
(* What an acceptance makes of the table of invoices.                      *)
Accepts(inv, ids, h, q, m, new) ==
  /\ new \in Seq(InvoiceRow) /\ Keeps(inv, new)
  /\ DOMAIN new = DOMAIN inv \cup {Len(inv) + k : k \in 1 .. m}
  /\ \A k \in 1 .. m : /\ Len(inv) + k \notin DOMAIN inv
                       /\ new[Len(inv) + k] = AdjustmentInvoice(inv[q[k]])
  /\ \A i \in DOMAIN inv : new[i].hasSubmission = inv[i].hasSubmission
  /\ \A i \in ids : new[i].status = "paid" /\ new[i].hist = h
  /\ \A i \in DOMAIN inv \ ids : new[i] = inv[i]

LEMMA AcceptTable ==
  ASSUME NEW inv \in Seq(InvoiceRow), NEW ids, NEW h \in Nat, NEW m \in Nat,
         \A i \in ids : i \in DOMAIN inv /\ inv[i].status = "not_paid",
         NEW q \in [1 .. m -> DOMAIN inv]
  PROVE  Accepts(inv, ids, h, q, m, Accepted(inv, ids, h, q, m))
  <1> DEFINE new == Accepted(inv, ids, h, q, m)
             paid == Paid(inv, ids, h)
             given == Given(inv, q, m)
             n == Len(inv)
  <1>1. /\ paid \in Seq(InvoiceRow) /\ DOMAIN paid = DOMAIN inv /\ Len(paid) = n
        /\ Keeps(inv, paid)
        /\ \A i \in DOMAIN inv : paid[i].hasSubmission = inv[i].hasSubmission
        /\ \A i \in ids : paid[i].status = "paid" /\ paid[i].hist = h
        /\ \A i \in DOMAIN inv \ ids : paid[i] = inv[i]
    BY PaidLemma
  <1>2. /\ given \in Seq(InvoiceRow) /\ Len(given) = m
        /\ \A k \in 1 .. m : given[k] = AdjustmentInvoice(inv[q[k]])
    BY GivenLemma
  <1>3. n \in Nat /\ DOMAIN inv = 1 .. n
    BY InvoicesLemma
  <1>4. new = paid \o given
    BY DEF Accepted
  <1> HIDE DEF new, paid, given, n
  <1>5. /\ new \in Seq(InvoiceRow) /\ Len(new) = n + m
        /\ \A i \in 1 .. n : new[i] = paid[i]
        /\ \A k \in 1 .. m : new[n + k] = given[k]
    <2>1. /\ paid \o given \in Seq(InvoiceRow)
          /\ Len(paid \o given) = Len(paid) + Len(given)
          /\ \A i \in 1 .. Len(paid) : (paid \o given)[i] = paid[i]
          /\ \A k \in 1 .. Len(given) : (paid \o given)[Len(paid) + k] = given[k]
      <3>1. paid \in Seq(InvoiceRow) /\ given \in Seq(InvoiceRow)
        BY <1>1, <1>2
      <3> QED
        BY <3>1, ConcatLemma
    <2> QED
      BY <1>1, <1>2, <1>4, <2>1
  <1>6. /\ DOMAIN new = DOMAIN inv \cup {n + k : k \in 1 .. m}
        /\ \A k \in 1 .. m : n + k \notin DOMAIN inv
    <2>1. DOMAIN new = 1 .. (n + m)
      BY <1>5
    <2>2. ASSUME NEW i \in 1 .. (n + m), i \notin 1 .. n PROVE i \in {n + k : k \in 1 .. m}
      <3>1. i - n \in 1 .. m /\ i = n + (i - n)
        BY <1>3, <2>2
      <3> QED
        BY <3>1
    <2>3. \A k \in 1 .. m : n + k \in 1 .. (n + m) /\ n + k \notin 1 .. n
      BY <1>3
    <2>4. \A i \in 1 .. n : i \in 1 .. (n + m)
      BY <1>3
    <2>5. DOMAIN new \subseteq DOMAIN inv \cup {n + k : k \in 1 .. m}
      BY <1>3, <2>1, <2>2
    <2>6. DOMAIN inv \subseteq DOMAIN new /\ {n + k : k \in 1 .. m} \subseteq DOMAIN new
      BY <1>3, <2>1, <2>3, <2>4
    <2>7. \A k \in 1 .. m : n + k \notin DOMAIN inv
      BY <1>3, <2>3
    <2> QED
      BY <2>5, <2>6, <2>7
  <1>7. \A i \in DOMAIN inv : new[i] = paid[i]
    BY <1>3, <1>5
  <1>8. Keeps(inv, new)
    <2>1. DOMAIN inv \subseteq DOMAIN new
      BY <1>6
    <2>2. Keeps(inv, paid)
      BY <1>1
    <2> QED
      BY <1>7, <2>1, <2>2 DEF Keeps
  <1>9. \A k \in 1 .. m : new[n + k] = AdjustmentInvoice(inv[q[k]])
    BY <1>2, <1>5
  <1>10. /\ \A i \in DOMAIN inv : new[i].hasSubmission = inv[i].hasSubmission
         /\ \A i \in ids : new[i].status = "paid" /\ new[i].hist = h
         /\ \A i \in DOMAIN inv \ ids : new[i] = inv[i]
    BY <1>1, <1>7
  <1> QED
    BY <1>5, <1>6, <1>8, <1>9, <1>10 DEF Accepts, new, n

(* What is paid under reservation.                                         *)
Reserved(inv, ids) == {i \in ids : inv[i].needAdj /\ inv[i].type # "adjustment"}

(* Each fee that is paid under reservation is given back by one invoice.   *)
LEMMA AcceptRefund ==
  ASSUME NEW inv \in Seq(InvoiceRow), NEW ids, NEW h \in Nat, NEW m \in Nat,
         \A i \in ids : i \in DOMAIN inv /\ inv[i].status = "not_paid",
         NEW q, Lists(q, m, Reserved(inv, ids)),
         NEW pair, Cost(inv, From(inv, Fees(inv), pair))
                     = Cost(inv, From(inv, Back(inv), Swapped(pair)))
  PROVE  LET new == Accepted(inv, ids, h, q, m)
         IN  Cost(new, From(new, Fees(new), pair)) = Cost(new, From(new, Back(new), Swapped(pair)))
  <1> DEFINE new == Accepted(inv, ids, h, q, m)
             n == Len(inv)
             adj == Reserved(inv, ids)
             F == From(inv, Fees(inv), pair)
             B == From(inv, Back(inv), Swapped(pair))
             A == From(inv, adj, pair)
             K == {k \in 1 .. m : q[k] \in A}
             N == {n + k : k \in K}
  <1>1. adj \subseteq ids /\ adj \subseteq DOMAIN inv /\ q \in [1 .. m -> DOMAIN inv]
    <2>1. adj \subseteq ids /\ adj \subseteq DOMAIN inv
      BY DEF Reserved
    <2> HIDE DEF adj
    <2> QED
      BY <2>1 DEF Lists, adj
  <1>2. /\ new \in Seq(InvoiceRow) /\ Keeps(inv, new)
        /\ DOMAIN new = DOMAIN inv \cup {n + k : k \in 1 .. m}
        /\ \A k \in 1 .. m : n + k \notin DOMAIN inv /\ new[n + k] = AdjustmentInvoice(inv[q[k]])
        /\ \A i \in ids : new[i].status = "paid"
        /\ \A i \in DOMAIN inv \ ids : new[i] = inv[i]
    <2>1. Accepts(inv, ids, h, q, m, new)
      BY <1>1, AcceptTable
    <2> HIDE DEF new
    <2> QED
      BY <2>1 DEF Accepts
  <1>3. \A i \in DOMAIN inv : inv[i] \in InvoiceRow
    BY InvoicesLemma
  <1>4. ASSUME NEW k \in 1 .. m
        PROVE  /\ new[n + k].from = inv[q[k]].to /\ new[n + k].to = inv[q[k]].from
               /\ new[n + k].amount = inv[q[k]].amount /\ new[n + k].status = "not_paid"
               /\ new[n + k].type = "adjustment"
    <2>1. inv[q[k]] \in InvoiceRow
      BY <1>1, <1>3
    <2>2. new[n + k] = AdjustmentInvoice(inv[q[k]])
      BY <1>2
    <2> DEFINE item == inv[q[k]]
    <2> HIDE DEF new, n, item
    <2>3. /\ AdjustmentInvoice(item).from = item.to /\ AdjustmentInvoice(item).to = item.from
          /\ AdjustmentInvoice(item).amount = item.amount
          /\ AdjustmentInvoice(item).status = "not_paid"
          /\ AdjustmentInvoice(item).type = "adjustment"
      BY <2>1, AdjustmentLemma DEF item
    <2> QED
      BY <2>2, <2>3 DEF item
  <1>5. \A i \in DOMAIN inv : inv[i].type \in {"fee", "adjustment"}
    BY <1>3 DEF InvoiceRow
  <1>0. \A i \in ids : i \in adj <=> inv[i].needAdj /\ inv[i].type # "adjustment"
    BY DEF Reserved
  <1> HIDE DEF new, n, adj
  <1>6. From(new, Fees(new), pair) = F \cup A
    <2>1. ASSUME NEW i \in ids PROVE i \in Fees(new) <=> i \in adj
      <3>1. /\ i \in DOMAIN inv /\ i \in DOMAIN new /\ new[i].status = "paid"
            /\ new[i].needAdj = inv[i].needAdj /\ new[i].type = inv[i].type
            /\ inv[i].type \in {"fee", "adjustment"}
        BY <1>1, <1>2, <1>5 DEF Keeps
      <3> QED
        BY <1>0, <3>1 DEF Fees
    <2>2. \A i \in ids : i \notin Fees(inv)
      BY DEF Fees
    <2>3. \A i \in DOMAIN inv \ ids : i \in Fees(new) <=> i \in Fees(inv)
      BY <1>2 DEF Fees
    <2>4. \A k \in 1 .. m : n + k \notin Fees(new)
      BY <1>4 DEF Fees
    <2>5. Fees(new) = Fees(inv) \cup adj
      <3>1. Fees(new) \subseteq DOMAIN new /\ Fees(inv) \subseteq DOMAIN inv
        BY DEF Fees
      <3> QED
        BY <1>1, <1>2, <2>1, <2>2, <2>3, <2>4, <3>1
    <2>6. \A i \in Fees(inv) \cup adj : new[i].from = inv[i].from /\ new[i].to = inv[i].to
      BY <1>1, <1>2 DEF Fees, Keeps
    <2> QED
      BY <2>5, <2>6 DEF From
  <1>7. From(new, Back(new), Swapped(pair)) = B \cup N
    <2>1. \A i \in DOMAIN inv : i \in Back(new) <=> i \in Back(inv)
      BY <1>2 DEF Back, Keeps
    <2>2. \A k \in 1 .. m : n + k \in Back(new)
      BY <1>2, <1>4 DEF Back
    <2>3. Back(new) = Back(inv) \cup {n + k : k \in 1 .. m}
      <3>1. Back(new) \subseteq DOMAIN new /\ Back(inv) \subseteq DOMAIN inv
        BY DEF Back
      <3> QED
        BY <1>2, <2>1, <2>2, <3>1
    <2>4. \A i \in Back(inv) : new[i].from = inv[i].from /\ new[i].to = inv[i].to
      BY <1>2 DEF Back, Keeps
    <2>5. \A k \in 1 .. m :
            new[n + k].from = Swapped(pair)[1] /\ new[n + k].to = Swapped(pair)[2] <=> k \in K
      <3>1. \A k \in 1 .. m : q[k] \in adj
        BY DEF Lists, adj
      <3> QED
        BY <1>4, <3>1 DEF Swapped, From
    <2> HIDE DEF K
    <2>6. K \subseteq 1 .. m
      BY DEF K
    <2>7. ASSUME NEW i PROVE i \in From(new, Back(new), Swapped(pair)) <=> i \in B \cup N
      <3>1. CASE i \in Back(inv)
        <4>1. \A k \in 1 .. m : i # n + k
          BY <1>2, <3>1 DEF Back
        <4>2. i \notin N
          BY <2>6, <4>1
        <4> QED
          BY <2>3, <2>4, <3>1, <4>2 DEF From
      <3>2. CASE i \notin Back(inv)
        <4>1. CASE \E k \in 1 .. m : i = n + k
          <5>1. PICK k \in 1 .. m : i = n + k
            BY <4>1
          <5>2. i \in Back(new)
            BY <2>3, <5>1
          <5>3. i \in From(new, Back(new), Swapped(pair)) <=> k \in K
            BY <2>5, <5>1, <5>2 DEF From
          <5>4. \A j \in K : n + j = n + k => j = k
            BY <2>6, InvoicesLemma DEF n
          <5>5. i \in N <=> k \in K
            BY <5>1, <5>4
          <5>6. i \notin B
            BY <3>2 DEF From
          <5> QED
            BY <5>3, <5>5, <5>6
        <4>2. CASE ~\E k \in 1 .. m : i = n + k
          <5>1. i \notin Back(new) /\ i \notin N
            BY <2>3, <2>6, <3>2, <4>2
          <5> QED
            BY <3>2, <5>1 DEF From
        <4> QED
          BY <4>1, <4>2
      <3> QED
        BY <3>1, <3>2
    <2> QED
      BY <2>7
  <1> HIDE DEF F, B, A
  <1>8. F \subseteq DOMAIN inv /\ B \subseteq DOMAIN inv /\ A \subseteq DOMAIN inv
    BY <1>1 DEF F, B, A, From, Fees, Back
  <1>9. F \cap A = {}
    <2>1. \A i \in adj : inv[i].status = "not_paid"
      BY <1>1
    <2> QED
      BY <2>1 DEF F, A, From, Fees
  <1>10. K \subseteq 1 .. m /\ N \subseteq DOMAIN new /\ B \cap N = {} /\ n \in Nat
    BY <1>2, <1>8, InvoicesLemma DEF n
  <1>11. Cost(new, N) = Cost(inv, A)
    <2> DEFINE fun == [k \in K |-> inv[q[k]].amount]
               old == [i \in DOMAIN inv |-> inv[i].amount]
               gun == [i \in DOMAIN new |-> new[i].amount]
               at == [k \in K |-> n + k]
               of == [k \in K |-> q[k]]
    <2>1. IsFiniteSet(K)
      <3>1. IsFiniteSet(1 .. m)
        BY FS_Interval
      <3> HIDE DEF K
      <3> QED
        BY <1>10, <3>1, FS_Subset
    <2>2. \A k \in K : k \in 1 .. m /\ q[k] \in DOMAIN inv /\ n + k \in DOMAIN new
      BY <1>1, <1>2
    <2>3. \A k \in K : fun[k] \in Int
      <3>1. \A k \in K : inv[q[k]].amount \in Int
        BY <2>2, InvoicesLemma
      <3> QED
        BY <3>1
    <2>4. \A k \in K : gun[at[k]] = fun[k]
      BY <1>4, <2>2
    <2>5. \A k \in K : old[of[k]] = fun[k]
      BY <2>2
    <2>6. \A a, b \in K : at[a] = at[b] => a = b
      <3>1. K \subseteq Nat
        BY <2>2
      <3> HIDE DEF K
      <3> QED
        BY <1>10, <3>1
    <2>7. \A a, b \in K : of[a] = of[b] => a = b
      <3>1. \A a, b \in 1 .. m : q[a] = q[b] => a = b
        BY DEF Lists
      <3> QED
        BY <2>2, <3>1
    <2>8. {at[k] : k \in K} = N
      OBVIOUS
    <2>9. {of[k] : k \in K} = A
      <3>1. \A x \in A : \E k \in K : q[k] = x
        <4>1. \A x \in adj : \E k \in 1 .. m : q[k] = x
          BY DEF Lists, adj
        <4>2. \A x \in A : x \in adj
          BY DEF A, From
        <4> QED
          BY <4>1, <4>2
      <3> QED
        BY <3>1
    <2> HIDE DEF K, N, fun, old, gun, at, of
    <2>10. SumFunctionOnSet(gun, {at[k] : k \in K}) = SumFunctionOnSet(fun, K)
      BY <2>1, <2>3, <2>4, <2>6, SumMap
    <2>11. SumFunctionOnSet(old, {of[k] : k \in K}) = SumFunctionOnSet(fun, K)
      BY <2>1, <2>3, <2>5, <2>7, SumMap
    <2>12. SumFunctionOnSet(gun, N) = SumFunctionOnSet(old, A)
      BY <2>8, <2>9, <2>10, <2>11
    <2> QED
      BY <2>12 DEF Cost, gun, old
  <1>12. Cost(new, F) = Cost(inv, F) /\ Cost(new, B) = Cost(inv, B) /\ Cost(new, A) = Cost(inv, A)
    BY <1>2, <1>8, CostSame DEF Keeps
  <1>13. Cost(new, F \cup A) = Cost(new, F) + Cost(new, A)
    <2>1. F \subseteq DOMAIN new /\ A \subseteq DOMAIN new
      BY <1>2, <1>8 DEF Keeps
    <2> QED
      BY <1>2, <1>9, <2>1, CostUnion
  <1>14. Cost(new, B \cup N) = Cost(new, B) + Cost(new, N)
    <2>1. B \subseteq DOMAIN new
      BY <1>2, <1>8 DEF Keeps
    <2>2. N \subseteq DOMAIN new /\ B \cap N = {} /\ new \in Seq(InvoiceRow)
      BY <1>2, <1>10
    <2> HIDE DEF N, K
    <2> QED
      BY <2>1, <2>2, CostUnion
  <1>15. Cost(inv, F) = Cost(inv, B)
    BY DEF F, B
  <1> HIDE DEF N
  <1> QED
    BY <1>6, <1>7, <1>11, <1>12, <1>13, <1>14, <1>15 DEF new
LEMMA AcceptStep ==
  ASSUME Inv, AcceptSubmission
  PROVE  LET ids == submissions[data.id].invoices
             paid == SetPaid(ids)
             adj == Reserved(invoices, paid)
             h == Len(histories) + 1
             q == SetToSeq(adj)
             m == Cardinality(adj)
         IN  /\ Call /\ UpdateStatus("accepted") /\ ids \subseteq DOMAIN invoices
             /\ h \in Nat
             /\ \A i \in ids : invoices[i].status \in {"not_paid", "cancel"}
             /\ \A i \in paid : i \in DOMAIN invoices /\ invoices[i].status = "not_paid"
             /\ histories' = Append(histories, submissions[data.id].amount)
             /\ m \in Nat /\ Lists(q, m, adj)
             /\ invoices' = Accepted(invoices, paid, h, q, m)
             /\ Accepts(invoices, paid, h, q, m, invoices')
  <1> DEFINE ids == submissions[data.id].invoices
             paid == SetPaid(ids)
             adj == Reserved(invoices, paid)
             h == Len(histories) + 1
             q == SetToSeq(adj)
             m == Cardinality(adj)
  <1>1. Adjusted(ids) = adj
    BY SMTT(30) DEF Adjusted, Reserved
  <1>2. /\ Call /\ UpdateStatus("accepted")
        /\ \A i \in ids : invoices[i].status \notin {"not_final", "paid"}
        /\ histories' = Append(histories, submissions[data.id].amount)
    BY DEF AcceptSubmission
  <1>3. invoices' = Accepted(invoices, paid, h, q, m)
    <2>1. invoices' = Accepted(invoices, paid, h, SetToSeq(Adjusted(ids)),
                               Cardinality(Adjusted(ids)))
      BY DEF AcceptSubmission, Accepted, Paid, Given
    <2> QED
      BY <1>1, <2>1, SMTT(30)
  <1>4. data.id \in DOMAIN submissions
    BY <1>2 DEF Inv, Types, Call
  <1>5. /\ invoices \in Seq(InvoiceRow) /\ ids \subseteq DOMAIN invoices /\ h \in Nat
        /\ \A i \in DOMAIN invoices : invoices[i].status \in InvoiceStatus
    BY <1>4, SeqLemma, InvoicesLemma DEF Inv, Types
  <1>6. \A i \in ids : invoices[i].status \in {"not_paid", "cancel"}
    BY <1>2, <1>5 DEF InvoiceStatus
  <1>7. \A i \in paid : i \in DOMAIN invoices /\ invoices[i].status = "not_paid"
    BY <1>5 DEF SetPaid
  <1>8. adj \subseteq DOMAIN invoices
    BY <1>7 DEF Reserved
  <1> HIDE DEF ids, paid, adj, h
  <1>9. m \in Nat /\ Lists(q, m, adj)
    BY <1>5, <1>8, CostType, SetToSeqLemma
  <1> HIDE DEF q, m
  <1>10. q \in [1 .. m -> DOMAIN invoices]
    BY <1>8, <1>9 DEF Lists
  <1>11. Accepts(invoices, paid, h, q, m, invoices')
    BY <1>3, <1>5, <1>7, <1>9, <1>10, AcceptTable
  <1> QED
    BY <1>2, <1>3, <1>5, <1>6, <1>7, <1>9, <1>11 DEF ids, paid, adj, h, q, m

LEMMA AcceptInv ==
  ASSUME Inv, AcceptSubmission
  PROVE  Inv' /\ (MaxCalls = 1 /\ OnceInv => OnceInv')
  <1> DEFINE d == data.id
             ids == submissions[d].invoices
             paid == SetPaid(ids)
             adj == Reserved(invoices, paid)
             h == Len(histories) + 1
             q == SetToSeq(adj)
             m == Cardinality(adj)
             n == Len(invoices)
  <1>1. /\ Call /\ UpdateStatus("accepted") /\ ids \subseteq DOMAIN invoices
        /\ h \in Nat
        /\ \A i \in ids : invoices[i].status \in {"not_paid", "cancel"}
        /\ \A i \in paid : i \in DOMAIN invoices /\ invoices[i].status = "not_paid"
        /\ histories' = Append(histories, submissions[d].amount)
        /\ m \in Nat /\ Lists(q, m, adj)
        /\ invoices' = Accepted(invoices, paid, h, q, m)
        /\ Accepts(invoices, paid, h, q, m, invoices')
    BY AcceptStep
  <1>2. \A i \in ids : i \in paid <=> invoices[i].status = "not_paid"
    BY DEF SetPaid
  <1>3. /\ d \in DOMAIN submissions /\ DOMAIN submissions' = DOMAIN submissions
        /\ \A s \in DOMAIN submissions : s # d => submissions'[s] = submissions[s]
        /\ \A s \in DOMAIN submissions : /\ submissions'[s].invoices = submissions[s].invoices
                                         /\ submissions'[s].amount = submissions[s].amount
        /\ submissions'[d].status = "accepted"
        /\ MaxCalls = 1 => submissions[d].status = "submitted"
    BY <1>1, DecideLemma
  <1>4. paid \subseteq ids
    BY DEF SetPaid
  <1> HIDE DEF d, ids, paid, adj, h, q, m, n
  <1>5. /\ invoices' \in Seq(InvoiceRow) /\ Keeps(invoices, invoices')
        /\ DOMAIN invoices' = DOMAIN invoices \cup {n + k : k \in 1 .. m}
        /\ \A i \in DOMAIN invoices : invoices'[i].hasSubmission = invoices[i].hasSubmission
        /\ \A i \in paid : invoices'[i].status = "paid" /\ invoices'[i].hist = h
        /\ \A i \in DOMAIN invoices \ paid : invoices'[i] = invoices[i]
    BY <1>1 DEF Accepts, n
  <1>6. ASSUME NEW i \in DOMAIN invoices' \ DOMAIN invoices
        PROVE  /\ invoices'[i].status = "not_paid" /\ invoices'[i].hist = 0
               /\ invoices'[i].hasSubmission = FALSE
    <2>1. PICK k \in 1 .. m : i = n + k
      BY <1>5
    <2>2. invoices'[n + k] = AdjustmentInvoice(invoices[q[k]])
      BY <1>1, <2>1 DEF Accepts, n
    <2>3. invoices[q[k]] \in InvoiceRow
      <3>1. q[k] \in paid
        BY <1>1, <2>1 DEF Lists, adj, Reserved
      <3> QED
        BY <1>1, <3>1, InvoicesLemma DEF Inv, Types
    <2> DEFINE item == invoices[q[k]]
    <2> HIDE DEF item
    <2>4. /\ AdjustmentInvoice(item).status = "not_paid" /\ AdjustmentInvoice(item).hist = 0
          /\ AdjustmentInvoice(item).hasSubmission = FALSE
      BY <2>3, AdjustmentLemma DEF item
    <2> QED
      BY <2>1, <2>2, <2>4 DEF item
  <1>7. /\ invoices \in Seq(InvoiceRow) /\ histories \in Seq(Int) /\ Len(histories) \in Nat
        /\ DOMAIN histories = 1 .. Len(histories)
        /\ \A i \in DOMAIN invoices : invoices[i].hist <= Len(histories)
        /\ \A s \in DOMAIN submissions : submissions[s].invoices \subseteq DOMAIN invoices
        /\ submissions[d].amount \in Int
    BY <1>3, SeqLemma, SubmissionsLemma DEF Inv, Types
  <1>8. /\ histories' \in Seq(Int) /\ Len(histories') = h
        /\ DOMAIN histories' = DOMAIN histories \cup {h} /\ histories'[h] = submissions[d].amount
        /\ \A k \in DOMAIN histories : histories'[k] = histories[k]
    BY <1>1, <1>7 DEF h
  <1>9. Types' /\ Priced' /\ Loaded'
    <2>1. \A i \in DOMAIN invoices' : invoices'[i].hist <= Len(histories')
      <3>1. \A i \in DOMAIN invoices \ paid : invoices'[i].hist <= h
        <4>1. \A i \in DOMAIN invoices : invoices[i].hist \in Nat
          BY <1>7, InvoicesLemma
        <4> QED
          BY <1>5, <1>7, <4>1 DEF h
      <3>2. \A i \in paid : invoices'[i].hist <= h
        BY <1>1, <1>5
      <3>3. \A i \in DOMAIN invoices' \ DOMAIN invoices : invoices'[i].hist <= h
        <4>1. h \in Nat /\ 0 <= h
          BY <1>1
        <4> QED
          BY <1>6, <4>1
      <3> QED
        BY <1>8, <3>1, <3>2, <3>3
    <2> QED
      BY <1>1, <1>5, <1>8, <2>1, DecideTypes
  <1>10. Refunded'
    <2> SUFFICES ASSUME NEW pair \in Pair
                 PROVE  Cost(invoices', From(invoices', Fees(invoices'), pair))
                          = Cost(invoices', From(invoices', Back(invoices'), Swapped(pair)))
      BY DEF Refunded
    <2>1. Cost(invoices, From(invoices, Fees(invoices), pair))
            = Cost(invoices, From(invoices, Back(invoices), Swapped(pair)))
      BY DEF Inv, Refunded
    <2>2. Lists(q, m, Reserved(invoices, paid))
      BY <1>1 DEF adj
    <2> DEFINE new == Accepted(invoices, paid, h, q, m)
    <2>3. Cost(new, From(new, Fees(new), pair)) = Cost(new, From(new, Back(new), Swapped(pair)))
      BY <1>1, <1>7, <2>1, <2>2, AcceptRefund
    <2> HIDE DEF new
    <2>4. invoices' = new
      BY <1>1 DEF new
    <2> QED
      BY <2>3, <2>4
  <1>11. Settled'
    <2>1. \A i \in ids : invoices'[i].status \in {"paid", "cancel"}
      BY <1>1, <1>2, <1>5
    <2>2. ASSUME NEW s \in DOMAIN submissions, s # d, submissions[s].status = "accepted",
                 NEW i \in submissions[s].invoices
          PROVE  invoices'[i].status \in {"paid", "cancel"}
      BY <1>5, <1>7, <2>2 DEF Inv, Settled, Keeps
    <2>3. submissions'[d].invoices = ids
      BY <1>3 DEF ids
    <2> QED
      BY <1>3, <2>1, <2>2, <2>3 DEF Settled
  <1>12. ASSUME MaxCalls = 1, OnceInv PROVE Exclusive'
    <2>1. \A s \in DOMAIN submissions : \A i : Holds(submissions', s, i) <=> Holds(submissions, s, i)
      BY <1>3, <1>12 DEF Holds
    <2>2. \A s \in DOMAIN submissions : \A i : Holds(submissions, s, i) => i \in DOMAIN invoices
      BY <1>7 DEF Holds
    <2>3. Exclusive
      BY <1>12 DEF OnceInv
    <2>4. DOMAIN invoices \subseteq DOMAIN invoices'
      BY <1>5
    <2> QED
      BY <1>3, <1>5, <1>6, <2>1, <2>2, <2>3, <2>4 DEF Exclusive
  <1>13. ASSUME MaxCalls = 1, OnceInv PROVE PaidBy'
    <2> SUFFICES ASSUME NEW i \in DOMAIN invoices'
                 PROVE  IF invoices'[i].status = "paid"
                        THEN /\ invoices'[i].hist \in DOMAIN histories'
                             /\ \E s \in DOMAIN submissions' :
                                  /\ submissions'[s].status = "accepted"
                                  /\ i \in submissions'[s].invoices
                                  /\ submissions'[s].amount = histories'[invoices'[i].hist]
                                  /\ \A j \in submissions'[s].invoices :
                                       invoices'[j].status = "paid" =>
                                         invoices'[j].hist = invoices'[i].hist
                        ELSE invoices'[i].hist = 0
      BY DEF PaidBy
    <2>1. CASE i \notin DOMAIN invoices
      BY <1>6, <2>1
    <2>2. CASE i \in paid
      <3>1. invoices'[i].status = "paid" /\ invoices'[i].hist = h /\ h \in DOMAIN histories'
        BY <1>5, <1>8, <2>2
      <3>2. /\ submissions'[d].status = "accepted" /\ submissions'[d].invoices = ids
            /\ submissions'[d].amount = histories'[h] /\ i \in ids /\ d \in DOMAIN submissions'
        BY <1>3, <1>4, <1>8, <2>2 DEF ids
      <3>3. \A j \in ids : invoices'[j].status = "paid" => invoices'[j].hist = h
        <4>1. \A j \in ids \ paid : invoices'[j].status # "paid"
          BY <1>1, <1>5
        <4> QED
          BY <1>5, <4>1
      <3> QED
        BY <3>1, <3>2, <3>3
    <2>3. CASE i \in DOMAIN invoices \ paid /\ invoices[i].status = "paid"
      <3>1. /\ invoices[i].hist \in DOMAIN histories
            /\ \E s \in DOMAIN submissions :
                 /\ submissions[s].status = "accepted" /\ i \in submissions[s].invoices
                 /\ submissions[s].amount = histories[invoices[i].hist]
                 /\ \A j \in submissions[s].invoices :
                      invoices[j].status = "paid" => invoices[j].hist = invoices[i].hist
        BY <1>13, <2>3 DEF OnceInv, PaidBy
      <3>2. PICK s \in DOMAIN submissions :
              /\ submissions[s].status = "accepted" /\ i \in submissions[s].invoices
              /\ submissions[s].amount = histories[invoices[i].hist]
              /\ \A j \in submissions[s].invoices :
                   invoices[j].status = "paid" => invoices[j].hist = invoices[i].hist
        BY <3>1
      <3>3. s # d /\ submissions'[s] = submissions[s] /\ s \in DOMAIN submissions'
        BY <1>3, <1>13, <3>2
      <3>4. invoices'[i] = invoices[i]
        BY <1>5, <2>3
      <3>5. \A j \in submissions[s].invoices : invoices'[j] = invoices[j]
        <4>1. \A j \in submissions[s].invoices :
                j \in DOMAIN invoices /\ invoices[j].status \in {"paid", "cancel"}
          BY <1>7, <3>2 DEF Inv, Settled
        <4> QED
          BY <1>1, <1>5, <4>1
      <3>6. histories'[invoices[i].hist] = histories[invoices[i].hist]
        BY <1>8, <3>1
      <3>7. invoices'[i].hist \in DOMAIN histories'
        BY <1>8, <3>1, <3>4
      <3>8. /\ submissions'[s].status = "accepted" /\ i \in submissions'[s].invoices
            /\ submissions'[s].amount = histories'[invoices'[i].hist]
        BY <3>2, <3>3, <3>4, <3>6
      <3>9. \A j \in submissions'[s].invoices :
              invoices'[j].status = "paid" => invoices'[j].hist = invoices'[i].hist
        BY <3>2, <3>3, <3>4, <3>5
      <3> QED
        BY <2>3, <3>3, <3>4, <3>7, <3>8, <3>9
    <2>4. CASE i \in DOMAIN invoices \ paid /\ invoices[i].status # "paid"
      <3>1. invoices[i].hist = 0
        BY <1>13, <2>4 DEF OnceInv, PaidBy
      <3> QED
        BY <1>5, <2>4, <3>1
    <2> QED
      BY <2>1, <2>2, <2>3, <2>4
  <1>14. ASSUME MaxCalls = 1, OnceInv PROVE DecidedOnce'
    BY <1>1, <1>14, DecideOnce DEF OnceInv
  <1> QED
    BY <1>9, <1>10, <1>11, <1>12, <1>13, <1>14 DEF Inv, OnceInv
-----------------------------------------------------------------------------
(* What a transaction costs after a readjustment.                          *)

Standing(inv, tx, p) ==
  {i \in DOMAIN inv : /\ inv[i].tx = tx /\ inv[i].status # "cancel"
                      /\ inv[i].from = p[1] /\ inv[i].to = p[2]}

(* After canceling, what stands of tx is what is paid, and it is all pair's. *)
LEMMA CanceledStanding ==
  ASSUME NEW inv \in Seq(InvoiceRow), NEW tx, NEW pair \in Pair,
         \A i \in OfTx(inv, tx) : inv[i].from = pair[1] /\ inv[i].to = pair[2]
  PROVE  LET mid == Canceled(inv, OfTx(inv, tx))
         IN  /\ Standing(mid, tx, pair) = PaidOf(inv, OfTx(inv, tx))
             /\ Standing(mid, tx, Swapped(pair)) = {}
  <1> DEFINE ids == OfTx(inv, tx)
             mid == Canceled(inv, ids)
  <1>1. /\ mid \in Seq(InvoiceRow) /\ DOMAIN mid = DOMAIN inv
        /\ Keeps(inv, mid) /\ PaysNothing(inv, mid)
        /\ \A i \in DOMAIN inv \cap ids : mid[i].status \in {"paid", "cancel"}
    BY CancelLemma
  <1>2. ids \subseteq DOMAIN inv /\ \A i \in DOMAIN inv : i \in ids <=> inv[i].tx = tx
    BY DEF OfTx
  <1>3. pair[1] # pair[2]
    BY PartyLemma
  <1> HIDE DEF ids, mid
  <1>4. ASSUME NEW i \in DOMAIN inv
        PROVE  /\ mid[i].tx = inv[i].tx /\ mid[i].from = inv[i].from /\ mid[i].to = inv[i].to
               /\ i \in ids => (mid[i].status # "cancel" <=> inv[i].status = "paid")
    BY <1>1 DEF Keeps, PaysNothing
  <1>5. \A i \in ids : inv[i].from = pair[1] /\ inv[i].to = pair[2]
    BY DEF ids
  <1>6. Standing(mid, tx, pair) = PaidOf(inv, ids)
    BY <1>1, <1>2, <1>4, <1>5 DEF Standing, PaidOf
  <1>7. Standing(mid, tx, Swapped(pair)) = {}
    BY <1>1, <1>2, <1>3, <1>4, <1>5 DEF Standing, Swapped
  <1> QED
    BY <1>6, <1>7 DEF ids, mid

(* One more invoice that stands changes the cost of its own side only.     *)
LEMMA AppendStanding ==
  ASSUME NEW inv \in Seq(InvoiceRow), NEW r \in InvoiceRow, NEW tx, NEW p,
         r.tx = tx, r.status # "cancel"
  PROVE  Cost(Append(inv, r), Standing(Append(inv, r), tx, p))
           = Cost(inv, Standing(inv, tx, p))
               + (IF r.from = p[1] /\ r.to = p[2] THEN r.amount ELSE 0)
  <1> DEFINE new == Append(inv, r)
             n == Len(inv) + 1
             S == Standing(inv, tx, p)
  <1>1. /\ new \in Seq(InvoiceRow)
        /\ DOMAIN new = DOMAIN inv \cup {n} /\ n \notin DOMAIN inv
        /\ \A i \in DOMAIN inv : new[i] = inv[i]
        /\ new[n] = r
    BY AppendLemma
  <1>2. S \subseteq DOMAIN inv
    BY DEF Standing
  <1>3. r.amount \in Int
    BY DEF InvoiceRow
  <1> HIDE DEF new, n, S
  <1>4. Cost(new, S) = Cost(inv, S) /\ Cost(inv, S) \in Int
    BY <1>1, <1>2, CostSame, CostType
  <1>5. CASE r.from = p[1] /\ r.to = p[2]
    <2>1. Standing(new, tx, p) = S \cup {n}
      BY <1>1, <1>5 DEF Standing, S
    <2>2. S \subseteq DOMAIN new /\ {n} \subseteq DOMAIN new /\ S \cap {n} = {} /\ n \in DOMAIN new
      BY <1>1, <1>2
    <2>3. Cost(new, S \cup {n}) = Cost(new, S) + Cost(new, {n})
      BY <1>1, <2>2, CostUnion
    <2>4. Cost(new, {n}) = r.amount
      BY <1>1, <2>2, CostOne
    <2> QED
      BY <1>4, <1>5, <2>1, <2>3, <2>4 DEF new, S
  <1>6. CASE ~(r.from = p[1] /\ r.to = p[2])
    <2>1. Standing(new, tx, p) = S
      BY <1>1, <1>6 DEF Standing, S
    <2> QED
      BY <1>4, <1>6, <2>1 DEF new, S
  <1> QED
    BY <1>5, <1>6

LEMMA ReadjustCost ==
  ASSUME Types, NEW tx \in Tx, NEW pair \in Pair, NEW amount \in Amount \cup {0},
         ReadjustAmount(tx, pair, amount)
  PROVE  NetCost(tx, pair)' = amount
  <1> DEFINE ids == OfTx(invoices, tx)
             paid == PaidOf(invoices, ids)
             rest == amount - Cost(invoices, paid)
             mid == Canceled(invoices, ids)
             r == RestInvoice(pair, tx, rest)
             Side(inv, p) == Cost(inv, Standing(inv, tx, p))
  <1>1. /\ rest \in Int
        /\ \A i \in ids : invoices[i].from = pair[1] /\ invoices[i].to = pair[2]
        /\ invoices' = IF rest = 0 THEN mid ELSE Append(mid, r)
        /\ rest # 0 => /\ r \in InvoiceRow /\ r.tx = tx /\ r.status = "not_paid"
                       /\ r.from = (IF rest > 0 THEN pair[1] ELSE pair[2])
                       /\ r.to = (IF rest > 0 THEN pair[2] ELSE pair[1])
                       /\ r.amount = (IF rest > 0 THEN rest ELSE -rest)
    <2>1. Types
      OBVIOUS
    <2>2. rest \in Int /\ \A i \in ids : invoices[i].from = pair[1] /\ invoices[i].to = pair[2]
      BY <2>1, ReadjustLemma
    <2>3. invoices' = IF rest = 0 THEN mid ELSE Append(mid, r)
      BY <2>1, ReadjustLemma
    <2>4. rest # 0 => /\ r \in InvoiceRow /\ r.tx = tx /\ r.status = "not_paid"
                      /\ r.type = "fee" /\ r.hist = 0 /\ r.hasSubmission = FALSE
                      /\ r.from = (IF rest > 0 THEN pair[1] ELSE pair[2])
                      /\ r.to = (IF rest > 0 THEN pair[2] ELSE pair[1])
                      /\ r.amount = (IF rest > 0 THEN rest ELSE -rest)
      BY <2>1, ReadjustLemma
    <2> QED
      BY <2>2, <2>3, <2>4
  <1>2. invoices \in Seq(InvoiceRow) /\ paid \subseteq DOMAIN invoices
    BY DEF Types, PaidOf, OfTx
  <1>3. /\ mid \in Seq(InvoiceRow) /\ DOMAIN mid = DOMAIN invoices /\ Keeps(invoices, mid)
    BY <1>2, CancelLemma
  <1>4. Standing(mid, tx, pair) = paid /\ Standing(mid, tx, Swapped(pair)) = {}
    BY <1>1, <1>2, CanceledStanding
  <1>5. amount \in Int
    BY SubmissionsAssumption
  <1> HIDE DEF ids, paid, mid, r
  <1>6. Cost(mid, paid) = Cost(invoices, paid) /\ Cost(invoices, paid) \in Int
    BY <1>2, <1>3, CostSame, CostType DEF Keeps
  <1>7. Side(mid, pair) = amount - rest /\ Side(mid, Swapped(pair)) = 0
    BY <1>4, <1>5, <1>6, CostEmpty
  <1>8. NetCost(tx, pair)' = Side(invoices', pair) - Side(invoices', Swapped(pair))
    BY DEF NetCost, GetAmount, Cost, Standing, Swapped
  <1>9. Side(invoices', pair) - Side(invoices', Swapped(pair)) = amount
    <2> HIDE DEF rest
    <2>1. CASE rest = 0
      BY <1>1, <1>5, <1>7, <2>1
    <2>2. CASE rest # 0
      <3>1. /\ Side(Append(mid, r), pair)
                 = Side(mid, pair) + (IF r.from = pair[1] /\ r.to = pair[2] THEN r.amount ELSE 0)
            /\ Side(Append(mid, r), Swapped(pair))
                 = Side(mid, Swapped(pair))
                     + (IF r.from = Swapped(pair)[1] /\ r.to = Swapped(pair)[2]
                        THEN r.amount ELSE 0)
        BY <1>1, <1>3, <2>2, AppendStanding
      <3>2. invoices' = Append(mid, r) /\ pair[1] # pair[2]
        BY <1>1, <2>2, PartyLemma
      <3> HIDE DEF Side
      <3>3. CASE rest > 0
        <4>1. r.from = pair[1] /\ r.to = pair[2] /\ r.amount = rest
          BY <1>1, <2>2, <3>3
        <4> QED
          BY <1>1, <1>5, <1>7, <3>1, <3>2, <4>1 DEF Swapped
      <3>4. CASE rest < 0
        <4>1. r.from = pair[2] /\ r.to = pair[1] /\ r.amount = -rest
          BY <1>1, <2>2, <3>4
        <4> QED
          BY <1>1, <1>5, <1>7, <3>1, <3>2, <4>1 DEF Swapped
      <3>5. rest > 0 \/ rest < 0
        BY <1>1, <2>2
      <3> QED
        BY <3>3, <3>4, <3>5
    <2> QED
      BY <2>1, <2>2
  <1> QED
    BY <1>8, <1>9
-----------------------------------------------------------------------------
(* The steps, and the theorems.                                            *)

LEMMA InitInv ==
  ASSUME Init
  PROVE  OnceInv
  <1>1. /\ invoices = << >> /\ submissions = << >> /\ histories = << >> /\ data = Nothing
        /\ DOMAIN invoices = {} /\ DOMAIN submissions = {}
    BY DEF Init
  <1>2. Types
    BY <1>1, NothingType DEF Types
  <1>3. Refunded
    <2>1. \A pair : From(invoices, Fees(invoices), pair) = {}
      BY <1>1 DEF From, Fees
    <2>2. \A pair : From(invoices, Back(invoices), Swapped(pair)) = {}
      BY <1>1 DEF From, Back
    <2> QED
      BY <2>1, <2>2 DEF Refunded
  <1>4. Priced /\ Settled /\ Loaded /\ Exclusive /\ PaidBy /\ DecidedOnce
    BY <1>1 DEF Priced, Settled, Loaded, Exclusive, PaidBy, DecidedOnce
  <1> QED
    BY <1>2, <1>3, <1>4 DEF Inv, OnceInv

LEMMA StutterInv ==
  ASSUME Inv, UNCHANGED vars
  PROVE  Inv' /\ (OnceInv => OnceInv')
  <1>1. PaysNothing(invoices, invoices') /\ Keeps(invoices, invoices')
        /\ SameFlags(invoices, invoices') /\ invoices' \in Seq(InvoiceRow)
    BY DEF vars, PaysNothing, Keeps, SameFlags, Inv, Types
  <1> QED
    BY <1>1, QuietInv DEF vars

(* Every step keeps the invariant, and with one mutation an object its     *)
(* second part too.                                                        *)
LEMMA StepInv ==
  ASSUME Inv, [Next]_vars
  PROVE  Inv' /\ (MaxCalls = 1 /\ OnceInv => OnceInv')
  <1>1. CASE UNCHANGED vars
    BY <1>1, StutterInv
  <1>2. ASSUME NEW pair \in Pair, NEW tx \in Tx \cup {NoTx},
               NEW status \in {"not_final", "not_paid"}, NEW amount \in Amount,
               NEW needAdj \in BOOLEAN, CreateInvoice(pair, tx, status, amount, needAdj)
        PROVE  Inv' /\ (MaxCalls = 1 /\ OnceInv => OnceInv')
    BY <1>2, CreateInvoiceInv
  <1>3. ASSUME NEW i \in DOMAIN invoices, Finalize(i)
        PROVE  Inv' /\ (MaxCalls = 1 /\ OnceInv => OnceInv')
    BY <1>3, FinalizeInv
  <1>4. ASSUME NEW asked \in SUBSET DOMAIN invoices, NEW given \in Amount \cup {0},
               CreateSubmission(asked, given)
        PROVE  Inv' /\ (MaxCalls = 1 /\ OnceInv => OnceInv')
    BY <1>4, SubmitInv
  <1>5. ASSUME NEW s \in DOMAIN submissions, GetFromQuery(s)
        PROVE  Inv' /\ (MaxCalls = 1 /\ OnceInv => OnceInv')
    BY <1>5, GetFromQueryInv
  <1>6. CASE AcceptSubmission
    BY <1>6, AcceptInv
  <1>7. CASE RejectSubmission
    BY <1>7, RejectInv
  <1>8. CASE Commit
    BY <1>8, CommitInv
  <1>9. ASSUME NEW tx \in Tx, NEW pair \in Pair, NEW amount \in Amount \cup {0},
               ReadjustAmount(tx, pair, amount)
        PROVE  Inv' /\ (MaxCalls = 1 /\ OnceInv => OnceInv')
    BY <1>9, ReadjustInv
  <1> QED
    BY <1>1, <1>2, <1>3, <1>4, <1>5, <1>6, <1>7, <1>8, <1>9 DEF Next

(* The invariant of the tables: types, refunds, what submissions cost,     *)
(* what acceptance settles.                                                *)
THEOREM SubmissionsInvariant == Spec => []Inv
  <1>1. Init => Inv
    BY InitInv DEF OnceInv
  <1>2. Inv /\ [Next]_vars => Inv'
    BY StepInv
  <1> QED
    BY <1>1, <1>2, PTL DEF Spec

(* With one mutation an object, the submissions of an invoice and its      *)
(* payment agree.                                                          *)
THEOREM SubmissionsOnceInvariant == ASSUME MaxCalls = 1 PROVE Spec => []OnceInv
  <1>1. Init => OnceInv
    BY InitInv
  <1>2. OnceInv /\ [Next]_vars => OnceInv'
    BY StepInv DEF OnceInv
  <1> QED
    BY <1>1, <1>2, PTL DEF Spec

(* The types of the tables and of the loaded object.                       *)
THEOREM SubmissionsTypes == Spec => []TypeOK
  <1>1. ASSUME Inv PROVE TypeOK
    <2>1. /\ \A i \in DOMAIN invoices : /\ invoices[i] \in InvoiceRow
                                        /\ invoices[i].status \in InvoiceStatus
                                        /\ invoices[i].hist \in Nat
                                        /\ invoices[i].hist <= Len(histories)
          /\ Len(histories) \in Nat
      BY <1>1, InvoicesLemma, SeqLemma DEF Inv, Types
    <2>2. \A i \in DOMAIN invoices : /\ invoices[i].status \in InvoiceStatus
                                     /\ invoices[i].amount \in Nat \ {0}
                                     /\ invoices[i].hist \in 0 .. Len(histories)
      BY <2>1 DEF InvoiceRow
    <2>3. /\ Len(submissions) \in Nat /\ DOMAIN submissions = 1 .. Len(submissions)
          /\ \A s \in DOMAIN submissions : /\ submissions[s].status \in SubmissionStatus
                                           /\ submissions[s].invoices \subseteq DOMAIN invoices
      BY <1>1, SubmissionsLemma DEF Inv
    <2>4. data.id \in 0 .. Len(submissions)
      <3>1. data = Nothing \/ data.id \in DOMAIN submissions
        BY <1>1 DEF Inv, Types
      <3>2. Nothing.id = 0
        BY DEF Nothing
      <3> QED
        BY <2>3, <3>1, <3>2
    <2>5. data.calls \in 0 .. MaxCalls
      BY <1>1 DEF Inv, Types
    <2> QED
      BY <2>2, <2>3, <2>4, <2>5 DEF TypeOK
  <1> QED
    BY <1>1, SubmissionsInvariant, PTL

(* Each fee that was paid under reservation is given back exactly once,    *)
(* however submissions are accepted, rejected and decided again.           *)
THEOREM SubmissionsRefund == Spec => []AdjustedOnce
  <1>1. ASSUME Inv PROVE AdjustedOnce
    BY <1>1 DEF Inv, Refunded, AdjustedOnce, Fees, Back, From, Swapped, Cost, GetAmount
  <1> QED
    BY <1>1, SubmissionsInvariant, PTL

(* A readjustment leaves the transaction's standing invoices, paid or not, *)
(* at the amount asked for.                                                *)
THEOREM SubmissionsReadjust == Spec => ReadjustReachesAmount
  <1>1. Inv /\ [Next]_vars =>
          [\A tx \in Tx, pair \in Pair, amount \in Amount \cup {0} :
             ReadjustAmount(tx, pair, amount) => NetCost(tx, pair)' = amount]_vars
    BY ReadjustCost DEF Inv
  <1> QED
    BY <1>1, SubmissionsInvariant, PTL DEF Spec, ReadjustReachesAmount

(* No invoice is in two submissions that wait or were accepted, and        *)
(* has_submission says whether it is in one, when objects are mutated once. *)
THEOREM SubmissionsExclusive == ASSUME MaxCalls = 1 PROVE Spec => []SubmissionExclusive
  <1>1. ASSUME Inv, Exclusive PROVE SubmissionExclusive
    <2> SUFFICES ASSUME NEW i \in DOMAIN invoices
                 PROVE  LET holders == {s \in DOMAIN submissions :
                                          /\ submissions[s].status # "rejected"
                                          /\ i \in submissions[s].invoices}
                        IN  /\ Cardinality(holders) <= 1
                            /\ invoices[i].hasSubmission <=> holders # {}
      BY DEF SubmissionExclusive
    <2> DEFINE holders == {s \in DOMAIN submissions : /\ submissions[s].status # "rejected"
                                                      /\ i \in submissions[s].invoices}
    <2>1. \A s \in DOMAIN submissions : s \in holders <=> Holds(submissions, s, i)
      BY DEF Holds
    <2>2. \A s, t \in holders : s = t
      BY <1>1, <2>1 DEF Exclusive
    <2>3. holders # {} <=> \E s \in DOMAIN submissions : Holds(submissions, s, i)
      BY <2>1
    <2> HIDE DEF holders
    <2>4. Cardinality(holders) <= 1
      <3>1. CASE holders = {}
        BY <3>1, FS_EmptySet
      <3>2. CASE holders # {}
        <4>1. PICK s \in holders : TRUE
          BY <3>2
        <4>2. holders = {s}
          BY <2>2, <4>1
        <4> QED
          BY <4>2, FS_Singleton
      <3> QED
        BY <3>1, <3>2
    <2>5. invoices[i].hasSubmission <=> holders # {}
      BY <1>1, <2>3 DEF Exclusive
    <2> QED
      BY <2>4, <2>5 DEF holders
  <1>2. OnceInv => Inv /\ Exclusive
    BY DEF OnceInv
  <1> QED
    BY <1>1, <1>2, SubmissionsOnceInvariant, PTL

(* A submission costs what its invoices cost, and each paid invoice was    *)
(* paid by an accepted submission of which the history tells the amount,   *)
(* when objects are mutated once.                                          *)
THEOREM SubmissionsPaid == ASSUME MaxCalls = 1 PROVE Spec => []PaidByItsSubmission
  <1>1. ASSUME OnceInv PROVE PaidByItsSubmission
    <2>1. \A s \in DOMAIN submissions :
            submissions[s].amount = GetAmount(submissions[s].invoices)
      BY <1>1 DEF OnceInv, Inv, Priced, Cost, GetAmount
    <2> QED
      BY <1>1, <2>1 DEF OnceInv, PaidBy, PaidByItsSubmission
  <1> QED
    BY <1>1, SubmissionsOnceInvariant, PTL

(* payment_submission.go refuses to decide a submission that has been      *)
(* accepted or rejected: so it does when objects are mutated once.         *)
THEOREM SubmissionsDecidedOnce == ASSUME MaxCalls = 1 PROVE Spec => []DecidedOnce
  <1>1. OnceInv => DecidedOnce
    BY DEF OnceInv
  <1> QED
    BY <1>1, SubmissionsOnceInvariant, PTL
-----------------------------------------------------------------------------
(* The queries of the same package: the inductive invariant, of the        *)
(* statement q under construction.                                         *)

TableName ==
  Base \cup {"invoice_payment_submission", "from_team", "to_team"}

JoinRow == [table : TableName, on : TableName]
Builder == [table : Base, joined : SUBSET TableName]

Statement ==
  [base : Base, joins : Seq(JoinRow), where : SUBSET TableName, builders : Seq(Builder)]

BeforeIn(q, i) == {q.base} \cup {q.joins[j].table : j \in {n \in DOMAIN q.joins : n < i}}
TablesIn(q) == {q.base} \cup {q.joins[j].table : j \in DOMAIN q.joins}

(* Joins, conditions and flags are about tables that are there.            *)
Sound(q) ==
  /\ q \in Statement
  /\ \A i \in DOMAIN q.joins : q.joins[i].on \in BeforeIn(q, i)
  /\ q.where \subseteq TablesIn(q)
  /\ \A k \in DOMAIN q.builders : /\ q.builders[k].table \in TablesIn(q)
                                  /\ q.builders[k].joined \subseteq TablesIn(q)

(* Builder k knows of all the tables, and each of them is there once.      *)
KnowsAll(q, k) ==
  /\ \A i \in DOMAIN q.joins : q.joins[i].table \notin BeforeIn(q, i)
  /\ TablesIn(q) \subseteq {q.builders[k].table} \cup q.builders[k].joined

ForInvoices(q) == {k \in DOMAIN q.builders : q.builders[k].table = "invoices"}

(* The only builder for invoices knows of all the tables; before there is  *)
(* one, nothing has been joined.                                           *)
OneKnows(q) ==
  /\ ForInvoices(q) = {} =>
       Len(q.builders) = 1 /\ q.builders[1].joined = {} /\ KnowsAll(q, 1)
  /\ \A k : ForInvoices(q) = {k} => KnowsAll(q, k)

(* A builder that has joined the table at the other side of the link has   *)
(* joined the link too.                                                    *)
Linked(b) ==
  /\ b.table = "invoices" /\ "payment_submissions" \in b.joined
       => "invoice_payment_submission" \in b.joined
  /\ b.table = "payment_submissions" /\ "invoices" \in b.joined
       => "invoice_payment_submission" \in b.joined

Good(q) ==
  /\ Sound(q)
  /\ \A k \in DOMAIN q.builders : Linked(q.builders[k])
  /\ OneKnows(q)

QueryInv == Good(query)
-----------------------------------------------------------------------------
(* The parts of a statement.                                               *)

LEMMA StatementLemma ==
  ASSUME NEW q \in Statement
  PROVE  /\ q.base \in Base /\ q.where \subseteq TableName
         /\ q.joins \in Seq(JoinRow) /\ Len(q.joins) \in Nat
         /\ DOMAIN q.joins = 1 .. Len(q.joins)
         /\ \A i \in DOMAIN q.joins : q.joins[i].table \in TableName /\ q.joins[i].on \in TableName
         /\ q.builders \in Seq(Builder) /\ Len(q.builders) \in Nat
         /\ DOMAIN q.builders = 1 .. Len(q.builders)
         /\ \A k \in DOMAIN q.builders : /\ q.builders[k] \in Builder
                                         /\ q.builders[k].table \in Base
                                         /\ q.builders[k].joined \subseteq TableName
  <1>1. /\ q.base \in Base /\ q.where \subseteq TableName /\ q.joins \in Seq(JoinRow)
        /\ q.builders \in Seq(Builder)
    BY DEF Statement
  <1>2. \A s \in Seq(JoinRow) : /\ Len(s) \in Nat /\ DOMAIN s = 1 .. Len(s)
                                /\ \A i \in DOMAIN s : s[i] \in JoinRow
    OBVIOUS
  <1>3. \A s \in Seq(Builder) : /\ Len(s) \in Nat /\ DOMAIN s = 1 .. Len(s)
                                /\ \A i \in DOMAIN s : s[i] \in Builder
    OBVIOUS
  <1>4. /\ \A r \in JoinRow : r.table \in TableName /\ r.on \in TableName
        /\ \A b \in Builder : b.table \in Base /\ b.joined \subseteq TableName
    BY DEF JoinRow, Builder
  <1> QED
    BY <1>1, <1>2, <1>3, <1>4

(* The statement with one more join, which builder k remembers.            *)
Joined(q, k, table, on) ==
  [base |-> q.base, joins |-> Append(q.joins, [table |-> table, on |-> on]), where |-> q.where,
   builders |-> [q.builders EXCEPT ![k] = [table |-> q.builders[k].table,
                                           joined |-> q.builders[k].joined \cup {table}]]]

LEMMA JoinIs ==
  ASSUME NEW q \in Statement, NEW k \in DOMAIN q.builders, NEW table, NEW on,
         table \notin q.builders[k].joined
  PROVE  Join(q, k, table, on) = Joined(q, k, table, on)
  <1> DEFINE joins == Append(q.joins, [table |-> table, on |-> on])
             r == [q EXCEPT !.joins = joins]
             b == [table |-> q.builders[k].table, joined |-> q.builders[k].joined \cup {table}]
  <1>1. r = [base |-> q.base, joins |-> joins, where |-> q.where, builders |-> q.builders]
    <2> HIDE DEF joins
    <2> QED
      BY DEF Statement
  <1>2. q.builders[k] \in Builder
    BY StatementLemma
  <1>3. [q.builders[k] EXCEPT !.joined = q.builders[k].joined \cup {table}] = b
    BY <1>2 DEF Builder
  <1>4. Join(q, k, table, on) = Remember(r, k, table)
    BY DEF Join
  <1> HIDE DEF r, b, joins
  <1>5. r.builders = q.builders /\ r.base = q.base /\ r.joins = joins /\ r.where = q.where
    BY <1>1
  <1>6. Remember(r, k, table) = [r EXCEPT !.builders = [q.builders EXCEPT ![k] = b]]
    BY <1>3, <1>5 DEF Remember
  <1>7. [r EXCEPT !.builders = [q.builders EXCEPT ![k] = b]]
          = [base |-> q.base, joins |-> joins, where |-> q.where,
             builders |-> [q.builders EXCEPT ![k] = b]]
    BY <1>1
  <1> QED
    BY <1>4, <1>6, <1>7 DEF Joined, joins, b
-----------------------------------------------------------------------------
(* The tables before the joins of a statement with one more join.          *)

LEMMA AppendTables ==
  ASSUME NEW q \in Statement, NEW r \in Statement, NEW row \in JoinRow,
         r.base = q.base, r.joins = Append(q.joins, row)
  PROVE  /\ Len(r.joins) = Len(q.joins) + 1 /\ r.joins[Len(q.joins) + 1] = row
         /\ \A i \in DOMAIN q.joins : r.joins[i] = q.joins[i]
         /\ \A i \in DOMAIN q.joins : BeforeIn(r, i) = BeforeIn(q, i)
         /\ BeforeIn(r, Len(q.joins) + 1) = TablesIn(q)
         /\ TablesIn(r) = TablesIn(q) \cup {row.table}
  <1>1. /\ q.joins \in Seq(JoinRow) /\ Len(q.joins) \in Nat
        /\ DOMAIN q.joins = 1 .. Len(q.joins)
        /\ DOMAIN r.joins = 1 .. Len(r.joins)
    BY StatementLemma
  <1>2. /\ Len(r.joins) = Len(q.joins) + 1 /\ r.joins[Len(q.joins) + 1] = row
        /\ \A i \in DOMAIN q.joins : r.joins[i] = q.joins[i]
    BY <1>1
  <1>3. DOMAIN r.joins = 1 .. Len(q.joins) + 1
    BY <1>1, <1>2
  <1>4. \A i \in DOMAIN q.joins : BeforeIn(r, i) = BeforeIn(q, i)
    <2> TAKE i \in DOMAIN q.joins
    <2>1. {n \in DOMAIN r.joins : n < i} = {n \in DOMAIN q.joins : n < i}
      BY <1>1, <1>3
    <2> QED
      BY <2>1, <1>2 DEF BeforeIn
  <1>5. {n \in DOMAIN r.joins : n < Len(q.joins) + 1} = DOMAIN q.joins
    BY <1>1, <1>3
  <1>6. BeforeIn(r, Len(q.joins) + 1) = TablesIn(q)
    BY <1>2, <1>5 DEF BeforeIn, TablesIn
  <1>7. DOMAIN r.joins = DOMAIN q.joins \cup {Len(q.joins) + 1}
    BY <1>1, <1>3
  <1>8. TablesIn(r) = TablesIn(q) \cup {row.table}
    BY <1>2, <1>7 DEF TablesIn
  <1> QED
    BY <1>2, <1>4, <1>6, <1>8

(* What a call leaves behind: the statement r, in which builder k has      *)
(* joined these tables too.                                                *)
Grown(q, r, k, tables) ==
  /\ Sound(r)
  /\ Len(r.builders) = Len(q.builders)
  /\ \A j \in DOMAIN q.builders : r.builders[j].table = q.builders[j].table
  /\ \A j \in DOMAIN q.builders : j # k => r.builders[j] = q.builders[j]
  /\ r.builders[k].joined = q.builders[k].joined \cup tables
  /\ TablesIn(r) = TablesIn(q) \cup tables
  /\ q.builders[k].table \notin tables /\ KnowsAll(q, k) => KnowsAll(r, k)

(* Joining a table on one that is there keeps a statement sound, and what  *)
(* a builder that knew of all tables joins is there once.                  *)
LEMMA JoinLemma ==
  ASSUME NEW q, Sound(q), NEW k \in DOMAIN q.builders,
         NEW table \in TableName, NEW on \in TablesIn(q)
  PROVE  Grown(q, Join(q, k, table, on), k, {table})
  <1>1. q \in Statement /\ on \in TableName
    <2>1. q \in Statement
      BY DEF Sound
    <2> QED
      BY <2>1, StatementLemma DEF TablesIn, TableName
  <1>2. CASE table \in q.builders[k].joined
    <2>1. Join(q, k, table, on) = q
      BY <1>2 DEF Join
    <2>2. q.builders[k].joined \subseteq TablesIn(q)
      BY DEF Sound
    <2> QED
      BY <1>2, <2>1, <2>2 DEF Grown
  <1>3. CASE table \notin q.builders[k].joined
    <2> DEFINE r == Joined(q, k, table, on)
               row == [table |-> table, on |-> on]
               b == [table |-> q.builders[k].table, joined |-> q.builders[k].joined \cup {table}]
    <2>1. Join(q, k, table, on) = r
      BY <1>1, <1>3, JoinIs
    <2>2. /\ r.base = q.base /\ r.where = q.where /\ r.joins = Append(q.joins, row)
          /\ r.builders = [q.builders EXCEPT ![k] = b]
      BY DEF Joined
    <2>3. row \in JoinRow /\ row.table = table /\ row.on = on
      BY <1>1 DEF JoinRow
    <2>4. /\ q.base \in Base /\ q.where \subseteq TableName /\ q.joins \in Seq(JoinRow)
          /\ q.builders \in Seq(Builder) /\ Len(q.builders) \in Nat
          /\ DOMAIN q.builders = 1 .. Len(q.builders)
          /\ q.builders[k].table \in Base /\ q.builders[k].joined \subseteq TableName
      BY <1>1, StatementLemma
    <2>5. b \in Builder /\ b.table = q.builders[k].table
          /\ b.joined = q.builders[k].joined \cup {table}
      BY <2>4 DEF Builder
    <2> HIDE DEF row, b
    <2>6. /\ [q.builders EXCEPT ![k] = b] \in Seq(Builder)
          /\ Len([q.builders EXCEPT ![k] = b]) = Len(q.builders)
          /\ \A j \in DOMAIN q.builders :
               [q.builders EXCEPT ![k] = b][j] = IF j = k THEN b ELSE q.builders[j]
      BY <2>4, <2>5
    <2>7. r \in Statement
      <3>1. Append(q.joins, row) \in Seq(JoinRow)
        BY <2>3, <2>4
      <3>2. r = [base |-> q.base, joins |-> Append(q.joins, row), where |-> q.where,
                 builders |-> [q.builders EXCEPT ![k] = b]]
        BY DEF Joined, row, b
      <3> QED
        BY <3>1, <3>2, <2>4, <2>6 DEF Statement
    <2> HIDE DEF r
    <2>8. /\ Len(r.joins) = Len(q.joins) + 1 /\ r.joins[Len(q.joins) + 1] = row
          /\ \A i \in DOMAIN q.joins : r.joins[i] = q.joins[i]
          /\ \A i \in DOMAIN q.joins : BeforeIn(r, i) = BeforeIn(q, i)
          /\ BeforeIn(r, Len(q.joins) + 1) = TablesIn(q)
          /\ TablesIn(r) = TablesIn(q) \cup {table}
      BY <1>1, <2>2, <2>3, <2>7, AppendTables
    <2>9. DOMAIN r.joins = DOMAIN q.joins \cup {Len(q.joins) + 1}
      <3>1. /\ DOMAIN q.joins = 1 .. Len(q.joins) /\ Len(q.joins) \in Nat
            /\ DOMAIN r.joins = 1 .. Len(r.joins)
        BY <1>1, <2>7, StatementLemma
      <3> QED
        BY <3>1, <2>8
    <2>10. /\ DOMAIN r.builders = DOMAIN q.builders /\ Len(r.builders) = Len(q.builders)
           /\ \A j \in DOMAIN q.builders :
                r.builders[j] = IF j = k THEN b ELSE q.builders[j]
      <3>1. DOMAIN r.builders = 1 .. Len(r.builders)
        BY <2>7, StatementLemma
      <3> QED
        BY <3>1, <2>2, <2>4, <2>6
    <2>11. \A i \in DOMAIN r.joins : r.joins[i].on \in BeforeIn(r, i)
      BY <2>3, <2>8, <2>9 DEF Sound
    <2>12. \A j \in DOMAIN r.builders : /\ r.builders[j].table \in TablesIn(r)
                                        /\ r.builders[j].joined \subseteq TablesIn(r)
      BY <2>5, <2>8, <2>10 DEF Sound
    <2>13. Sound(r)
      BY <2>2, <2>7, <2>8, <2>11, <2>12 DEF Sound
    <2>14. ASSUME q.builders[k].table # table, KnowsAll(q, k)
           PROVE  KnowsAll(r, k)
      <3>1. table \notin TablesIn(q)
        BY <1>3, <2>14 DEF KnowsAll
      <3>2. \A i \in DOMAIN r.joins : r.joins[i].table \notin BeforeIn(r, i)
        BY <2>3, <2>8, <2>9, <2>14, <3>1 DEF KnowsAll
      <3>3. TablesIn(r) \subseteq {r.builders[k].table} \cup r.builders[k].joined
        BY <2>5, <2>8, <2>10, <2>14 DEF KnowsAll
      <3> QED
        BY <3>2, <3>3 DEF KnowsAll
    <2> QED
      BY <2>1, <2>5, <2>8, <2>10, <2>13, <2>14 DEF Grown
  <1> QED
    BY <1>2, <1>3

(* Joining over the link table: nothing, or both tables.                   *)
LEMMA JoinOverLinkLemma ==
  ASSUME NEW q, Sound(q), NEW k \in DOMAIN q.builders,
         NEW table \in TableName, NEW from \in TablesIn(q)
  PROVE  LET r == JoinOverLink(q, k, table, from)
         IN  \/ table \in q.builders[k].joined /\ r = q
             \/ Grown(q, r, k, {"invoice_payment_submission", table})
  <1>1. CASE table \in q.builders[k].joined
    BY <1>1 DEF JoinOverLink
  <1>2. CASE table \notin q.builders[k].joined
    <2> DEFINE link == "invoice_payment_submission"
               s == Join(q, k, link, from)
               r == Join(s, k, table, link)
    <2>1. Grown(q, s, k, {link})
      <3>1. link \in TableName
        BY DEF TableName
      <3> QED
        BY <3>1, JoinLemma
    <2> HIDE DEF s
    <2>2. Sound(s) /\ link \in TablesIn(s)
      BY <2>1 DEF Grown
    <2>3. k \in DOMAIN s.builders
      <3>1. s \in Statement /\ q \in Statement
        BY <2>2 DEF Sound
      <3>2. DOMAIN s.builders = 1 .. Len(s.builders) /\ DOMAIN q.builders = 1 .. Len(q.builders)
        BY <3>1, StatementLemma
      <3> QED
        BY <3>2, <2>1 DEF Grown
    <2>4. Grown(s, r, k, {table})
      BY <2>2, <2>3, JoinLemma
    <2>5. JoinOverLink(q, k, table, from) = r
      BY <1>2 DEF JoinOverLink, s
    <2> HIDE DEF r
    <2>6. DOMAIN s.builders = DOMAIN q.builders
      <3>1. s \in Statement /\ q \in Statement
        BY <2>2 DEF Sound
      <3>2. DOMAIN s.builders = 1 .. Len(s.builders) /\ DOMAIN q.builders = 1 .. Len(q.builders)
        BY <3>1, StatementLemma
      <3> QED
        BY <3>2, <2>1 DEF Grown
    <2>7. Grown(q, r, k, {link, table})
      BY <2>1, <2>4, <2>6 DEF Grown
    <2> QED
      BY <2>5, <2>7
  <1> QED
    BY <1>1, <1>2
-----------------------------------------------------------------------------
(* What the calls do to a good statement.                                  *)

LEMMA BuildersLemma ==
  ASSUME NEW q, Sound(q)
  PROVE  /\ q \in Statement /\ Len(q.builders) \in Nat
         /\ DOMAIN q.builders = 1 .. Len(q.builders)
  <1>1. q \in Statement
    BY DEF Sound
  <1> QED
    BY <1>1, StatementLemma

LEMMA WhereLemma ==
  ASSUME NEW q, Good(q), NEW table \in TablesIn(q)
  PROVE  Good(Where(q, table))
  <1> DEFINE r == Where(q, table)
  <1>1. Sound(q) /\ q \in Statement
    BY DEF Good, Sound
  <1>2. table \in TableName
    BY <1>1, StatementLemma DEF TablesIn, TableName
  <1>3. r = [base |-> q.base, joins |-> q.joins, where |-> q.where \cup {table},
             builders |-> q.builders]
    <2> DEFINE where == q.where \cup {table}
    <2>1. r = [q EXCEPT !.where = where]
      BY DEF Where
    <2> HIDE DEF r, where
    <2>2. r = [base |-> q.base, joins |-> q.joins, where |-> where, builders |-> q.builders]
      BY <1>1, <2>1 DEF Statement
    <2> QED
      BY <2>2 DEF where
  <1>4. r \in Statement
    BY <1>1, <1>2, <1>3 DEF Statement
  <1>5. /\ r.base = q.base /\ r.joins = q.joins /\ r.builders = q.builders
        /\ r.where = q.where \cup {table}
    BY <1>3
  <1> HIDE DEF r
  <1>6. TablesIn(r) = TablesIn(q) /\ \A i : BeforeIn(r, i) = BeforeIn(q, i)
    BY <1>5 DEF TablesIn, BeforeIn
  <1>7. Sound(r)
    BY <1>1, <1>4, <1>5, <1>6 DEF Sound
  <1>8. ForInvoices(r) = ForInvoices(q) /\ \A k : KnowsAll(r, k) <=> KnowsAll(q, k)
    BY <1>5, <1>6 DEF ForInvoices, KnowsAll
  <1>9. OneKnows(r)
    BY <1>5, <1>8 DEF Good, OneKnows
  <1>10. Good(r)
    BY <1>5, <1>7, <1>9 DEF Good
  <1> QED
    BY <1>10 DEF r

(* The statement after builder k has joined tables: good, if the link is   *)
(* among them whenever the other side of it is.                            *)
LEMMA GrownLemma ==
  ASSUME NEW q, Good(q), NEW k \in DOMAIN q.builders, NEW r, NEW tables, Grown(q, r, k, tables),
         q.builders[k].table \notin tables, Linked(r.builders[k]),
         q.builders[k].table = "invoices"
  PROVE  Good(r) /\ ForInvoices(r) = ForInvoices(q)
  <1>1. Sound(q) /\ Sound(r)
    BY DEF Good, Grown
  <1>2. DOMAIN r.builders = DOMAIN q.builders
    BY <1>1, BuildersLemma DEF Grown
  <1>3. ForInvoices(r) = ForInvoices(q)
    BY <1>2 DEF ForInvoices, Grown
  <1>4. \A j \in DOMAIN r.builders : Linked(r.builders[j])
    BY <1>2 DEF Good, Grown
  <1>5. k \in ForInvoices(q)
    BY DEF ForInvoices
  <1>6. ASSUME NEW j, ForInvoices(r) = {j}
        PROVE  KnowsAll(r, j)
    <2>1. j = k
      BY <1>3, <1>5, <1>6
    <2>2. KnowsAll(q, k)
      BY <1>3, <1>6, <2>1 DEF Good, OneKnows
    <2> QED
      BY <2>1, <2>2 DEF Grown
  <1>7. OneKnows(r)
    BY <1>3, <1>5, <1>6 DEF OneKnows
  <1> QED
    BY <1>1, <1>3, <1>4, <1>7 DEF Good

(* Handing out one more builder.                                           *)
LEMMA HandOutLemma ==
  ASSUME NEW q, Sound(q), NEW table \in Base, NEW joined,
         {table} \cup joined \subseteq TablesIn(q)
  PROVE  LET r == HandOut(q, table, joined)
         IN  /\ Sound(r) /\ TablesIn(r) = TablesIn(q)
             /\ \A i : BeforeIn(r, i) = BeforeIn(q, i)
             /\ r.joins = q.joins
             /\ Len(r.builders) = Len(q.builders) + 1
             /\ \A j \in DOMAIN q.builders : r.builders[j] = q.builders[j]
             /\ r.builders[Len(q.builders) + 1] = [table |-> table, joined |-> joined]
  <1> DEFINE r == HandOut(q, table, joined)
             b == [table |-> table, joined |-> joined]
  <1>1. /\ q \in Statement /\ Len(q.builders) \in Nat
        /\ DOMAIN q.builders = 1 .. Len(q.builders)
    BY BuildersLemma
  <1>2. q.base \in Base /\ q.builders \in Seq(Builder)
    BY <1>1, StatementLemma
  <1>3. TablesIn(q) \subseteq TableName
    BY <1>1, StatementLemma DEF TablesIn, TableName
  <1>4. b \in Builder
    BY <1>3 DEF Builder
  <1> HIDE DEF b
  <1>5. r = [base |-> q.base, joins |-> q.joins, where |-> q.where,
             builders |-> Append(q.builders, b)]
    <2> DEFINE builders == Append(q.builders, b)
    <2>1. r = [q EXCEPT !.builders = builders]
      BY DEF HandOut, b
    <2> HIDE DEF r, builders
    <2>2. r = [base |-> q.base, joins |-> q.joins, where |-> q.where, builders |-> builders]
      BY <1>1, <2>1 DEF Statement
    <2> QED
      BY <2>2 DEF builders
  <1>6. r \in Statement
    <2>1. Append(q.builders, b) \in Seq(Builder)
      BY <1>2, <1>4
    <2> QED
      BY <1>1, <1>5, <2>1 DEF Statement
  <1>7. /\ r.base = q.base /\ r.joins = q.joins /\ r.where = q.where
        /\ r.builders = Append(q.builders, b)
    BY <1>5
  <1> HIDE DEF r
  <1>8. /\ Len(r.builders) = Len(q.builders) + 1
        /\ \A j \in DOMAIN q.builders : r.builders[j] = q.builders[j]
        /\ r.builders[Len(q.builders) + 1] = b
    BY <1>1, <1>2, <1>4, <1>7
  <1>9. TablesIn(r) = TablesIn(q) /\ \A i : BeforeIn(r, i) = BeforeIn(q, i)
    BY <1>7 DEF TablesIn, BeforeIn
  <1>10. DOMAIN r.builders = DOMAIN q.builders \cup {Len(q.builders) + 1}
    <2>1. DOMAIN r.builders = 1 .. Len(r.builders)
      BY <1>6, StatementLemma
    <2> QED
      BY <1>1, <1>8, <2>1
  <1>11. b.table = table /\ b.joined = joined
    BY DEF b
  <1>12. Sound(r)
    BY <1>6, <1>7, <1>8, <1>9, <1>10, <1>11 DEF Sound
  <1> QED
    BY <1>7, <1>8, <1>9, <1>12 DEF b, r

(* A builder for another table, handed out by one for invoices.            *)
LEMMA HandOutOther ==
  ASSUME NEW q, Good(q), NEW k \in ForInvoices(q), NEW table \in Base \ {"invoices"}, NEW joined,
         {table} \cup joined \subseteq TablesIn(q), Linked([table |-> table, joined |-> joined])
  PROVE  Good(HandOut(q, table, joined))
  <1> DEFINE r == HandOut(q, table, joined)
             b == [table |-> table, joined |-> joined]
  <1>1. Sound(q)
    BY DEF Good
  <1>2. /\ Sound(r) /\ TablesIn(r) = TablesIn(q)
        /\ \A i : BeforeIn(r, i) = BeforeIn(q, i)
        /\ r.joins = q.joins
        /\ Len(r.builders) = Len(q.builders) + 1
        /\ \A j \in DOMAIN q.builders : r.builders[j] = q.builders[j]
        /\ r.builders[Len(q.builders) + 1] = b
    BY <1>1, HandOutLemma
  <1> HIDE DEF r
  <1>3. DOMAIN r.builders = DOMAIN q.builders \cup {Len(q.builders) + 1}
        /\ Len(q.builders) + 1 \notin DOMAIN q.builders
    BY <1>1, <1>2, BuildersLemma
  <1>4. b.table # "invoices"
    OBVIOUS
  <1>5. Linked(b)
    OBVIOUS
  <1> HIDE DEF b
  <1>6. ForInvoices(r) = ForInvoices(q)
    BY <1>2, <1>3, <1>4 DEF ForInvoices
  <1>7. \A j \in DOMAIN q.builders : KnowsAll(q, j) => KnowsAll(r, j)
    BY <1>2 DEF KnowsAll
  <1>8. OneKnows(r)
    <2>1. ForInvoices(q) # {} /\ ForInvoices(q) \subseteq DOMAIN q.builders
      BY DEF ForInvoices
    <2> QED
      BY <1>6, <1>7, <2>1 DEF Good, OneKnows
  <1>9. \A j \in DOMAIN r.builders : Linked(r.builders[j])
    BY <1>2, <1>3, <1>5 DEF Good
  <1> QED
    BY <1>2, <1>8, <1>9 DEF Good, r

(* A builder for invoices, handed out by builder k, which joined tables    *)
(* of which the new one is told: if it is the only one, these are all.     *)
LEMMA HandOutInvoices ==
  ASSUME NEW q, Good(q), NEW k \in DOMAIN q.builders, NEW r, NEW tables,
         Grown(q, r, k, tables) \/ (r = q /\ "invoices" \in q.builders[k].joined),
         q.builders[k].table \notin tables \cup {"invoices"},
         Linked(r.builders[k]), NEW joined,
         Linked([table |-> "invoices", joined |-> joined]),
         {"invoices"} \cup joined \subseteq TablesIn(r),
         tables \cup {q.builders[k].table} \subseteq {"invoices"} \cup joined
  PROVE  Good(HandOut(r, "invoices", joined))
  <1> DEFINE s == HandOut(r, "invoices", joined)
             b == [table |-> "invoices", joined |-> joined]
             new == Len(q.builders) + 1
  <1>1. Sound(q) /\ Sound(r)
    BY DEF Good, Grown
  <1>2. /\ Len(r.builders) = Len(q.builders)
        /\ \A j \in DOMAIN q.builders : r.builders[j].table = q.builders[j].table
        /\ \A j \in DOMAIN q.builders : Linked(r.builders[j])
    BY DEF Good, Grown
  <1>3. /\ Sound(s) /\ TablesIn(s) = TablesIn(r)
        /\ \A i : BeforeIn(s, i) = BeforeIn(r, i)
        /\ s.joins = r.joins
        /\ Len(s.builders) = Len(r.builders) + 1
        /\ \A j \in DOMAIN r.builders : s.builders[j] = r.builders[j]
        /\ s.builders[Len(r.builders) + 1] = b
    <2>1. "invoices" \in Base
      BY DEF Base
    <2> QED
      BY <1>1, <2>1, HandOutLemma
  <1> HIDE DEF s
  <1>4. /\ DOMAIN s.builders = DOMAIN q.builders \cup {new} /\ new \notin DOMAIN q.builders
        /\ DOMAIN r.builders = DOMAIN q.builders
        /\ DOMAIN q.builders = 1 .. Len(q.builders) /\ Len(q.builders) \in Nat
    BY <1>1, <1>2, <1>3, BuildersLemma
  <1>5. b.table = "invoices" /\ b.joined = joined /\ Linked(b)
    OBVIOUS
  <1> HIDE DEF b, new
  <1>6. s.builders[new] = b
    BY <1>2, <1>3 DEF new
  <1>7. ForInvoices(s) = ForInvoices(q) \cup {new}
    BY <1>2, <1>3, <1>4, <1>5, <1>6 DEF ForInvoices
  <1>8. ASSUME ForInvoices(q) = {}
        PROVE  KnowsAll(s, new)
    <2>1. Len(q.builders) = 1 /\ q.builders[1].joined = {} /\ KnowsAll(q, 1)
      BY <1>8 DEF Good, OneKnows
    <2>2. k = 1
      BY <2>1, <1>4
    <2>3. Grown(q, r, k, tables)
      BY <2>1, <2>2
    <2>4. KnowsAll(r, k)
      BY <2>1, <2>2, <2>3 DEF Grown
    <2>5. r.builders[k].joined = tables /\ r.builders[k].table = q.builders[k].table
      BY <2>1, <2>2, <2>3 DEF Grown
    <2>6. TablesIn(s) \subseteq {s.builders[new].table} \cup s.builders[new].joined
      BY <1>3, <1>5, <1>6, <2>4, <2>5 DEF KnowsAll
    <2>7. \A i \in DOMAIN s.joins : s.joins[i].table \notin BeforeIn(s, i)
      BY <1>3, <2>4 DEF KnowsAll
    <2> QED
      BY <2>6, <2>7 DEF KnowsAll
  <1>9. ForInvoices(q) \subseteq DOMAIN q.builders
    BY DEF ForInvoices
  <1>10. ASSUME NEW j, ForInvoices(s) = {j}
         PROVE  KnowsAll(s, j)
    <2>1. j = new /\ ForInvoices(q) = {}
      BY <1>4, <1>7, <1>9, <1>10
    <2> QED
      BY <1>8, <2>1
  <1>11. OneKnows(s)
    BY <1>7, <1>10 DEF OneKnows
  <1>12. \A j \in DOMAIN s.builders : Linked(s.builders[j])
    BY <1>2, <1>3, <1>4, <1>5, <1>6
  <1> QED
    BY <1>3, <1>11, <1>12 DEF Good, s
-----------------------------------------------------------------------------
(* The actions, one by one.                                                *)

LEMMA InitLemma ==
  ASSUME NEW base \in Base
  PROVE  Good(NewQuery(base))
  <1> DEFINE q == NewQuery(base)
             b == [table |-> base, joined |-> {}]
  <1>1. /\ q.base = base /\ q.joins = << >> /\ q.where = {} /\ q.builders = << b >>
        /\ q = [base |-> base, joins |-> << >>, where |-> {}, builders |-> << b >>]
    BY DEF NewQuery
  <1>2. b \in Builder /\ b.table = base /\ b.joined = {}
    BY DEF Builder
  <1> HIDE DEF q, b
  <1>3. /\ Len(q.builders) = 1 /\ DOMAIN q.builders = {1} /\ q.builders[1] = b
        /\ DOMAIN q.joins = {} /\ << b >> \in Seq(Builder)
    BY <1>1, <1>2
  <1>4. q \in Statement
    BY <1>1, <1>3 DEF Statement
  <1>5. TablesIn(q) = {base}
    BY <1>1, <1>3 DEF TablesIn
  <1>6. Sound(q)
    BY <1>1, <1>2, <1>3, <1>4, <1>5 DEF Sound
  <1>7. KnowsAll(q, 1)
    BY <1>2, <1>3, <1>5 DEF KnowsAll
  <1>8. OneKnows(q)
    <2>1. ForInvoices(q) \subseteq {1}
      BY <1>3 DEF ForInvoices
    <2> QED
      BY <1>2, <1>3, <1>7, <2>1 DEF OneKnows
  <1>9. \A k \in DOMAIN q.builders : Linked(q.builders[k])
    BY <1>2, <1>3 DEF Linked
  <1>10. Good(q)
    BY <1>6, <1>8, <1>9 DEF Good
  <1> QED
    BY <1>10 DEF q

LEMMA OwnTable ==
  ASSUME NEW q, Good(q), NEW k \in DOMAIN q.builders
  PROVE  q.builders[k].table \in TablesIn(q)
  BY DEF Good, Sound

(* A builder for invoices joins a team or the histories.                   *)
LEMMA JoinGood ==
  ASSUME NEW q, Good(q), NEW k \in DOMAIN q.builders, q.builders[k].table = "invoices",
         NEW table \in {"from_team", "to_team", "payment_histories"}
  PROVE  LET r == Join(q, k, table, "invoices")
         IN  /\ Good(r) /\ k \in ForInvoices(r)
             /\ {"invoices", table} \subseteq TablesIn(r)
  <1> DEFINE r == Join(q, k, table, "invoices")
  <1>1. Sound(q) /\ table \in TableName /\ "invoices" \in TablesIn(q)
    BY OwnTable DEF Good, TableName, Base
  <1>2. Grown(q, r, k, {table})
    BY <1>1, JoinLemma
  <1> HIDE DEF r
  <1>3. Linked(q.builders[k]) /\ k \in ForInvoices(q)
    BY DEF Good, ForInvoices
  <1>4. Linked(r.builders[k])
    BY <1>2, <1>3 DEF Grown, Linked
  <1>5. Good(r) /\ ForInvoices(r) = ForInvoices(q)
    BY <1>2, <1>4, GrownLemma
  <1>6. {"invoices", table} \subseteq TablesIn(r)
    BY <1>1, <1>2 DEF Grown
  <1> QED
    BY <1>3, <1>5, <1>6 DEF r

LEMMA FilterGood ==
  ASSUME Good(query), NEW k \in DOMAIN query.builders, Filter(k)
  PROVE  Good(query')
  <1>1. query.builders[k].table \in TablesIn(query)
    BY OwnTable
  <1> QED
    BY <1>1, WhereLemma DEF Filter

LEMMA JoinTeamGood ==
  ASSUME Good(query), NEW k \in DOMAIN query.builders, NEW team \in {"from_team", "to_team"},
         JoinTeam(k, team) \/ TeamType(k, team)
  PROVE  Good(query')
  <1> DEFINE r == Join(query, k, team, "invoices")
  <1>1. Good(r) /\ team \in TablesIn(r)
    BY JoinGood DEF JoinTeam, TeamType, Is
  <1>2. query' = r \/ query' = Where(r, team)
    BY DEF JoinTeam, TeamType
  <1> HIDE DEF r
  <1> QED
    BY <1>1, <1>2, WhereLemma

LEMMA JoinHistoriesGood ==
  ASSUME Good(query), NEW k \in DOMAIN query.builders, JoinPaymentHistories(k)
  PROVE  Good(query')
  <1> DEFINE r == Join(query, k, "payment_histories", "invoices")
  <1>1. /\ Good(r) /\ k \in ForInvoices(r)
        /\ {"invoices", "payment_histories"} \subseteq TablesIn(r)
    BY JoinGood DEF JoinPaymentHistories, HandsOut, Is
  <1>2. query' = HandOut(r, "payment_histories", {"invoices"})
    BY DEF JoinPaymentHistories
  <1> HIDE DEF r
  <1>3. Linked([table |-> "payment_histories", joined |-> {"invoices"}])
    BY DEF Linked
  <1>4. "payment_histories" \in Base \ {"invoices"}
    BY DEF Base
  <1> QED
    BY <1>1, <1>2, <1>3, <1>4, HandOutOther

LEMMA JoinSubmissionGood ==
  ASSUME Good(query), NEW k \in DOMAIN query.builders, JoinPaymentSubmission(k)
  PROVE  Good(query')
  <1> DEFINE link == "invoice_payment_submission"
             other == "payment_submissions"
             r == JoinOverLink(query, k, other, "invoices")
  <1>1. query.builders[k].table = "invoices" /\ query' = HandOut(r, other, {"invoices", link})
    BY DEF JoinPaymentSubmission, HandsOut, Is
  <1>2. /\ Sound(query) /\ Linked(query.builders[k]) /\ k \in ForInvoices(query)
        /\ "invoices" \in TablesIn(query) /\ other \in TableName
    BY <1>1, OwnTable DEF Good, ForInvoices, TableName, Base
  <1>3. \/ other \in query.builders[k].joined /\ r = query
        \/ Grown(query, r, k, {link, other})
    BY <1>2, JoinOverLinkLemma
  <1> HIDE DEF r
  <1>4. Good(r) /\ k \in ForInvoices(r) /\ {"invoices", link, other} \subseteq TablesIn(r)
    <2>1. CASE other \in query.builders[k].joined /\ r = query
      <3>1. link \in query.builders[k].joined
        BY <1>1, <1>2, <2>1 DEF Linked
      <3>2. query.builders[k].joined \subseteq TablesIn(query)
        BY <1>2 DEF Sound
      <3> QED
        BY <1>2, <2>1, <3>1, <3>2
    <2>2. CASE Grown(query, r, k, {link, other})
      <3>1. Linked(r.builders[k])
        BY <1>1, <2>2 DEF Grown, Linked
      <3>2. Good(r) /\ ForInvoices(r) = ForInvoices(query)
        BY <1>1, <2>2, <3>1, GrownLemma
      <3> QED
        BY <1>2, <2>2, <3>2 DEF Grown
    <2> QED
      BY <1>3, <2>1, <2>2
  <1>5. Linked([table |-> other, joined |-> {"invoices", link}])
    BY DEF Linked
  <1>6. other \in Base \ {"invoices"}
    BY DEF Base
  <1> QED
    BY <1>1, <1>4, <1>5, <1>6, HandOutOther

LEMMA JoinInvoiceGood ==
  ASSUME Good(query), NEW k \in DOMAIN query.builders, JoinInvoice(k)
  PROVE  Good(query')
  <1> DEFINE link == "invoice_payment_submission"
             own == "payment_submissions"
             r == JoinOverLink(query, k, "invoices", own)
  <1>1. query.builders[k].table = own /\ query' = HandOut(r, "invoices", {link, own})
    BY DEF JoinInvoice, HandsOut, Is
  <1>2. /\ Sound(query) /\ Linked(query.builders[k])
        /\ own \in TablesIn(query) /\ "invoices" \in TableName
    BY <1>1, OwnTable DEF Good, TableName, Base
  <1>3. \/ "invoices" \in query.builders[k].joined /\ r = query
        \/ Grown(query, r, k, {link, "invoices"})
    BY <1>2, JoinOverLinkLemma
  <1> HIDE DEF r
  <1>4. Linked([table |-> "invoices", joined |-> {link, own}])
    BY DEF Linked
  <1>5. CASE "invoices" \in query.builders[k].joined /\ r = query
    <2>1. link \in query.builders[k].joined
      BY <1>1, <1>2, <1>5 DEF Linked
    <2>2. query.builders[k].joined \subseteq TablesIn(query)
      BY <1>2 DEF Sound
    <2> QED
      BY <1>1, <1>2, <1>4, <1>5, <2>1, <2>2, HandOutInvoices
  <1>6. CASE Grown(query, r, k, {link, "invoices"})
    <2>1. Linked(r.builders[k])
      BY <1>1, <1>6 DEF Grown, Linked
    <2>2. {"invoices"} \cup {link, own} \subseteq TablesIn(r)
      BY <1>2, <1>6 DEF Grown
    <2> QED
      BY <1>1, <1>4, <1>6, <2>1, <2>2, HandOutInvoices
  <1> QED
    BY <1>3, <1>5, <1>6

LEMMA JoinInvoiceOfHistoryGood ==
  ASSUME Good(query), NEW k \in DOMAIN query.builders, JoinInvoiceOfHistory(k)
  PROVE  Good(query')
  <1> DEFINE own == "payment_histories"
             r == Join(query, k, "invoices", own)
  <1>1. query.builders[k].table = own /\ query' = HandOut(r, "invoices", {own})
    BY DEF JoinInvoiceOfHistory, HandsOut, Is
  <1>2. Sound(query) /\ own \in TablesIn(query) /\ "invoices" \in TableName
    BY <1>1, OwnTable DEF Good, TableName, Base
  <1>3. Grown(query, r, k, {"invoices"})
    BY <1>2, JoinLemma
  <1> HIDE DEF r
  <1>4. Linked([table |-> "invoices", joined |-> {own}])
    BY DEF Linked
  <1>5. Linked(r.builders[k])
    BY <1>1, <1>3 DEF Grown, Linked
  <1>6. {"invoices"} \cup {own} \subseteq TablesIn(r)
    BY <1>2, <1>3 DEF Grown
  <1> QED
    BY <1>1, <1>3, <1>4, <1>5, <1>6, HandOutInvoices
-----------------------------------------------------------------------------
(* Whatever is called on whichever builder, the statement stays good.      *)
THEOREM QueryInvariant == QuerySpec => []QueryInv
  <1>1. QueryInit => QueryInv
    BY InitLemma DEF QueryInit, QueryInv
  <1>2. QueryInv /\ [QueryNext]_query => QueryInv'
    <2> SUFFICES ASSUME Good(query), [QueryNext]_query
                 PROVE  Good(query')
      BY DEF QueryInv
    <2>1. CASE UNCHANGED query
      BY <2>1
    <2>2. CASE QueryNext
      <3>1. PICK k \in DOMAIN query.builders :
              \/ Filter(k)
              \/ \E team \in {"from_team", "to_team"} : JoinTeam(k, team) \/ TeamType(k, team)
              \/ JoinPaymentSubmission(k) \/ JoinPaymentHistories(k)
              \/ JoinInvoice(k) \/ JoinInvoiceOfHistory(k)
        BY <2>2 DEF QueryNext
      <3> QED
        BY <3>1, FilterGood, JoinTeamGood, JoinSubmissionGood, JoinHistoriesGood,
           JoinInvoiceGood, JoinInvoiceOfHistoryGood
    <2> QED
      BY <2>1, <2>2
  <1> QED
    BY <1>1, <1>2, PTL DEF QuerySpec

(* Every join, condition and flag of a builder is about a table that the   *)
(* statement of invoice_query has, and no table is joined twice while one  *)
(* builder for invoices is in use, however many builders are handed out.   *)
THEOREM QueryJoinsSound == QuerySpec => []JoinsSound
  <1>1. QueryInv => JoinsSound
    <2> SUFFICES ASSUME Good(query)
                 PROVE  JoinsSound
      BY DEF QueryInv
    <2>1. /\ Sound(query) /\ OneKnows(query) /\ Len(query.builders) \in Nat
          /\ DOMAIN query.builders = 1 .. Len(query.builders)
      BY BuildersLemma DEF Good
    <2>2. \A i : Before(i) = BeforeIn(query, i)
      BY DEF Before, BeforeIn
    <2>3. Tables = TablesIn(query)
      <3>1. DOMAIN query.joins = 1 .. Len(query.joins) /\ Len(query.joins) \in Nat
        BY <2>1, StatementLemma DEF Sound
      <3>2. {n \in DOMAIN query.joins : n < Len(query.joins) + 1} = DOMAIN query.joins
        BY <3>1
      <3> QED
        BY <3>2 DEF Tables, Before, TablesIn
    <2>4. {k \in DOMAIN query.builders : Is(k, "invoices")} = ForInvoices(query)
      BY DEF Is, ForInvoices
    <2>5. ASSUME Cardinality(ForInvoices(query)) <= 1
          PROVE  \A i \in DOMAIN query.joins : query.joins[i].table \notin Before(i)
      <3>1. IsFiniteSet(ForInvoices(query)) /\ Cardinality(ForInvoices(query)) \in Nat
        <4>1. IsFiniteSet(1 .. Len(query.builders))
          BY <2>1, FS_Interval
        <4> QED
          BY <2>1, <4>1, FS_Subset, FS_CardinalityType DEF ForInvoices
      <3>2. \E k : KnowsAll(query, k)
        <4>1. CASE ForInvoices(query) = {}
          BY <2>1, <4>1 DEF OneKnows
        <4>2. CASE ForInvoices(query) # {}
          <5>1. \E k : ForInvoices(query) = {k}
            <6>1. Cardinality(ForInvoices(query)) = 1
              BY <2>5, <3>1, <4>2, FS_EmptySet
            <6> QED
              BY <3>1, <6>1, FS_Singleton
          <5> QED
            BY <2>1, <5>1 DEF OneKnows
        <4> QED
          BY <4>1, <4>2
      <3> QED
        BY <2>2, <3>2 DEF KnowsAll
    <2>6. \A k \in DOMAIN query.builders :
            {query.builders[k].table} \cup query.builders[k].joined \subseteq Tables
      BY <2>1, <2>3 DEF Sound
    <2>7. query.where \subseteq Tables
          /\ \A i \in DOMAIN query.joins : query.joins[i].on \in Before(i)
      BY <2>1, <2>2, <2>3 DEF Sound
    <2> QED
      BY <2>4, <2>5, <2>6, <2>7 DEF JoinsSound
  <1> QED
    BY <1>1, QueryInvariant, PTL
=============================================================================
