------------------------- MODULE ReceivablesProofs --------------------------
(***************************************************************************)
(* Theorems about accounts receivable, for every set of invoices, credit   *)
(* notes, bank transactions and sessions, and all amounts.                 *)
(***************************************************************************)
EXTENDS Receivables, SumTheorems, TLAPS

\* What kind of call is open is told by its op.
LEMMA CallKinds ==
  ASSUME TypeOK, NEW s \in Sessions, call[s] # Nothing
  PROVE  /\ call[s].op \in {"settle", "checked"} => call[s] \in Settlement
         /\ call[s].op = "credit" => call[s] \in Crediting
         /\ call[s].op = "void" => call[s] \in Voiding
BY DEF TypeOK, Settlement, Crediting, Voiding

\* A call that begins makes nothing but rows contended.
LEMMA BeginType ==
  ASSUME TypeOK, NEW s \in Sessions, NEW c \in Settlement \cup Crediting \cup Voiding,
         About(c) \subseteq Invoices \cup BankTxns \cup {Nothing},
         Begin(s, c), UNCHANGED openItems
  PROVE  TypeOK'
<1>1. call' \in [Sessions -> Settlement \cup Crediting \cup Voiding \cup {Nothing}]
  BY DEF TypeOK, Begin
<1>2. contended' \subseteq Invoices \cup BankTxns
  BY DEF TypeOK, Begin
<1>3. QED
  BY <1>1, <1>2 DEF TypeOK, openItems

\* A payment keeps the rows of an invoice well typed.
LEMMA PayType ==
  ASSUME TypeOK, NEW i \in Invoices, NEW read \in Nat, NEW amount \in Nat,
         Pay(i, read, amount)
  PROVE  /\ paid' \in [Invoices -> Nat]
         /\ status' \in [Invoices -> Statuses]
         /\ rows' \in [Invoices -> Nat]
BY DEF TypeOK, Pay, Statuses

\* What a credit note applies is a number, no more than the note or than
\* was outstanding, as read.
LEMMA AppliedFits ==
  ASSUME NEW c \in Crediting, c.inv # Nothing => c.paid <= Grand[c.inv]
  PROVE  /\ Applied(c) \in Nat
         /\ Applied(c) <= c.amount
         /\ Applied(c) > 0 => c.inv \in Invoices /\ c.paid + Applied(c) <= Grand[c.inv]
<1>1. c.amount \in Nat /\ c.paid \in Nat /\ c.inv \in Invoices \cup {Nothing}
  BY DEF Crediting
<1>2. c.inv # Nothing => Grand[c.inv] \in Nat
  BY <1>1, ReceivablesAssumption
<1>3. QED
  BY <1>1, <1>2 DEF Applied

-----------------------------------------------------------------------------
(***************************************************************************)
(* What a call has read stays good enough to write from: amounts never     *)
(* shrink the total, so a payment that fitted what was outstanding when it *)
(* was read fits whatever it overwrites.                                   *)
(***************************************************************************)
ReadsFit ==
  \A s \in Sessions : call[s] # Nothing =>
    /\ call[s].op \in {"settle", "checked"} =>
         call[s].amount > 0 /\ call[s].paid + call[s].amount <= Grand[call[s].inv]
    /\ call[s].op = "credit" /\ call[s].inv # Nothing =>
         call[s].paid <= Grand[call[s].inv]

AmountInv == TypeOK /\ StatusMatchesAmount /\ ReadsFit

\* A payment that fits leaves status and amount in agreement.
LEMMA PayMatches ==
  ASSUME TypeOK, StatusMatchesAmount,
         NEW i \in Invoices, NEW read \in Nat, NEW amount \in Nat \ {0},
         read + amount <= Grand[i], Pay(i, read, amount)
  PROVE  StatusMatchesAmount'
<1>1. Grand[i] \in Nat
  BY ReceivablesAssumption
<1>2. \A x \in Invoices \ {i} : paid'[x] = paid[x] /\ status'[x] = status[x]
  BY DEF TypeOK, Pay
<1>3. /\ paid'[i] = read + amount
      /\ status'[i] = IF read + amount >= Grand[i] THEN "paid" ELSE "partially_paid"
  BY DEF TypeOK, Pay
<1>4. QED
  BY <1>1, <1>2, <1>3 DEF StatusMatchesAmount

LEMMA AmountInvInductive ==
  ASSUME AmountInv, [Next]_vars PROVE AmountInv'
<1> USE ReceivablesAssumption
<1>0. TypeOK /\ StatusMatchesAmount /\ ReadsFit
  BY DEF AmountInv
<1>1. ASSUME NEW i \in Invoices, SendInvoice(i) PROVE AmountInv'
  <2>1. TypeOK'
    BY <1>0, <1>1 DEF SendInvoice, TypeOK, Statuses
  <2>2. StatusMatchesAmount'
    BY <1>0, <1>1 DEF SendInvoice, TypeOK, StatusMatchesAmount
  <2>3. ReadsFit'
    BY <1>0, <1>1 DEF SendInvoice, ReadsFit
  <2>4. QED
    BY <2>1, <2>2, <2>3 DEF AmountInv
<1>2. ASSUME NEW s \in Sessions, SettleReads(s) PROVE AmountInv'
  <2>1. PICK i \in Invoices, amount \in Amounts, t \in BankTxns \cup {Nothing} :
          /\ amount <= Grand[i] - paid[i]
          /\ Begin(s, [op |-> "settle", inv |-> i, amount |-> amount, txn |-> t,
                       paid |-> paid[i]])
    BY <1>2 DEF SettleReads
  <2> DEFINE c == [op |-> "settle", inv |-> i, amount |-> amount, txn |-> t, paid |-> paid[i]]
  <2>2. /\ amount \in Nat /\ amount > 0 /\ paid[i] \in Nat /\ Grand[i] \in Nat
        /\ UNCHANGED openItems
    BY <1>0, <1>2 DEF TypeOK, SettleReads
  <2>3. TypeOK'
    <3>1. c \in Settlement /\ About(c) \subseteq Invoices \cup BankTxns \cup {Nothing}
      BY <2>2 DEF Settlement, About
    <3>2. QED
      BY <1>0, <2>1, <2>2, <3>1, BeginType
  <2>4. ReadsFit'
    BY <1>0, <2>1, <2>2 DEF ReadsFit, TypeOK, Begin
  <2>5. QED
    BY <1>0, <2>2, <2>3, <2>4 DEF AmountInv, StatusMatchesAmount, openItems
<1>3. ASSUME NEW s \in Sessions, SettleChecks(s) PROVE AmountInv'
  <2>1. /\ call[s] \in Settlement /\ call[s] # Nothing /\ call[s].op = "settle"
        /\ call' = [call EXCEPT ![s] = [call[s] EXCEPT !.op = "checked"]]
        /\ UNCHANGED <<openItems, contended>>
    BY <1>0, <1>3, CallKinds DEF SettleChecks
  <2>2. call'[s] = [call[s] EXCEPT !.op = "checked"] /\ call'[s] \in Settlement
    BY <1>0, <2>1 DEF TypeOK, Settlement
  <2>3. TypeOK'
    BY <1>0, <2>1, <2>2 DEF TypeOK, openItems
  <2>4. ReadsFit'
    <3>1. /\ call'[s].op = "checked" /\ call'[s].amount = call[s].amount
          /\ call'[s].paid = call[s].paid /\ call'[s].inv = call[s].inv
      BY <2>1, <2>2 DEF Settlement
    <3>2. \A r \in Sessions \ {s} : call'[r] = call[r]
      BY <1>0, <2>1 DEF TypeOK
    <3>3. QED
      BY <1>0, <2>1, <3>1, <3>2 DEF ReadsFit
  <2>5. QED
    BY <1>0, <2>1, <2>3, <2>4 DEF AmountInv, StatusMatchesAmount, openItems
<1>4. ASSUME NEW s \in Sessions, SettleCommits(s) PROVE AmountInv'
  <2>1. /\ call[s] \in Settlement /\ call[s] # Nothing /\ call[s].op = "checked"
        /\ Pay(call[s].inv, call[s].paid, call[s].amount)
    BY <1>0, <1>4, CallKinds DEF SettleCommits
  <2>2. /\ call[s].inv \in Invoices /\ call[s].paid \in Nat /\ call[s].amount \in Nat \ {0}
        /\ call[s].paid + call[s].amount <= Grand[call[s].inv]
    BY <1>0, <2>1 DEF Settlement, ReadsFit
  <2>3. StatusMatchesAmount'
    BY <1>0, <2>1, <2>2, PayMatches
  <2>4. settled' \in [BankTxns -> Nat] /\ ledger' \in Int
    BY <1>0, <1>4, <2>2 DEF SettleCommits, TypeOK
  <2>5. TypeOK'
    BY <1>0, <1>4, <2>1, <2>2, <2>4, PayType DEF SettleCommits, End, TypeOK
  <2>6. ReadsFit'
    BY <1>0, <1>4 DEF SettleCommits, End, ReadsFit, TypeOK
  <2>7. QED
    BY <2>3, <2>5, <2>6 DEF AmountInv
<1>5. ASSUME NEW s \in Sessions, CreditReads(s) PROVE AmountInv'
  <2>1. PICK c \in Notes, amount \in Amounts,
             i \in {x \in Invoices : status[x] \in Settleable} \cup {Nothing} :
          Begin(s, [op |-> "credit", inv |-> i, amount |-> amount, note |-> c,
                    paid |-> IF i = Nothing THEN 0 ELSE paid[i]])
    BY <1>5 DEF CreditReads
  <2> DEFINE d == [op |-> "credit", inv |-> i, amount |-> amount, note |-> c,
                   paid |-> IF i = Nothing THEN 0 ELSE paid[i]]
  <2>2. UNCHANGED openItems
    BY <1>5 DEF CreditReads
  <2>3. /\ d \in Crediting /\ d.op = "credit"
        /\ d.inv # Nothing => d.paid <= Grand[d.inv]
        /\ About(d) \subseteq Invoices \cup BankTxns \cup {Nothing}
    BY <1>0 DEF TypeOK, Crediting, StatusMatchesAmount, About
  <2>4. call'[s] = d /\ \A r \in Sessions \ {s} : call'[r] = call[r]
    BY <1>0, <2>1 DEF TypeOK, Begin
  <2>5. TypeOK'
    BY <1>0, <2>1, <2>2, <2>3, BeginType
  <2>6. ReadsFit'
    BY <1>0, <2>3, <2>4 DEF ReadsFit
  <2>7. QED
    BY <1>0, <2>2, <2>5, <2>6 DEF AmountInv, StatusMatchesAmount, openItems
<1>6. ASSUME NEW s \in Sessions, CreditCommits(s) PROVE AmountInv'
  <2> DEFINE c == call[s]
  <2>1. c \in Crediting /\ c # Nothing /\ c.op = "credit"
    BY <1>0, <1>6, CallKinds DEF CreditCommits
  <2>2. c.amount \in Nat /\ c.paid \in Nat /\ c.note \in Notes
    BY <2>1 DEF Crediting
  <2>3. /\ Applied(c) \in Nat
        /\ Applied(c) > 0 => c.inv \in Invoices /\ c.paid + Applied(c) <= Grand[c.inv]
    BY <1>0, <2>1, AppliedFits DEF ReadsFit
  <2>4. /\ paid' \in [Invoices -> Nat] /\ status' \in [Invoices -> Statuses]
        /\ rows' \in [Invoices -> Nat] /\ StatusMatchesAmount'
    <3>1. CASE Applied(c) > 0
      <4>1. Pay(c.inv, c.paid, Applied(c)) /\ Applied(c) \in Nat \ {0}
        BY <1>6, <2>3, <3>1 DEF CreditCommits
      <4>2. QED
        BY <1>0, <2>2, <2>3, <3>1, <4>1, PayType, PayMatches
    <3>2. CASE ~(Applied(c) > 0)
      BY <1>0, <1>6, <3>2 DEF CreditCommits, TypeOK, StatusMatchesAmount
    <3>3. QED
      BY <3>1, <3>2
  <2>5. TypeOK'
    <3>1. note' \in [Notes -> [total : Nat, applied : Nat]]
      BY <1>0, <1>6, <2>2, <2>3 DEF CreditCommits, TypeOK
    <3>2. ledger' \in Int
      BY <1>0, <1>6, <2>2 DEF CreditCommits, TypeOK
    <3>3. QED
      BY <1>0, <1>6, <2>4, <3>1, <3>2 DEF CreditCommits, End, TypeOK
  <2>6. ReadsFit'
    BY <1>0, <1>6 DEF CreditCommits, End, ReadsFit, TypeOK
  <2>7. QED
    BY <2>4, <2>5, <2>6 DEF AmountInv
<1>7. ASSUME NEW s \in Sessions, VoidReads(s) PROVE AmountInv'
  <2>1. PICK i \in Invoices : Begin(s, [op |-> "void", inv |-> i])
    BY <1>7 DEF VoidReads
  <2> DEFINE c == [op |-> "void", inv |-> i]
  <2>2. UNCHANGED openItems
    BY <1>7 DEF VoidReads
  <2>3. c \in Voiding /\ call'[s].op = "void"
        /\ About(c) \subseteq Invoices \cup BankTxns \cup {Nothing}
    BY <1>0, <2>1 DEF TypeOK, Voiding, About, Begin
  <2>4. \A r \in Sessions \ {s} : call'[r] = call[r]
    BY <1>0, <2>1 DEF TypeOK, Begin
  <2>5. TypeOK'
    BY <1>0, <2>1, <2>2, <2>3, BeginType
  <2>6. QED
    BY <1>0, <2>2, <2>3, <2>4, <2>5 DEF AmountInv, StatusMatchesAmount, ReadsFit, openItems
<1>8. ASSUME NEW s \in Sessions, VoidCommits(s) PROVE AmountInv'
  <2>1. TypeOK'
    BY <1>0, <1>8 DEF VoidCommits, End, TypeOK, Statuses
  <2>2. StatusMatchesAmount'
    BY <1>0, <1>8 DEF VoidCommits, TypeOK, StatusMatchesAmount
  <2>3. ReadsFit'
    BY <1>0, <1>8 DEF VoidCommits, End, ReadsFit, TypeOK
  <2>4. QED
    BY <2>1, <2>2, <2>3 DEF AmountInv
<1>9. ASSUME NEW s \in Sessions, RollsBack(s) PROVE AmountInv'
  <2>1. TypeOK'
    BY <1>0, <1>9 DEF RollsBack, End, TypeOK, openItems
  <2>2. ReadsFit'
    BY <1>0, <1>9 DEF RollsBack, End, ReadsFit, TypeOK
  <2>3. QED
    BY <1>0, <1>9, <2>1, <2>2 DEF AmountInv, RollsBack, StatusMatchesAmount, openItems
<1>10. CASE UNCHANGED vars
  BY <1>0, <1>10 DEF vars, openItems, AmountInv, TypeOK, StatusMatchesAmount, ReadsFit
<1>11. QED
  BY <1>1, <1>2, <1>3, <1>4, <1>5, <1>6, <1>7, <1>8, <1>9, <1>10 DEF Next

\* The amounts of open items, and those calls have read, fit in every
\* reachable state.
THEOREM AmountInvAlways == Spec => []AmountInv
<1>1. Init => AmountInv
  BY ReceivablesAssumption
     DEF Init, AmountInv, TypeOK, Statuses, StatusMatchesAmount, ReadsFit
<1>2. AmountInv /\ [Next]_vars => AmountInv'
  BY AmountInvInductive
<1>3. QED
  BY <1>1, <1>2, PTL DEF Spec

\* Type correctness of the open items and of the calls on them.
THEOREM TypeCorrect == Spec => []TypeOK
BY AmountInvAlways, PTL DEF AmountInv

\* settleReceivable, applyCreditNoteToInvoice, voidReceivable: however calls
\* interleave, no invoice is paid beyond its total and its status is the one
\* its amount paid calls for.
THEOREM AmountsAgree == Spec => []StatusMatchesAmount
BY AmountInvAlways, PTL DEF AmountInv

-----------------------------------------------------------------------------
(***************************************************************************)
(* A row that is not contended has one call on it at most, so what that    *)
(* call has read is current when it writes, and what its dedup query has   *)
(* found still holds.                                                      *)
(***************************************************************************)
SharedIsContended ==
  \A r, s \in Sessions :
    r # s /\ call[r] # Nothing /\ call[s] # Nothing =>
      (About(call[r]) \cap About(call[s])) \ {Nothing} \subseteq contended

ReadsCurrent ==
  \A s \in Sessions : call[s] # Nothing =>
    /\ call[s].op \in {"settle", "checked"} /\ call[s].inv \notin contended =>
         call[s].paid = paid[call[s].inv]
    /\ call[s].op = "checked" /\ call[s].txn \notin contended \cup {Nothing} =>
         settled[call[s].txn] = 0
    /\ call[s].op = "credit" /\ call[s].inv \notin contended \cup {Nothing} =>
         call[s].paid = paid[call[s].inv]

RowsInv == SharedIsContended /\ ReadsCurrent /\ PaidIsRows /\ BankTxnSettlesOnce

\* A call that begins on a row another has in hand makes it contended.
LEMMA BeginShares ==
  ASSUME TypeOK, SharedIsContended, NEW s \in Sessions, NEW c, Begin(s, c)
  PROVE  /\ SharedIsContended' /\ contended \subseteq contended'
         /\ call'[s] = c
         /\ \A r \in Sessions \ {s} : call'[r] = call[r]
<1>1. /\ call'[s] = c /\ \A r \in Sessions \ {s} : call'[r] = call[r]
      /\ contended \subseteq contended'
  BY DEF TypeOK, Begin
<1>2. ASSUME NEW r \in Sessions \ {s}, call[r] # Nothing
      PROVE  (About(call[r]) \cap About(c)) \ {Nothing} \subseteq contended'
  BY <1>2 DEF Begin, InHand
<1>3. QED
  BY <1>1, <1>2 DEF SharedIsContended

\* When a call ends, the others are as they were.
LEMMA EndShares ==
  ASSUME TypeOK, SharedIsContended, NEW s \in Sessions, End(s)
  PROVE  /\ SharedIsContended' /\ contended' = contended
         /\ call'[s] = Nothing
         /\ \A r \in Sessions \ {s} : call'[r] = call[r]
<1>1. /\ call'[s] = Nothing /\ \A r \in Sessions \ {s} : call'[r] = call[r]
      /\ contended' = contended
  BY DEF TypeOK, End
<1>2. QED
  BY <1>1 DEF SharedIsContended

\* What is not contended and one call is about, no other open call is about.
LEMMA OthersElsewhere ==
  ASSUME SharedIsContended, NEW s \in Sessions, NEW r \in Sessions \ {s},
         call[r] # Nothing, call[s] # Nothing,
         NEW x \in About(call[r]), x \notin contended \cup {Nothing}
  PROVE  x \notin About(call[s])
BY DEF SharedIsContended

\* A payment computed from the current amount keeps amount and rows in step.
LEMMA PayKeepsRows ==
  ASSUME TypeOK, PaidIsRows, contended' = contended,
         NEW i \in Invoices, NEW read \in Nat, NEW amount \in Nat,
         i \notin contended => read = paid[i], Pay(i, read, amount)
  PROVE  PaidIsRows' /\ \A x \in Invoices \ {i} : paid'[x] = paid[x]
BY DEF TypeOK, PaidIsRows, Pay

\* The reads of the other calls stay current when s commits on its own rows.
LEMMA OthersStayCurrent ==
  ASSUME TypeOK, SharedIsContended, ReadsCurrent, NEW s \in Sessions,
         call[s] # Nothing, End(s),
         \A x \in Invoices : x \notin About(call[s]) => paid'[x] = paid[x],
         \A t \in BankTxns : t \notin About(call[s]) => settled'[t] = settled[t]
  PROVE  ReadsCurrent'
<1>1. /\ contended' = contended /\ call'[s] = Nothing
      /\ \A r \in Sessions \ {s} : call'[r] = call[r]
  BY EndShares
<1>2. SUFFICES ASSUME NEW r \in Sessions \ {s}, call[r] # Nothing
      PROVE  /\ call[r].op \in {"settle", "checked"} /\ call[r].inv \notin contended =>
                  call[r].paid = paid'[call[r].inv]
             /\ call[r].op = "checked" /\ call[r].txn \notin contended \cup {Nothing} =>
                  settled'[call[r].txn] = 0
             /\ call[r].op = "credit" /\ call[r].inv \notin contended \cup {Nothing} =>
                  call[r].paid = paid'[call[r].inv]
  BY <1>1 DEF ReadsCurrent
<1>3. ASSUME call[r].op \in {"settle", "checked"}, call[r].inv \notin contended
      PROVE  call[r].paid = paid'[call[r].inv]
  <2>1. call[r].inv \in Invoices /\ call[r].inv # Nothing
    BY <1>2, <1>3, CallKinds, ReceivablesAssumption DEF Settlement
  <2>2. call[r].inv \notin About(call[s])
    BY <1>2, <1>3, <2>1, OthersElsewhere DEF About
  <2>3. QED
    BY <1>2, <1>3, <2>1, <2>2 DEF ReadsCurrent
<1>4. ASSUME call[r].op = "checked", call[r].txn \notin contended \cup {Nothing}
      PROVE  settled'[call[r].txn] = 0
  <2>1. call[r].txn \in BankTxns
    BY <1>2, <1>4, CallKinds DEF Settlement
  <2>2. call[r].txn \notin About(call[s])
    BY <1>2, <1>4, OthersElsewhere DEF About
  <2>3. QED
    BY <1>2, <1>4, <2>1, <2>2 DEF ReadsCurrent
<1>5. ASSUME call[r].op = "credit", call[r].inv \notin contended \cup {Nothing}
      PROVE  call[r].paid = paid'[call[r].inv]
  <2>1. call[r].inv \in Invoices
    BY <1>2, <1>5, CallKinds DEF Crediting
  <2>2. call[r].inv \notin About(call[s])
    BY <1>2, <1>5, OthersElsewhere DEF About
  <2>3. QED
    BY <1>2, <1>5, <2>1, <2>2 DEF ReadsCurrent
<1>6. QED
  BY <1>3, <1>4, <1>5

\* Nor are they disturbed when a call begins with a current read of its own.
LEMMA BeginsCurrent ==
  ASSUME TypeOK, SharedIsContended, ReadsCurrent, NEW s \in Sessions, NEW c,
         Begin(s, c), UNCHANGED openItems, c.op # "checked",
         c.op \in {"settle", "credit"} /\ c.inv # Nothing => c.paid = paid[c.inv],
         c.op = "settle" => c.inv # Nothing
  PROVE  ReadsCurrent'
<1>1. /\ contended \subseteq contended' /\ call'[s] = c
      /\ \A r \in Sessions \ {s} : call'[r] = call[r]
  BY BeginShares
<1>2. QED
  BY <1>1 DEF ReadsCurrent, openItems

LEMMA RowsInvInductive ==
  ASSUME AmountInv, RowsInv, [Next]_vars
  PROVE  RowsInv'
<1> USE ReceivablesAssumption
<1>0. TypeOK /\ ReadsFit /\ SharedIsContended /\ ReadsCurrent /\ PaidIsRows /\ BankTxnSettlesOnce
  BY DEF AmountInv, RowsInv
<1>1. ASSUME NEW s \in Sessions, NEW c, Begin(s, c), UNCHANGED openItems
      PROVE  PaidIsRows' /\ BankTxnSettlesOnce'
  BY <1>0, <1>1, BeginShares DEF openItems, PaidIsRows, BankTxnSettlesOnce
<1>2. ASSUME NEW i \in Invoices, SendInvoice(i) PROVE RowsInv'
  BY <1>0, <1>2 DEF SendInvoice, RowsInv, SharedIsContended, ReadsCurrent, PaidIsRows, BankTxnSettlesOnce
<1>3. ASSUME NEW s \in Sessions, SettleReads(s) PROVE RowsInv'
  <2>1. PICK i \in Invoices, amount \in Amounts, t \in BankTxns \cup {Nothing} :
          Begin(s, [op |-> "settle", inv |-> i, amount |-> amount, txn |-> t,
                    paid |-> paid[i]])
    BY <1>3 DEF SettleReads
  <2> DEFINE c == [op |-> "settle", inv |-> i, amount |-> amount, txn |-> t, paid |-> paid[i]]
  <2>2. Begin(s, c) /\ UNCHANGED openItems /\ c.op = "settle" /\ c.inv = i /\ c.paid = paid[i]
    BY <1>3, <2>1 DEF SettleReads
  <2>3. i # Nothing
    OBVIOUS
  <2>4. QED
    BY <1>0, <1>1, <2>2, <2>3, BeginShares, BeginsCurrent DEF RowsInv
<1>4. ASSUME NEW s \in Sessions, SettleChecks(s) PROVE RowsInv'
  <2>1. /\ call[s] \in Settlement /\ call[s] # Nothing /\ call[s].op = "settle"
        /\ call[s].txn # Nothing => settled[call[s].txn] = 0
        /\ call' = [call EXCEPT ![s] = [call[s] EXCEPT !.op = "checked"]]
        /\ UNCHANGED <<openItems, contended>>
    BY <1>0, <1>4, CallKinds DEF SettleChecks
  <2>2. /\ call'[s].op = "checked" /\ call'[s].txn = call[s].txn
        /\ call'[s].paid = call[s].paid /\ call'[s].inv = call[s].inv
    BY <1>0, <2>1 DEF Settlement, TypeOK
  <2>3. \A r \in Sessions \ {s} : call'[r] = call[r]
    BY <1>0, <2>1 DEF TypeOK
  <2>4. SharedIsContended'
    <3>1. About(call'[s]) = About(call[s])
      BY <2>1, <2>2 DEF About
    <3>2. QED
      BY <1>0, <2>1, <2>3, <3>1 DEF SharedIsContended
  <2>5. ReadsCurrent'
    BY <1>0, <2>1, <2>2, <2>3 DEF ReadsCurrent, openItems
  <2>6. QED
    BY <1>0, <2>1, <2>4, <2>5 DEF RowsInv, PaidIsRows, BankTxnSettlesOnce, openItems
<1>5. ASSUME NEW s \in Sessions, SettleCommits(s) PROVE RowsInv'
  <2>1. /\ call[s] \in Settlement /\ call[s] # Nothing /\ call[s].op = "checked"
        /\ Pay(call[s].inv, call[s].paid, call[s].amount)
        /\ settled' = [t \in BankTxns |-> settled[t] + (IF t = call[s].txn THEN 1 ELSE 0)]
        /\ End(s)
    BY <1>0, <1>5, CallKinds DEF SettleCommits
  <2>2. /\ call[s].inv \in Invoices /\ call[s].amount \in Nat /\ call[s].paid \in Nat
        /\ call[s].inv \notin contended => call[s].paid = paid[call[s].inv]
        /\ call[s].txn \notin contended \cup {Nothing} => settled[call[s].txn] = 0
    BY <1>0, <2>1 DEF Settlement, ReadsCurrent
  <2>3. SharedIsContended' /\ contended' = contended
    BY <1>0, <2>1, EndShares
  <2>4. PaidIsRows' /\ \A x \in Invoices \ {call[s].inv} : paid'[x] = paid[x]
    BY <1>0, <2>1, <2>2, <2>3, PayKeepsRows
  <2>5. BankTxnSettlesOnce'
    <3>1. SUFFICES ASSUME NEW t \in BankTxns \ contended PROVE settled'[t] <= 1
      BY <2>3 DEF BankTxnSettlesOnce
    <3>2. settled'[t] = settled[t] + (IF t = call[s].txn THEN 1 ELSE 0)
      BY <2>1
    <3>3. t = call[s].txn => settled[t] = 0
      BY <2>2
    <3>4. settled[t] \in Nat /\ settled[t] <= 1
      BY <1>0 DEF BankTxnSettlesOnce, TypeOK
    <3>5. QED
      BY <3>2, <3>3, <3>4
  <2>6. ReadsCurrent'
    <3>1. call[s].inv \in About(call[s]) /\ call[s].txn \in About(call[s])
      BY <2>1 DEF About
    <3>2. \A t \in BankTxns : t # call[s].txn => settled'[t] = settled[t]
      BY <1>0, <2>1 DEF TypeOK
    <3>3. QED
      BY <1>0, <2>1, <2>4, <3>1, <3>2, OthersStayCurrent
  <2>7. QED
    BY <2>3, <2>4, <2>5, <2>6 DEF RowsInv
<1>6. ASSUME NEW s \in Sessions, CreditReads(s) PROVE RowsInv'
  <2>1. PICK c \in Notes, amount \in Amounts,
             i \in {x \in Invoices : status[x] \in Settleable} \cup {Nothing} :
          Begin(s, [op |-> "credit", inv |-> i, amount |-> amount, note |-> c,
                    paid |-> IF i = Nothing THEN 0 ELSE paid[i]])
    BY <1>6 DEF CreditReads
  <2> DEFINE d == [op |-> "credit", inv |-> i, amount |-> amount, note |-> c,
                   paid |-> IF i = Nothing THEN 0 ELSE paid[i]]
  <2>2. /\ Begin(s, d) /\ UNCHANGED openItems
        /\ d.op = "credit" /\ d.inv = i /\ i # Nothing => d.paid = paid[i]
    BY <1>6, <2>1 DEF CreditReads
  <2>3. QED
    BY <1>0, <1>1, <2>2, BeginShares, BeginsCurrent DEF RowsInv
<1>7. ASSUME NEW s \in Sessions, CreditCommits(s) PROVE RowsInv'
  <2>1. call[s] \in Crediting /\ call[s] # Nothing /\ call[s].op = "credit" /\ End(s)
    BY <1>0, <1>7, CallKinds DEF CreditCommits
  <2>2. /\ Applied(call[s]) \in Nat /\ call[s].paid \in Nat
        /\ Applied(call[s]) > 0 => call[s].inv \in Invoices
    BY <1>0, <2>1, AppliedFits DEF ReadsFit, Crediting
  <2>3. SharedIsContended' /\ contended' = contended
    BY <1>0, <2>1, EndShares
  <2>4. PaidIsRows' /\ \A x \in Invoices : x # call[s].inv => paid'[x] = paid[x]
    <3>1. CASE Applied(call[s]) > 0
      <4>1. Pay(call[s].inv, call[s].paid, Applied(call[s]))
        BY <1>7, <3>1 DEF CreditCommits
      <4>2. call[s].inv \notin contended => call[s].paid = paid[call[s].inv]
        BY <1>0, <2>1, <2>2, <3>1 DEF ReadsCurrent
      <4>3. QED
        BY <1>0, <2>2, <2>3, <3>1, <4>1, <4>2, PayKeepsRows
    <3>2. CASE ~(Applied(call[s]) > 0)
      BY <1>0, <1>7, <2>3, <3>2 DEF CreditCommits, PaidIsRows
    <3>3. QED
      BY <3>1, <3>2
  <2>5. BankTxnSettlesOnce' /\ settled' = settled
    BY <1>0, <1>7, <2>3 DEF CreditCommits, BankTxnSettlesOnce
  <2>6. ReadsCurrent'
    <3>1. call[s].inv \in About(call[s])
      BY DEF About
    <3>2. QED
      BY <1>0, <2>1, <2>4, <2>5, <3>1, OthersStayCurrent
  <2>7. QED
    BY <2>3, <2>4, <2>5, <2>6 DEF RowsInv
<1>8. ASSUME NEW s \in Sessions, VoidReads(s) PROVE RowsInv'
  <2>1. PICK i \in Invoices : Begin(s, [op |-> "void", inv |-> i])
    BY <1>8 DEF VoidReads
  <2> DEFINE c == [op |-> "void", inv |-> i]
  <2>2. Begin(s, c) /\ UNCHANGED openItems /\ c.op = "void"
    BY <1>8, <2>1 DEF VoidReads
  <2>3. QED
    BY <1>0, <1>1, <2>2, BeginShares, BeginsCurrent DEF RowsInv
<1>9. ASSUME NEW s \in Sessions, VoidCommits(s) PROVE RowsInv'
  <2>1. End(s) /\ call[s] # Nothing /\ UNCHANGED <<paid, rows, settled>>
    BY <1>9 DEF VoidCommits
  <2>2. SharedIsContended' /\ contended' = contended /\ ReadsCurrent'
    BY <1>0, <2>1, EndShares, OthersStayCurrent
  <2>3. QED
    BY <1>0, <2>1, <2>2 DEF RowsInv, PaidIsRows, BankTxnSettlesOnce
<1>10. ASSUME NEW s \in Sessions, RollsBack(s) PROVE RowsInv'
  <2>1. End(s) /\ call[s] # Nothing /\ UNCHANGED openItems
    BY <1>10 DEF RollsBack
  <2>2. UNCHANGED <<paid, rows, settled>>
    BY <2>1 DEF openItems
  <2>3. SharedIsContended' /\ contended' = contended /\ ReadsCurrent'
    BY <1>0, <2>1, <2>2, EndShares, OthersStayCurrent
  <2>4. QED
    BY <1>0, <2>2, <2>3 DEF RowsInv, PaidIsRows, BankTxnSettlesOnce
<1>11. CASE UNCHANGED vars
  BY <1>0, <1>11 DEF vars, openItems, RowsInv, SharedIsContended, ReadsCurrent, PaidIsRows, BankTxnSettlesOnce
<1>12. QED
  BY <1>2, <1>3, <1>4, <1>5, <1>6, <1>7, <1>8, <1>9, <1>10, <1>11 DEF Next

\* What no two calls share is as they read it, in every reachable state.
THEOREM RowsInvAlways == Spec => []RowsInv
<1>1. Init => RowsInv
  BY DEF Init, RowsInv, SharedIsContended, ReadsCurrent, PaidIsRows, BankTxnSettlesOnce
<1>2. AmountInv /\ RowsInv /\ [Next]_vars => RowsInv'
  BY RowsInvInductive
<1>3. QED
  BY <1>1, <1>2, AmountInvAlways, PTL DEF Spec

\* settlement.ts, the dedup query: a bank transaction that no two settlements
\* had in hand at once has settled one receivable at most.
THEOREM SettlesOnce == Spec => []BankTxnSettlesOnce
BY RowsInvAlways, PTL DEF RowsInv

\* settleReceivable, applyCreditNoteToInvoice: on an invoice that no two calls
\* had in hand at once, amount_paid_cents is the sum of its payment rows.
THEOREM NoPaymentLost == Spec => []PaidIsRows
BY RowsInvAlways, PTL DEF RowsInv

-----------------------------------------------------------------------------
(***************************************************************************)
(* The aging and the ledger.  An open item is worth what is outstanding on *)
(* it, a void one what its entry has left in the ledger.  While no two     *)
(* calls have met on an invoice, a call that writes finds the status it    *)
(* has read, so it moves the open items by as much as it posts.            *)
(***************************************************************************)
ItemWorth(i) ==
  IF status[i] \in Settleable THEN Grand[i] - paid[i]
  ELSE IF status[i] = "void" THEN Grand[i] ELSE 0

Unapplied(c) == note[c].total - note[c].applied

ItemsTotal == SumFunctionOnSet([i \in Invoices |-> ItemWorth(i)], Invoices)
NotesTotal == SumFunctionOnSet([c \in Notes |-> Unapplied(c)], Notes)

StatusCurrent ==
  \A s \in Sessions : call[s] # Nothing /\ call[s].inv \notin contended \cup {Nothing} =>
    /\ call[s].op \in {"settle", "checked", "credit"} => status[call[s].inv] \in Settleable
    /\ call[s].op = "void" => status[call[s].inv] = "open"

\* A credit note being dispatched is new, and one call's.
NotesCurrent ==
  /\ \A c \in Notes : note[c].total = 0 => note[c].applied = 0
  /\ \A s \in Sessions : call[s] # Nothing /\ call[s].op = "credit" =>
       /\ note[call[s].note].total = 0
       /\ \A r \in Sessions \ {s} :
            call[r] # Nothing /\ call[r].op = "credit" => call[r].note # call[s].note

Quiet == contended \cap Invoices = {}

AgingInv ==
  StatusCurrent /\ NotesCurrent /\ (Quiet => ItemsTotal - NotesTotal = ledger)

LEMMA WorthTypes ==
  ASSUME TypeOK
  PROVE  /\ \A i \in Invoices : ItemWorth(i) \in Int /\ Grand[i] \in Int /\ paid[i] \in Int
         /\ \A c \in Notes : Unapplied(c) \in Int
<1>1. \A i \in Invoices : Grand[i] \in Int /\ paid[i] \in Int
  BY ReceivablesAssumption DEF TypeOK
<1>2. \A c \in Notes : note[c].total \in Int /\ note[c].applied \in Int
  BY DEF TypeOK
<1>3. QED
  BY <1>1, <1>2 DEF ItemWorth, Unapplied

LEMMA TotalTypes ==
  ASSUME TypeOK PROVE ItemsTotal \in Int /\ NotesTotal \in Int
<1> DEFINE f == [i \in Invoices |-> ItemWorth(i)]
           g == [c \in Notes |-> Unapplied(c)]
<1>1. /\ \A i \in Invoices : f[i] \in Int
      /\ \A c \in Notes : g[c] \in Int
      /\ IsFiniteSet(Invoices) /\ IsFiniteSet(Notes)
  BY WorthTypes, ReceivablesAssumption
<1> HIDE DEF f, g
<1>2. SumFunctionOnSet(f, Invoices) \in Int /\ SumFunctionOnSet(g, Notes) \in Int
  BY <1>1, SumRecursion
<1>3. QED
  BY <1>2 DEF f, g, ItemsTotal, NotesTotal

\* arAging counts the open items; the void ones make up the difference.
LEMMA AgingIsTotals ==
  ASSUME TypeOK
  PROVE  AgingTotal + SumFunctionOnSet(Grand, {i \in Invoices : status[i] = "void"})
           = ItemsTotal - NotesTotal
<1> DEFINE P == {i \in Invoices : status[i] \in Settleable}
           V == {i \in Invoices : status[i] = "void"}
           out == [i \in Invoices |-> Grand[i] - paid[i]]
           f == [i \in Invoices |-> IF i \in P THEN out[i] ELSE 0]
           g == [i \in Invoices |-> IF i \in V THEN Grand[i] ELSE 0]
           h == [i \in Invoices |-> ItemWorth(i)]
           n == [c \in Notes |-> Unapplied(c)]
<1>1. IsFiniteSet(Invoices) /\ P \in SUBSET Invoices /\ V \in SUBSET Invoices /\ DOMAIN n = Notes
  BY ReceivablesAssumption
<1>2. \A i \in Invoices :
        /\ out[i] \in Int /\ f[i] = IF i \in P THEN out[i] ELSE 0
        /\ Grand[i] \in Int /\ g[i] = IF i \in V THEN Grand[i] ELSE 0
        /\ f[i] \in Int /\ g[i] \in Int /\ h[i] = f[i] + g[i]
  <2> TAKE i \in Invoices
  <2>1. Grand[i] \in Int /\ paid[i] \in Int
    BY WorthTypes
  <2>2. i \in P => i \notin V
    BY DEF Settleable
  <2>3. QED
    BY <2>1, <2>2 DEF ItemWorth
<1>3. AgingTotal = SumFunctionOnSet(out, P) - SumFunctionOnSet(n, DOMAIN n)
  BY DEF AgingTotal, SumFunction, Unapplied
<1>4. ItemsTotal = SumFunctionOnSet(h, Invoices) /\ NotesTotal = SumFunctionOnSet(n, Notes)
  BY DEF ItemsTotal, NotesTotal
<1>5. ItemsTotal \in Int /\ NotesTotal \in Int
  BY TotalTypes
<1> HIDE DEF out, f, g, h, n, P, V
<1>6. SumFunctionOnSet(out, P) = SumFunctionOnSet(f, Invoices)
  BY <1>1, <1>2, SumOfPart
<1>7. SumFunctionOnSet(Grand, V) = SumFunctionOnSet(g, Invoices)
  BY <1>1, <1>2, SumOfPart
<1>8. SumFunctionOnSet(h, Invoices) = SumFunctionOnSet(f, Invoices) + SumFunctionOnSet(g, Invoices)
  BY <1>1, <1>2, SumAdds
<1>9. SumFunctionOnSet(f, Invoices) \in Int /\ SumFunctionOnSet(g, Invoices) \in Int
  BY <1>1, <1>2, SumRecursion
<1>10. AgingTotal + SumFunctionOnSet(Grand, V) = ItemsTotal - NotesTotal
  BY <1>1, <1>3, <1>4, <1>5, <1>6, <1>7, <1>8, <1>9
<1>11. QED
  BY <1>10 DEF V

\* One item, or one note, that changes.
LEMMA OneItemChanges ==
  ASSUME TypeOK, TypeOK', NEW i \in Invoices,
         \A j \in Invoices \ {i} : status'[j] = status[j] /\ paid'[j] = paid[j]
  PROVE  ItemsTotal' = ItemsTotal - ItemWorth(i) + ItemWorth(i)'
<1> DEFINE f == [j \in Invoices |-> ItemWorth(j)]
           g == [j \in Invoices |-> ItemWorth(j)']
<1>1. \A j \in Invoices : f[j] \in Int /\ g[j] \in Int
  BY ReceivablesAssumption DEF ItemWorth, TypeOK
<1>2. \A j \in Invoices \ {i} : g[j] = f[j]
  BY DEF ItemWorth
<1>3. ItemsTotal = SumFunctionOnSet(f, Invoices) /\ ItemsTotal' = SumFunctionOnSet(g, Invoices)
  BY DEF ItemsTotal
<1>4. f[i] = ItemWorth(i) /\ g[i] = ItemWorth(i)' /\ IsFiniteSet(Invoices)
  BY ReceivablesAssumption
<1> HIDE DEF f, g
<1>5. QED
  BY <1>1, <1>2, <1>3, <1>4, SumChanges

LEMMA OneNoteChanges ==
  ASSUME TypeOK, TypeOK', NEW c \in Notes, \A d \in Notes \ {c} : note'[d] = note[d]
  PROVE  NotesTotal' = NotesTotal - Unapplied(c) + Unapplied(c)'
<1> DEFINE f == [d \in Notes |-> Unapplied(d)]
           g == [d \in Notes |-> Unapplied(d)']
<1>1. \A d \in Notes : f[d] \in Int /\ g[d] \in Int
  <2>1. \A d \in Notes : note[d] \in [total : Nat, applied : Nat] /\ note'[d] \in [total : Nat, applied : Nat]
    BY DEF TypeOK
  <2>2. QED
    BY <2>1 DEF Unapplied
<1>2. \A d \in Notes \ {c} : g[d] = f[d]
  BY DEF Unapplied
<1>3. NotesTotal = SumFunctionOnSet(f, Notes) /\ NotesTotal' = SumFunctionOnSet(g, Notes)
  BY DEF NotesTotal
<1>4. f[c] = Unapplied(c) /\ g[c] = Unapplied(c)' /\ IsFiniteSet(Notes)
  BY ReceivablesAssumption
<1> HIDE DEF f, g
<1>5. QED
  BY <1>1, <1>2, <1>3, <1>4, SumChanges

\* A payment from the current amount takes off an open item what it pays.
LEMMA PayMoves ==
  ASSUME TypeOK, TypeOK', NEW i \in Invoices, NEW amount \in Nat, status[i] \in Settleable,
         paid[i] + amount <= Grand[i], Pay(i, paid[i], amount)
  PROVE  ItemsTotal' = ItemsTotal - amount
<1>1. \A j \in Invoices \ {i} : status'[j] = status[j] /\ paid'[j] = paid[j]
  BY DEF TypeOK, Pay
<1>2. /\ paid'[i] = paid[i] + amount
      /\ status'[i] = IF paid[i] + amount >= Grand[i] THEN "paid" ELSE "partially_paid"
  BY DEF TypeOK, Pay
<1>3. Grand[i] \in Nat /\ paid[i] \in Nat
  BY ReceivablesAssumption DEF TypeOK
<1>4. ItemWorth(i) = Grand[i] - paid[i] /\ ItemWorth(i)' = Grand[i] - paid[i] - amount
  BY <1>2, <1>3 DEF ItemWorth, Settleable
<1>5. ItemsTotal' = ItemsTotal - ItemWorth(i) + ItemWorth(i)'
  BY <1>1, OneItemChanges
<1>6. QED
  BY <1>3, <1>4, <1>5, TotalTypes

\* What a begun call has read of the status is current, and no other call is
\* disturbed.
LEMMA BeginsInStatus ==
  ASSUME TypeOK, SharedIsContended, StatusCurrent, NEW s \in Sessions, NEW c,
         Begin(s, c), UNCHANGED openItems,
         c.op \in {"settle", "checked", "credit"} /\ c.inv # Nothing =>
           status[c.inv] \in Settleable,
         c.op = "void" => status[c.inv] = "open"
  PROVE  StatusCurrent'
<1>1. /\ contended \subseteq contended' /\ call'[s] = c
      /\ \A r \in Sessions \ {s} : call'[r] = call[r]
  BY BeginShares
<1>2. QED
  BY <1>1 DEF StatusCurrent, openItems

\* Nor does a call that commits on its own rows disturb another.
LEMMA OthersKeepStatus ==
  ASSUME TypeOK, SharedIsContended, StatusCurrent, NEW s \in Sessions,
         call[s] # Nothing, End(s),
         \A x \in Invoices : x \notin About(call[s]) => status'[x] = status[x]
  PROVE  StatusCurrent'
<1>1. /\ contended' = contended /\ call'[s] = Nothing
      /\ \A r \in Sessions \ {s} : call'[r] = call[r]
  BY EndShares
<1>2. ASSUME NEW r \in Sessions \ {s}, call[r] # Nothing,
             call[r].inv \notin contended \cup {Nothing},
             call[r].op \in {"settle", "checked", "credit", "void"}
      PROVE  status'[call[r].inv] = status[call[r].inv]
  <2>1. call[r].inv \in Invoices
    BY <1>2, CallKinds DEF Settlement, Crediting, Voiding
  <2>2. call[r].inv \notin About(call[s])
    BY <1>2, OthersElsewhere DEF About
  <2>3. QED
    BY <2>1, <2>2
<1>3. QED
  BY <1>1, <1>2 DEF StatusCurrent

\* Steps that dispatch no credit note leave its notes alone.
LEMMA NotesKept ==
  ASSUME NotesCurrent, note' = note,
         \A r \in Sessions : call'[r] # Nothing /\ call'[r].op = "credit" => call'[r] = call[r]
  PROVE  NotesCurrent'
BY DEF NotesCurrent

\* A step that writes nothing leaves the totals as they were.
LEMMA TotalsKept ==
  ASSUME UNCHANGED openItems, contended \subseteq contended',
         Quiet => ItemsTotal - NotesTotal = ledger
  PROVE  Quiet' => ItemsTotal' - NotesTotal' = ledger'
<1>1. UNCHANGED <<status, paid, note, ledger>>
  BY DEF openItems
<1>2. ItemsTotal' = ItemsTotal /\ NotesTotal' = NotesTotal
  BY <1>1 DEF ItemsTotal, NotesTotal, ItemWorth, Unapplied
<1>3. Quiet' => Quiet
  BY DEF Quiet
<1>4. QED
  BY <1>1, <1>2, <1>3

\* A credit note applied to its invoice takes as much off both totals as it
\* posts.
LEMMA CreditTies ==
  ASSUME AmountInv, RowsInv, AgingInv, TypeOK', NEW s \in Sessions, CreditCommits(s)
  PROVE  AgingInv'
<1> USE ReceivablesAssumption
<1>0. TypeOK /\ SharedIsContended /\ ReadsCurrent /\ ReadsFit /\ StatusCurrent /\ NotesCurrent
  BY DEF AmountInv, RowsInv, AgingInv
<1>1. call[s] \in Crediting /\ call[s] # Nothing /\ call[s].op = "credit" /\ End(s)
  BY <1>0, CallKinds DEF CreditCommits
<1>2. PICK c : c = call[s]
  OBVIOUS
<1>3. /\ c \in Crediting /\ c.note \in Notes /\ c.amount \in Nat /\ c.inv \in Invoices \cup {Nothing}
      /\ c.inv # Nothing => c.paid <= Grand[c.inv]
  BY <1>0, <1>1, <1>2 DEF Crediting, ReadsFit
<1>4. /\ Applied(c) \in Nat /\ Applied(c) <= c.amount
      /\ Applied(c) > 0 => c.inv \in Invoices /\ c.paid + Applied(c) <= Grand[c.inv]
  BY <1>3, AppliedFits
<1>5. /\ IF Applied(c) > 0 THEN Pay(c.inv, c.paid, Applied(c))
         ELSE UNCHANGED <<status, paid, rows>>
      /\ note' = [note EXCEPT ![c.note] = [total |-> c.amount, applied |-> Applied(c)]]
      /\ ledger' = ledger - c.amount
  BY <1>2 DEF CreditCommits
<1>6. /\ contended' = contended /\ call'[s] = Nothing
      /\ \A r \in Sessions \ {s} : call'[r] = call[r]
  BY <1>0, <1>1, EndShares
<1>7. StatusCurrent'
  <2>1. \A x \in Invoices : x # c.inv => status'[x] = status[x]
    BY <1>0, <1>5 DEF TypeOK, Pay
  <2>2. QED
    BY <1>0, <1>1, <1>2, <2>1, OthersKeepStatus DEF About
<1>8. /\ note'[c.note].total = c.amount /\ note'[c.note].applied = Applied(c)
      /\ \A d \in Notes \ {c.note} : note'[d] = note[d]
  BY <1>0, <1>3, <1>5 DEF TypeOK
<1>9. NotesCurrent'
  <2>1. \A d \in Notes : note'[d].total = 0 => note'[d].applied = 0
    BY <1>0, <1>4, <1>8 DEF NotesCurrent
  <2>2. ASSUME NEW r \in Sessions, call'[r] # Nothing, call'[r].op = "credit"
        PROVE  /\ r # s /\ call'[r] = call[r] /\ call[r] # Nothing /\ call[r].op = "credit"
               /\ note'[call[r].note].total = 0
    <3>1. r # s /\ call'[r] = call[r]
      BY <1>6, <2>2
    <3>2. call[r].note # c.note /\ note[call[r].note].total = 0
      BY <1>0, <1>1, <1>2, <2>2, <3>1 DEF NotesCurrent
    <3>3. call[r].note \in Notes
      BY <1>0, <2>2, <3>1, CallKinds DEF Crediting
    <3>4. QED
      BY <1>8, <2>2, <3>1, <3>2, <3>3
  <2>3. QED
    BY <1>0, <1>6, <2>1, <2>2 DEF NotesCurrent
<1>10. ASSUME Quiet' PROVE ItemsTotal' - NotesTotal' = ledger'
  <2>1. Quiet /\ ItemsTotal - NotesTotal = ledger
    BY <1>6, <1>10 DEF Quiet, AgingInv
  <2>2. ItemsTotal' = ItemsTotal - Applied(c)
    <3>1. CASE Applied(c) > 0
      <4>1. c.inv \in Invoices /\ c.inv \notin contended /\ c.inv # Nothing
        BY <1>4, <2>1, <3>1 DEF Quiet
      <4>2. c.paid = paid[c.inv] /\ status[c.inv] \in Settleable
        BY <1>0, <1>1, <1>2, <4>1 DEF ReadsCurrent, StatusCurrent
      <4>3. QED
        BY <1>0, <1>4, <1>5, <3>1, <4>1, <4>2, PayMoves
    <3>2. CASE ~(Applied(c) > 0)
      <4>1. ItemsTotal' = ItemsTotal
        BY <1>5, <3>2 DEF ItemsTotal, ItemWorth
      <4>2. QED
        BY <1>0, <1>4, <3>2, <4>1, TotalTypes
    <3>3. QED
      BY <3>1, <3>2
  <2>3. NotesTotal' = NotesTotal + c.amount - Applied(c)
    <3>1. NotesTotal' = NotesTotal - Unapplied(c.note) + Unapplied(c.note)'
      BY <1>0, <1>3, <1>8, OneNoteChanges
    <3>2. Unapplied(c.note) = 0
      BY <1>0, <1>1, <1>2, <1>3 DEF NotesCurrent, Unapplied
    <3>3. Unapplied(c.note)' = c.amount - Applied(c)
      BY <1>8 DEF Unapplied
    <3>4. QED
      BY <1>0, <1>3, <1>4, <3>1, <3>2, <3>3, TotalTypes
  <2>4. QED
    BY <1>0, <1>3, <1>4, <1>5, <2>1, <2>2, <2>3, TotalTypes
<1>11. QED
  BY <1>7, <1>9, <1>10 DEF AgingInv

LEMMA AgingInvInductive ==
  ASSUME AmountInv, RowsInv, AgingInv, [Next]_vars PROVE AgingInv'
<1> USE ReceivablesAssumption
<1>0. /\ TypeOK /\ StatusMatchesAmount /\ ReadsFit /\ SharedIsContended /\ ReadsCurrent
      /\ StatusCurrent /\ NotesCurrent /\ TypeOK' /\ StatusMatchesAmount'
      /\ Quiet => ItemsTotal - NotesTotal = ledger
  BY AmountInvInductive DEF AmountInv, RowsInv, AgingInv
<1>1. ASSUME NEW i \in Invoices, SendInvoice(i) PROVE AgingInv'
  <2>1. /\ status[i] = "none" /\ paid[i] = 0 /\ ledger' = ledger + Grand[i]
        /\ UNCHANGED <<paid, rows, settled, note, call, contended>>
    BY <1>0, <1>1 DEF SendInvoice, StatusMatchesAmount
  <2>2. status'[i] = "open" /\ \A j \in Invoices \ {i} : status'[j] = status[j]
    BY <1>0, <1>1 DEF SendInvoice, TypeOK
  <2>3. StatusCurrent'
    <3>1. \A s \in Sessions : call[s] # Nothing /\ call[s].inv = i =>
            ~(call[s].op \in {"settle", "checked", "credit", "void"}) \/ i \in contended
      BY <1>0, <2>1 DEF StatusCurrent, Settleable
    <3>2. \A s \in Sessions : call[s] # Nothing /\ call[s].inv # Nothing
            /\ call[s].op \in {"settle", "checked", "credit", "void"} => call[s].inv \in Invoices
      BY <1>0, CallKinds DEF Settlement, Crediting, Voiding
    <3>3. QED
      BY <1>0, <2>1, <2>2, <3>1, <3>2 DEF StatusCurrent
  <2>4. NotesCurrent'
    BY <1>0, <2>1, NotesKept
  <2>5. ItemsTotal' = ItemsTotal + Grand[i] /\ NotesTotal' = NotesTotal
    <3>1. ItemsTotal' = ItemsTotal - ItemWorth(i) + ItemWorth(i)'
      BY <1>0, <2>1, <2>2, OneItemChanges
    <3>2. ItemWorth(i) = 0 /\ ItemWorth(i)' = Grand[i]
      BY <2>1, <2>2 DEF ItemWorth, Settleable
    <3>3. NotesTotal' = NotesTotal
      BY <2>1 DEF NotesTotal, Unapplied
    <3>4. QED
      BY <1>0, <3>1, <3>2, <3>3, TotalTypes
  <2>6. Quiet' => ItemsTotal' - NotesTotal' = ledger'
    <3>1. Grand[i] \in Int /\ ledger \in Int /\ ItemsTotal \in Int /\ NotesTotal \in Int
      BY <1>0, TotalTypes DEF TypeOK
    <3>2. Quiet' => Quiet
      BY <2>1 DEF Quiet
    <3>3. QED
      BY <1>0, <2>1, <2>5, <3>1, <3>2
  <2>7. QED
    BY <2>3, <2>4, <2>6 DEF AgingInv
<1>2. ASSUME NEW s \in Sessions, SettleReads(s) PROVE AgingInv'
  <2>1. PICK i \in Invoices, amount \in Amounts, t \in BankTxns \cup {Nothing} :
          /\ status[i] \in Settleable
          /\ Begin(s, [op |-> "settle", inv |-> i, amount |-> amount, txn |-> t,
                       paid |-> paid[i]])
    BY <1>2 DEF SettleReads
  <2>2. PICK c : c = [op |-> "settle", inv |-> i, amount |-> amount, txn |-> t, paid |-> paid[i]]
    OBVIOUS
  <2>3. Begin(s, c) /\ UNCHANGED openItems /\ c.op = "settle" /\ c.inv = i
    BY <1>2, <2>1, <2>2 DEF SettleReads
  <2>4. /\ contended \subseteq contended' /\ note' = note /\ call'[s] = c
        /\ \A r \in Sessions \ {s} : call'[r] = call[r]
    BY <1>0, <2>3, BeginShares DEF openItems
  <2>5. StatusCurrent'
    BY <1>0, <2>1, <2>3, BeginsInStatus
  <2>6. NotesCurrent'
    BY <1>0, <2>3, <2>4, NotesKept
  <2>7. QED
    BY <1>0, <2>3, <2>4, <2>5, <2>6, TotalsKept DEF AgingInv
<1>3. ASSUME NEW s \in Sessions, SettleChecks(s) PROVE AgingInv'
  <2>1. /\ call[s] \in Settlement /\ call[s] # Nothing /\ call[s].op = "settle"
        /\ call' = [call EXCEPT ![s] = [call[s] EXCEPT !.op = "checked"]]
        /\ UNCHANGED openItems /\ contended' = contended
    BY <1>0, <1>3, CallKinds DEF SettleChecks
  <2>2. /\ call'[s].op = "checked" /\ call'[s].inv = call[s].inv
        /\ \A r \in Sessions \ {s} : call'[r] = call[r]
    BY <1>0, <2>1 DEF Settlement, TypeOK
  <2>3. StatusCurrent'
    BY <1>0, <2>1, <2>2 DEF StatusCurrent, openItems
  <2>4. NotesCurrent'
    BY <1>0, <2>1, <2>2, NotesKept DEF openItems
  <2>5. QED
    BY <1>0, <2>1, <2>3, <2>4, TotalsKept DEF AgingInv
<1>4. ASSUME NEW s \in Sessions, SettleCommits(s) PROVE AgingInv'
  <2>1. PICK c : c = call[s]
    OBVIOUS
  <2>2. /\ c \in Settlement /\ call[s] # Nothing /\ c.op = "checked"
        /\ Pay(c.inv, c.paid, c.amount) /\ End(s)
        /\ ledger' = ledger - c.amount /\ note' = note
    BY <1>0, <1>4, <2>1, CallKinds DEF SettleCommits
  <2>3. /\ c.inv \in Invoices /\ c.inv # Nothing /\ c.amount \in Nat /\ c.paid + c.amount <= Grand[c.inv]
        /\ c.inv \notin contended => c.paid = paid[c.inv] /\ status[c.inv] \in Settleable
    BY <1>0, <2>1, <2>2 DEF Settlement, ReadsFit, ReadsCurrent, StatusCurrent
  <2>4. /\ contended' = contended /\ call'[s] = Nothing
        /\ \A r \in Sessions \ {s} : call'[r] = call[r]
    BY <1>0, <2>2, EndShares
  <2>5. StatusCurrent'
    <3>1. \A x \in Invoices : x # c.inv => status'[x] = status[x]
      BY <1>0, <2>2 DEF TypeOK, Pay
    <3>2. QED
      BY <1>0, <2>1, <2>2, <3>1, OthersKeepStatus DEF About
  <2>6. NotesCurrent'
    BY <1>0, <2>2, <2>4, NotesKept
  <2>7. ASSUME Quiet' PROVE ItemsTotal' - NotesTotal' = ledger'
    <3>1. Quiet /\ c.inv \notin contended
      BY <2>3, <2>4, <2>7 DEF Quiet
    <3>2. ItemsTotal' = ItemsTotal - c.amount
      BY <1>0, <2>2, <2>3, <3>1, PayMoves
    <3>3. NotesTotal' = NotesTotal
      BY <2>2 DEF NotesTotal, Unapplied
    <3>4. QED
      BY <1>0, <2>2, <2>3, <3>1, <3>2, <3>3, TotalTypes DEF TypeOK
  <2>8. QED
    BY <2>5, <2>6, <2>7 DEF AgingInv
<1>5. ASSUME NEW s \in Sessions, CreditReads(s) PROVE AgingInv'
  <2>1. PICK n \in Notes, amount \in Amounts,
             i \in {x \in Invoices : status[x] \in Settleable} \cup {Nothing} :
          /\ note[n].total = 0
          /\ \A r \in Sessions : call[r] # Nothing /\ call[r].op = "credit" => call[r].note # n
          /\ Begin(s, [op |-> "credit", inv |-> i, amount |-> amount, note |-> n,
                       paid |-> IF i = Nothing THEN 0 ELSE paid[i]])
    BY <1>5 DEF CreditReads
  <2>2. PICK c : c = [op |-> "credit", inv |-> i, amount |-> amount, note |-> n,
                      paid |-> IF i = Nothing THEN 0 ELSE paid[i]]
    OBVIOUS
  <2>3. Begin(s, c) /\ UNCHANGED openItems /\ c.op = "credit" /\ c.inv = i /\ c.note = n
    BY <1>5, <2>1, <2>2 DEF CreditReads
  <2>4. /\ contended \subseteq contended' /\ note' = note /\ call'[s] = c
        /\ \A r \in Sessions \ {s} : call'[r] = call[r]
    BY <1>0, <2>3, BeginShares DEF openItems
  <2>5. StatusCurrent'
    BY <1>0, <2>1, <2>3, BeginsInStatus
  <2>6. NotesCurrent'
    BY <1>0, <2>1, <2>3, <2>4 DEF NotesCurrent
  <2>7. QED
    BY <1>0, <2>3, <2>4, <2>5, <2>6, TotalsKept DEF AgingInv
<1>6. ASSUME NEW s \in Sessions, CreditCommits(s) PROVE AgingInv'
  BY <1>0, <1>6, CreditTies
<1>7. ASSUME NEW s \in Sessions, VoidReads(s) PROVE AgingInv'
  <2>1. PICK i \in Invoices : status[i] = "open" /\ Begin(s, [op |-> "void", inv |-> i])
    BY <1>7 DEF VoidReads
  <2>2. PICK c : c = [op |-> "void", inv |-> i]
    OBVIOUS
  <2>3. Begin(s, c) /\ UNCHANGED openItems /\ c.op = "void" /\ c.inv = i
    BY <1>7, <2>1, <2>2 DEF VoidReads
  <2>4. /\ contended \subseteq contended' /\ note' = note /\ call'[s] = c
        /\ \A r \in Sessions \ {s} : call'[r] = call[r]
    BY <1>0, <2>3, BeginShares DEF openItems
  <2>5. StatusCurrent'
    BY <1>0, <2>1, <2>3, BeginsInStatus
  <2>6. NotesCurrent'
    BY <1>0, <2>3, <2>4, NotesKept
  <2>7. QED
    BY <1>0, <2>3, <2>4, <2>5, <2>6, TotalsKept DEF AgingInv
<1>8. ASSUME NEW s \in Sessions, VoidCommits(s) PROVE AgingInv'
  <2>1. PICK i : i = call[s].inv
    OBVIOUS
  <2>2. /\ call[s] \in Voiding /\ call[s] # Nothing /\ call[s].op = "void" /\ i \in Invoices
        /\ status' = [status EXCEPT ![i] = "void"] /\ End(s)
        /\ UNCHANGED <<paid, rows, settled, note, ledger>>
    BY <1>0, <1>8, <2>1, CallKinds DEF VoidCommits, Voiding
  <2>3. status'[i] = "void" /\ \A j \in Invoices \ {i} : status'[j] = status[j]
    BY <1>0, <2>2 DEF TypeOK
  <2>4. /\ contended' = contended /\ call'[s] = Nothing
        /\ \A r \in Sessions \ {s} : call'[r] = call[r]
    BY <1>0, <2>2, EndShares
  <2>5. StatusCurrent'
    BY <1>0, <2>1, <2>2, <2>3, OthersKeepStatus DEF About
  <2>6. NotesCurrent'
    BY <1>0, <2>2, <2>4, NotesKept
  <2>7. ASSUME Quiet' PROVE ItemsTotal' - NotesTotal' = ledger'
    <3>1. Quiet /\ i \notin contended /\ i # Nothing
      BY <2>2, <2>4, <2>7 DEF Quiet
    <3>2. status[i] = "open" /\ paid[i] = 0
      BY <1>0, <2>1, <2>2, <3>1 DEF StatusCurrent, StatusMatchesAmount
    <3>3. ItemWorth(i) = Grand[i] /\ ItemWorth(i)' = Grand[i] /\ Grand[i] \in Nat
      BY <2>2, <2>3, <3>2 DEF ItemWorth, Settleable
    <3>4. ItemsTotal' = ItemsTotal - ItemWorth(i) + ItemWorth(i)'
      BY <1>0, <2>2, <2>3, OneItemChanges
    <3>5. NotesTotal' = NotesTotal
      BY <2>2 DEF NotesTotal, Unapplied
    <3>6. QED
      BY <1>0, <2>2, <3>1, <3>3, <3>4, <3>5, TotalTypes
  <2>8. QED
    BY <2>5, <2>6, <2>7 DEF AgingInv
<1>9. ASSUME NEW s \in Sessions, RollsBack(s) PROVE AgingInv'
  <2>1. End(s) /\ call[s] # Nothing /\ UNCHANGED openItems
    BY <1>9 DEF RollsBack
  <2>2. /\ contended' = contended /\ call'[s] = Nothing
        /\ \A r \in Sessions \ {s} : call'[r] = call[r]
    BY <1>0, <2>1, EndShares
  <2>3. StatusCurrent'
    BY <1>0, <2>1, OthersKeepStatus DEF openItems
  <2>4. NotesCurrent'
    BY <1>0, <2>1, <2>2, NotesKept DEF openItems
  <2>5. QED
    BY <1>0, <2>1, <2>2, <2>3, <2>4, TotalsKept DEF AgingInv
<1>10. CASE UNCHANGED vars
  <2>1. UNCHANGED openItems /\ call' = call /\ contended' = contended
    BY <1>10 DEF vars
  <2>2. StatusCurrent' /\ NotesCurrent'
    BY <1>0, <2>1 DEF StatusCurrent, NotesCurrent, openItems
  <2>3. QED
    BY <1>0, <2>1, <2>2, TotalsKept DEF AgingInv
<1>11. QED
  BY <1>1, <1>2, <1>3, <1>4, <1>5, <1>6, <1>7, <1>8, <1>9, <1>10 DEF Next

\* So does the balance of the receivable account, item by item.
THEOREM AgingInvAlways == Spec => []AgingInv
<1>1. Init => AgingInv
  <2> DEFINE f == [i \in Invoices |-> ItemWorth(i)]
             g == [c \in Notes |-> Unapplied(c)]
  <2>1. SUFFICES ASSUME Init PROVE AgingInv
    OBVIOUS
  <2>2. (\A i \in Invoices : f[i] = 0) /\ (\A c \in Notes : g[c] = 0)
    BY <2>1 DEF Init, ItemWorth, Unapplied, Settleable
  <2>3. IsFiniteSet(Invoices) /\ IsFiniteSet(Notes)
    BY ReceivablesAssumption
  <2>4. ItemsTotal = SumFunctionOnSet(f, Invoices) /\ NotesTotal = SumFunctionOnSet(g, Notes)
    BY DEF ItemsTotal, NotesTotal
  <2> HIDE DEF f, g
  <2>5. ItemsTotal = 0 /\ NotesTotal = 0
    BY <2>2, <2>3, <2>4, SumOfZeros
  <2>6. QED
    BY <2>1, <2>5 DEF Init, AgingInv, StatusCurrent, NotesCurrent
<1>2. AmountInv /\ RowsInv /\ AgingInv /\ [Next]_vars => AgingInv'
  BY AgingInvInductive
<1>3. QED
  BY <1>1, <1>2, AmountInvAlways, RowsInvAlways, PTL DEF Spec

\* arAging against the receivable account: while no two calls have had one
\* invoice in hand at once, the open items less the unapplied credit notes,
\* and what voided invoices have left behind, are the account's balance.
THEOREM AgingTies == Spec => []AgingTiesToLedger
<1>1. AmountInv /\ AgingInv => AgingTiesToLedger
  BY AgingIsTotals DEF AmountInv, AgingInv, AgingTiesToLedger, Quiet
<1>2. QED
  BY <1>1, AmountInvAlways, AgingInvAlways, PTL
=============================================================================
