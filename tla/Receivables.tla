---------------------------- MODULE Receivables ----------------------------
(***************************************************************************)
(* Accounts receivable of one client: sendInvoice and sendCreditNote       *)
(* (src/einvoice/outbound.ts), settleReceivable, voidReceivable,           *)
(* applyCreditNoteToInvoice and arAging (src/receivables), with the        *)
(* balance of the ledger's receivable account beside the open items.       *)
(*                                                                         *)
(* Transactions are READ COMMITTED and lock nothing they read: a call      *)
(* reads an invoice in one step, checks for a duplicate in another and     *)
(* writes what it computed from the first in a third, which commits.  Any  *)
(* call may roll back before that.                                         *)
(***************************************************************************)
EXTENDS Integers, FiniteSets, FiniteSetsExt

CONSTANTS
  Invoices,    \* outbound invoices
  Notes,       \* outbound credit notes
  BankTxns,    \* bank transactions, incoming
  Sessions,    \* concurrent requests
  Nothing,     \* no invoice, no bank transaction, no call
  Grand,       \* grand_total_cents of each invoice
  Amounts      \* amounts a settlement or a credit note may have

ASSUME ReceivablesAssumption ==
  /\ Grand \in [Invoices -> Nat \ {0}]
  /\ Amounts \subseteq Nat \ {0}
  /\ Nothing \notin Invoices \cup BankTxns
  /\ Invoices \cap BankTxns = {}
  /\ IsFiniteSet(Invoices) /\ IsFiniteSet(Notes)

VARIABLES
  status,   \* einvoices.status of an invoice, "none" before it is sent
  paid,     \* einvoices.amount_paid_cents
  rows,     \* the sum of its invoice_payments rows
  settled,  \* per bank transaction, how many invoice_payments rows carry it
  note,     \* per credit note: its total and the part applied to an invoice
  ledger,   \* balance of the receivable account, debits less credits
  call,     \* per session, the open transaction and what it has read
  contended \* history: the invoices and bank transactions on which two
            \* transactions were open at once

openItems == <<status, paid, rows, settled, note, ledger>>
vars      == <<openItems, call, contended>>

Statuses   == {"none", "open", "partially_paid", "paid", "void"}
Settleable == {"open", "partially_paid"}

Settlement == [op : {"settle", "checked"}, inv : Invoices, amount : Nat,
               txn : BankTxns \cup {Nothing}, paid : Nat]
Crediting  == [op : {"credit"}, inv : Invoices \cup {Nothing}, amount : Nat,
               note : Notes, paid : Nat]
Voiding    == [op : {"void"}, inv : Invoices]

Init ==
  /\ status = [i \in Invoices |-> "none"]
  /\ paid = [i \in Invoices |-> 0]
  /\ rows = [i \in Invoices |-> 0]
  /\ settled = [t \in BankTxns |-> 0]
  /\ note = [c \in Notes |-> [total |-> 0, applied |-> 0]]
  /\ ledger = 0
  /\ call = [s \in Sessions |-> Nothing]
  /\ contended = {}

-----------------------------------------------------------------------------
\* The rows a call is about: its invoice, and the bank transaction it settles.
About(c) == {c.inv} \cup (IF c.op \in {"settle", "checked"} THEN {c.txn} ELSE {})

InHand == UNION {About(call[r]) : r \in {q \in Sessions : call[q] # Nothing}}

Begin(s, c) ==
  /\ call[s] = Nothing
  /\ call' = [call EXCEPT ![s] = c]
  /\ contended' = contended \cup ((About(c) \cap InHand) \ {Nothing})

End(s) == call' = [call EXCEPT ![s] = Nothing] /\ UNCHANGED contended

\* sendInvoice: DR receivable, and the invoice is open.
SendInvoice(i) ==
  /\ status[i] = "none"
  /\ status' = [status EXCEPT ![i] = "open"]
  /\ ledger' = ledger + Grand[i]
  /\ UNCHANGED <<paid, rows, settled, note, call, contended>>

\* Mutant of Pay: what was paid before is forgotten.
PayForgetting(i, read, amount) ==
  /\ paid' = [paid EXCEPT ![i] = amount]
  /\ status' = [status EXCEPT ![i] =
       IF amount >= Grand[i] THEN "paid" ELSE "partially_paid"]
  /\ rows' = [rows EXCEPT ![i] = @ + amount]

\* The status and amount every payment leaves behind, computed from the
\* amount paid that the call has read.
Pay(i, read, amount) ==
  /\ paid' = [paid EXCEPT ![i] = read + amount]
  /\ status' = [status EXCEPT ![i] =
       IF read + amount >= Grand[i] THEN "paid" ELSE "partially_paid"]
  /\ rows' = [rows EXCEPT ![i] = @ + amount]

\* Mutant of SettleReads: any amount.
SettleReadsUncapped(s) ==
  /\ \E i \in Invoices, amount \in Amounts, t \in BankTxns \cup {Nothing} :
       /\ status[i] \in Settleable
       /\ Begin(s, [op |-> "settle", inv |-> i, amount |-> amount,
                    txn |-> t, paid |-> paid[i]])
  /\ UNCHANGED openItems

\* settleReceivable, from POST receivables/[id] (no bank transaction) or
\* from an approved bank match: its guards on what it reads.
SettleReads(s) ==
  /\ \E i \in Invoices, amount \in Amounts, t \in BankTxns \cup {Nothing} :
       /\ status[i] \in Settleable
       /\ amount <= Grand[i] - paid[i]
       /\ Begin(s, [op |-> "settle", inv |-> i, amount |-> amount,
                    txn |-> t, paid |-> paid[i]])
  /\ UNCHANGED openItems

\* Mutant of SettleChecks: no check.
SettleChecksNothing(s) ==
  /\ call[s] # Nothing /\ call[s].op = "settle"
  /\ call' = [call EXCEPT ![s].op = "checked"]
  /\ UNCHANGED <<openItems, contended>>

\* The dedup query on the bank transaction.
SettleChecks(s) ==
  /\ call[s] # Nothing /\ call[s].op = "settle"
  /\ call[s].txn # Nothing => settled[call[s].txn] = 0
  /\ call' = [call EXCEPT ![s].op = "checked"]
  /\ UNCHANGED <<openItems, contended>>

\* DR bank / CR receivable, the payment row, the invoice.
SettleCommits(s) ==
  LET c == call[s] IN
  /\ c # Nothing /\ c.op = "checked"
  /\ Pay(c.inv, c.paid, c.amount)
  /\ settled' = [t \in BankTxns |-> settled[t] + (IF t = c.txn THEN 1 ELSE 0)]
  /\ ledger' = ledger - c.amount
  /\ End(s)
  /\ UNCHANGED note

\* sendCreditNote up to applyCreditNoteToInvoice's SELECT: the corrected
\* invoice if it is open, else the note applies to nothing.
CreditReads(s) ==
  /\ \E c \in Notes, amount \in Amounts :
       /\ note[c].total = 0
       /\ \A r \in Sessions :
            call[r] # Nothing /\ call[r].op = "credit" => call[r].note # c
       /\ \E i \in {x \in Invoices : status[x] \in Settleable} \cup {Nothing} :
            Begin(s, [op |-> "credit", inv |-> i, amount |-> amount, note |-> c,
                      paid |-> IF i = Nothing THEN 0 ELSE paid[i]])
  /\ UNCHANGED openItems

\* What of a credit note its invoice can take, as read.
Applied(c) ==
  IF c.inv = Nothing THEN 0
  ELSE IF c.amount < Grand[c.inv] - c.paid THEN c.amount ELSE Grand[c.inv] - c.paid

\* CR receivable for the whole note; the applied part is a payment.
CreditCommits(s) ==
  LET c == call[s] IN
  /\ c # Nothing /\ c.op = "credit"
  /\ IF Applied(c) > 0 THEN Pay(c.inv, c.paid, Applied(c))
     ELSE UNCHANGED <<status, paid, rows>>
  /\ note' = [note EXCEPT ![c.note] = [total |-> c.amount, applied |-> Applied(c)]]
  /\ ledger' = ledger - c.amount
  /\ End(s)
  /\ UNCHANGED settled

\* Mutant of VoidReads: partially paid invoices too.
VoidReadsAny(s) ==
  /\ \E i \in Invoices :
       status[i] \in Settleable /\ Begin(s, [op |-> "void", inv |-> i])
  /\ UNCHANGED openItems

\* voidReceivable: open invoices only; nothing is posted.
VoidReads(s) ==
  /\ \E i \in Invoices :
       status[i] = "open" /\ Begin(s, [op |-> "void", inv |-> i])
  /\ UNCHANGED openItems

VoidCommits(s) ==
  /\ call[s] # Nothing /\ call[s].op = "void"
  /\ status' = [status EXCEPT ![call[s].inv] = "void"]
  /\ End(s)
  /\ UNCHANGED <<paid, rows, settled, note, ledger>>

\* A check throws, the period is closed, the connection is lost.
RollsBack(s) ==
  /\ call[s] # Nothing
  /\ End(s)
  /\ UNCHANGED openItems

Next ==
  \/ \E i \in Invoices : SendInvoice(i)
  \/ \E s \in Sessions :
       \/ SettleReads(s) \/ SettleChecks(s) \/ SettleCommits(s)
       \/ CreditReads(s) \/ CreditCommits(s)
       \/ VoidReads(s) \/ VoidCommits(s)
       \/ RollsBack(s)

Spec == Init /\ [][Next]_vars

-----------------------------------------------------------------------------
\* arAging's total: what is outstanding on open invoices, less what credit
\* notes have not been applied to an invoice.
AgingTotal ==
  SumFunctionOnSet([i \in Invoices |-> Grand[i] - paid[i]],
                   {i \in Invoices : status[i] \in Settleable})
  - SumFunction([c \in Notes |-> note[c].total - note[c].applied])

TypeOK ==
  /\ status \in [Invoices -> Statuses]
  /\ paid \in [Invoices -> Nat]
  /\ rows \in [Invoices -> Nat]
  /\ settled \in [BankTxns -> Nat]
  /\ note \in [Notes -> [total : Nat, applied : Nat]]
  /\ ledger \in Int
  /\ call \in [Sessions -> Settlement \cup Crediting \cup Voiding \cup {Nothing}]
  /\ contended \subseteq Invoices \cup BankTxns

\* However calls interleave, an invoice's amount and status agree: it is
\* never paid beyond its total, is paid exactly when the total is reached,
\* and still open only when nothing has been taken off it.
StatusMatchesAmount ==
  \A i \in Invoices :
    /\ paid[i] <= Grand[i]
    /\ status[i] = "paid" => paid[i] = Grand[i]
    /\ status[i] = "partially_paid" => 0 < paid[i] /\ paid[i] < Grand[i]
    /\ status[i] \in {"none", "open"} => paid[i] = 0

\* No payment is lost: the amount paid is what the payment rows add up to, on
\* every invoice that no two settlements, credit notes or voids were working
\* on at once, whatever overlaps elsewhere.
PaidIsRows == \A i \in Invoices \ contended : paid[i] = rows[i]

\* settlement.ts: "a given bank transaction may settle a receivable at most
\* once", unless two settlements by it have overlapped.
BankTxnSettlesOnce == \A t \in BankTxns \ contended : settled[t] <= 1

\* The open items tie to the ledger, invoice for invoice, but for voided ones:
\* voidReceivable takes an invoice out of the aging and leaves its entry in
\* the ledger.
AgingTiesToLedger ==
  contended \cap Invoices = {} =>
    AgingTotal + SumFunctionOnSet(Grand, {i \in Invoices : status[i] = "void"}) = ledger
=============================================================================
