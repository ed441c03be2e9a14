------------------------------ MODULE Postings ------------------------------
(***************************************************************************)
(* What the documents of a company post to its ledger, and the VAT of      *)
(* their lines: buildBillEntry, buildCreditNoteEntry, buildClaimEntry,     *)
(* extractedToJournalEntry, the entries of sendInvoice and sendCreditNote, *)
(* and the checks a document passes before (src/payables, src/expenses,    *)
(* src/intake, src/einvoice, src/tax/categories.ts).                       *)
(*                                                                         *)
(* An entry is a function from accounts to cents, debits positive.         *)
(***************************************************************************)
EXTENDS Integers, Sequences, FiniteSets, Functions

CONSTANTS
  Docs,     \* documents: what posts one entry
  DocSpec   \* per document: kind, date (a month), lines, grand, and for sales
            \* the number, the customer and the number it corrects

Kinds == {"invoice", "credit_note", "bill", "vendor_credit_note",
          "claim", "capture", "manual"}

VatCategories == {"S", "Z", "E", "AE", "K", "G", "O"}

AccountType ==
  [cash |-> "asset", fixed |-> "asset", receivable |-> "asset", input_vat |-> "asset",
   payable |-> "liability", output_vat |-> "liability", loan |-> "liability",
   equity |-> "equity", sales |-> "income", expense |-> "expense"]

Accounts == DOMAIN AccountType

\* rate in hundredths of a percent; account is where the net goes.
LineType == [account : Accounts, net : Int, vat : Int, rate : Nat,
             category : VatCategories, deductible : BOOLEAN]

ASSUME PostingsAssumption ==
  \A d \in Docs :
    /\ DocSpec[d].kind \in Kinds
    /\ DocSpec[d].date \in Nat
    /\ DocSpec[d].grand \in Int
    /\ DocSpec[d].lines \in Seq(LineType)
    /\ DocSpec[d].kind = "capture" => DocSpec[d].lines # <<>>

Date(d) == DocSpec[d].date
Kind(d) == DocSpec[d].kind
Lines(d) == DocSpec[d].lines

SumOf(ls, F(_)) == SumFunction([i \in DOMAIN ls |-> F(ls[i])])

-----------------------------------------------------------------------------
(* VAT of a line.                                                          *)

selfAssesses(l) == l.category \in {"AE", "K"}

selfAssessedVatCents(net, rate) == (net * rate + 5000) \div 10000

Assessed(l) == IF selfAssesses(l) THEN selfAssessedVatCents(l.net, l.rate) ELSE 0

\* No issue: the sales side of a reverse charge has no rate, ours has one.
categoryConsistent(l, side) ==
  IF l.category = "S" THEN l.rate > 0
  ELSE /\ l.vat = 0
       /\ IF selfAssesses(l) /\ side = "purchase" THEN l.rate > 0 ELSE l.rate = 0

-----------------------------------------------------------------------------
(* Entries.                                                                *)

On(ls, a, F(_)) == SumOf(ls, LAMBDA l : IF l.account = a THEN F(l) ELSE 0)

Reversed(e) == [a \in Accounts |-> -e[a]]

\* VAT that cannot be deducted is part of the cost.
buildBillEntry(ls) ==
  LET cost(l)       == l.net + (IF l.deductible THEN 0 ELSE Assessed(l))
      deductible(l) == l.vat + (IF l.deductible THEN Assessed(l) ELSE 0)
      invoiced(l)   == l.net + l.vat
  IN  [a \in Accounts |->
        On(ls, a, cost) +
        CASE a = "input_vat"  -> SumOf(ls, deductible)
          [] a = "payable"    -> -SumOf(ls, invoiced)
          [] a = "output_vat" -> -SumOf(ls, Assessed)
          [] OTHER            -> 0]

buildClaimEntry(ls) ==
  LET cost(l)       == l.net + (IF l.deductible THEN 0 ELSE l.vat)
      deductible(l) == IF l.deductible THEN l.vat ELSE 0
      gross(l)      == l.net + l.vat
  IN  [a \in Accounts |->
        On(ls, a, cost) +
        CASE a = "input_vat" -> SumOf(ls, deductible)
          [] a = "payable"   -> -SumOf(ls, gross)
          [] OTHER           -> 0]

\* One line of totals; the total payable is what the extractor read.
extractedToJournalEntry(l, grand) ==
  [a \in Accounts |-> CASE a = l.account   -> l.net
                        [] a = "input_vat" -> l.vat
                        [] a = "payable"   -> -grand
                        [] OTHER           -> 0]

invoiceEntry(ls) ==
  LET net(l) == l.net
      vat(l) == l.vat
  IN  [a \in Accounts |-> CASE a = "receivable" -> SumOf(ls, net) + SumOf(ls, vat)
                            [] a = "sales"      -> -SumOf(ls, net)
                            [] a = "output_vat" -> -SumOf(ls, vat)
                            [] OTHER            -> 0]

Entry == [d \in Docs |->
  CASE Kind(d) = "invoice"            -> invoiceEntry(Lines(d))
    [] Kind(d) = "credit_note"        -> Reversed(invoiceEntry(Lines(d)))
    [] Kind(d) = "bill"               -> buildBillEntry(Lines(d))
    [] Kind(d) = "vendor_credit_note" -> Reversed(buildBillEntry(Lines(d)))
    [] Kind(d) = "claim"              -> buildClaimEntry(Lines(d))
    [] Kind(d) = "capture"            -> extractedToJournalEntry(Lines(d)[1], DocSpec[d].grand)
    [] OTHER                          -> [a \in Accounts |-> On(Lines(d), a, LAMBDA l : l.net)]]

Sales == {d \in Docs : Kind(d) \in {"invoice", "credit_note"}}
Purchases == {d \in Docs : Kind(d) \in {"bill", "vendor_credit_note"}}

\* The schemas of the documents.
Acceptable ==
  {d \in Docs : \A i \in DOMAIN Lines(d) :
     LET l == Lines(d)[i] IN
     CASE d \in Sales -> categoryConsistent(l, "sales")
       [] d \in Purchases -> categoryConsistent(l, "purchase") /\ l.net >= 0 /\ l.vat >= 0
       [] OTHER -> TRUE}

\* The schema of an entry: each of its lines moves money.  A captured document
\* always has three.
WellFormed ==
  {d \in Docs :
     CASE d \in Sales -> SumOf(Lines(d), LAMBDA l : l.net) > 0
       [] Kind(d) = "capture" -> /\ Lines(d)[1].net > 0 /\ Lines(d)[1].vat > 0
                                 /\ DocSpec[d].grand > 0
       [] Kind(d) = "manual" -> \A i \in DOMAIN Lines(d) : Lines(d)[i].net # 0
       [] OTHER -> \A i \in DOMAIN Lines(d) : Lines(d)[i].net > 0}

Balanced == {d \in Docs : SumFunction(Entry[d]) = 0}

=============================================================================
