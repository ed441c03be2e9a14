------------------------------- MODULE Books --------------------------------
(***************************************************************************)
(* The ledger of a company and what is read from it: postEntry and         *)
(* reverseEntry against openPeriod and closePeriod, the VAT declaration    *)
(* and the sales list and their filings, and the statements                *)
(* (src/ledger, src/tax, src/reports).                                     *)
(*                                                                         *)
(* A transaction is READ COMMITTED: each query of a report sees what has   *)
(* been committed when it runs, and a period read as open may be closed    *)
(* before the entry is inserted.                                           *)
(***************************************************************************)
EXTENDS Postings

CONSTANTS
  LastMonth,     \* bound: months 1..LastMonth
  Ranges,        \* the ranges of months declared
  Reported,      \* the ranges of months statements are about
  Parties,       \* customers with a VAT number the sales list accepts
  Sessions,      \* concurrent requests
  Nothing,       \* no open call, no filing, no customer
  MaxReversals   \* bound: reversals of an entry

Months == 1..LastMonth

ASSUME BooksAssumption ==
  /\ LastMonth \in Nat /\ MaxReversals \in Nat
  /\ IsFiniteSet(Docs) /\ IsFiniteSet(Parties) /\ Nothing \notin Parties
  /\ Ranges \cup Reported \subseteq [from : Months, to : Months]
  /\ \A p \in Ranges \cup Reported : p.from <= p.to
  /\ \A d \in Docs : Date(d) \in Months
  /\ \A c, d \in Docs : Kind(c) = "invoice" /\ Kind(d) = "invoice"
       /\ DocSpec[c].number = DocSpec[d].number => c = d

VARIABLES
  period,     \* accounting_periods.status of each month
  journal,    \* per document, how often it is posted and reversed
  filing,     \* the newest filing proposal
  call        \* per session, the open transaction and what it has read

vars == <<period, journal, filing, call>>

Init ==
  /\ period = [m \in Months |-> "none"]
  /\ journal = [d \in Docs |-> [posted |-> 0, reversed |-> 0]]
  /\ filing = Nothing
  /\ call = [s \in Sessions |-> Nothing]

At(s, op) == call[s] # Nothing /\ call[s].op = op
Posting(s) == At(s, "post")

Ends(s) == call' = [call EXCEPT ![s] = Nothing]

\* Calls that read and post nothing.
Reading(s) == call[s] # Nothing /\ ~Posting(s)

-----------------------------------------------------------------------------
(* What is read from the ledger and the documents.                         *)

Within(p) == {d \in Docs : p.from <= Date(d) /\ Date(d) <= p.to}

Entries(d) == journal[d].posted - journal[d].reversed

accountBalances(p) ==
  [a \in Accounts |-> SumFunction([d \in Within(p) |-> Entries(d) * Entry[d][a]])]

computeVat(p) ==
  LET b == accountBalances(p)
  IN  [output |-> -b["output_vat"], input |-> b["input_vat"]]

\* Documents that have an entry.
Booked(p) == {d \in Within(p) : journal[d].posted > 0}

Sign(d) == IF Kind(d) \in {"credit_note", "vendor_credit_note"} THEN -1 ELSE 1

Signed(ds, F(_)) == SumFunction([d \in ds |-> Sign(d) * F(d)])

\* Mutant of vatOfLines: the sum is rounded, not each line.
vatOfLinesRoundedOnce ==
  [d \in Docs |->
    LET of(F(_)) == SumOf(Lines(d), F)
        product(l) == IF selfAssesses(l) THEN l.net * l.rate ELSE 0
        claimed(l) == IF l.deductible THEN product(l) ELSE 0
    IN  [invoiced |-> of(LAMBDA l : l.vat),
         assessed |-> (of(product) + 5000) \div 10000,
         claimed  |-> (of(claimed) + 5000) \div 10000]]

\* The sums vatBreakdown takes over the lines of a document.
vatOfLines ==
  [d \in Docs |->
    LET of(F(_)) == SumOf(Lines(d), F)
    IN  [invoiced |-> of(LAMBDA l : l.vat),
         assessed |-> of(Assessed),
         claimed  |-> of(LAMBDA l : IF l.deductible THEN Assessed(l) ELSE 0)]]

vatBreakdown(p) ==
  LET sales == Booked(p) \cap Sales
      bills == Booked(p) \cap Purchases
      invoiced(d) == vatOfLines[d].invoiced
      assessed(d) == vatOfLines[d].assessed
      claimed(d)  == vatOfLines[d].claimed
  IN  [output |-> Signed(sales, invoiced) + Signed(bills, assessed),
       input  |-> Signed(bills, invoiced) + Signed(bills, claimed)]

\* A credit note is its invoice's customer's, if that invoice is known.
\* (Numbers are unique here; of two invoices with a number the code takes the
\* oldest.)
customerOf(d) ==
  LET corrected == {o \in Docs : /\ Kind(o) = "invoice" /\ journal[o].posted > 0
                                 /\ DocSpec[o].number = DocSpec[d].corrects}
  IN  IF Kind(d) = "invoice" THEN DocSpec[d].customer
      ELSE IF corrected = {} THEN Nothing
      ELSE DocSpec[CHOOSE o \in corrected : TRUE].customer

SupplyTypes == {"goods", "services"}

\* Net supplies of a document, by type, whose VAT the customer accounts for.
Supplied ==
  [d \in Docs |-> [type \in SupplyTypes |->
    SumOf(Lines(d), LAMBDA l :
      IF l.category = (IF type = "goods" THEN "K" ELSE "AE") THEN l.net ELSE 0)]]

OnSalesList(d) == \E i \in DOMAIN Lines(d) : selfAssesses(Lines(d)[i])

\* Mutant of ecSalesList: credit notes are added.
ecSalesListUnsigned(p) ==
  LET listed == {d \in Booked(p) \cap Sales : OnSalesList(d)}
      of(c)  == {d \in listed : customerOf(d) = c}
  IN  [rows |-> [x \in Parties \X SupplyTypes |->
                  SumFunction([d \in of(x[1]) |-> Supplied[d][x[2]]])],
       issues |-> {d \in listed : customerOf(d) \notin Parties}]

\* Net supplies by customer and type; the documents that cannot be reported.
ecSalesList(p) ==
  LET listed == {d \in Booked(p) \cap Sales : OnSalesList(d)}
      of(c)  == {d \in listed : customerOf(d) = c}
  IN  [rows |-> [x \in Parties \X SupplyTypes |->
                  Signed(of(x[1]), LAMBDA d : Supplied[d][x[2]])],
       issues |-> {d \in listed : customerOf(d) \notin Parties}]

-----------------------------------------------------------------------------
(* The statements, from balances.                                          *)

Total(b, as) == SumFunctionOnSet(b, as)

OfType(type) == {a \in Accounts : AccountType[a] = type}

classifyActivity(a) ==
  CASE a = "cash" -> "cash"
    [] AccountType[a] = "equity" \/ a = "loan" -> "financing"
    [] a = "fixed" -> "investing"
    [] OTHER -> "operating"

resultCents(b) == -Total(b, OfType("income") \cup OfType("expense"))

equityCents(b) == resultCents(b) - Total(b, OfType("equity"))

balanceSheet(b) ==
  [assets |-> Total(b, OfType("asset")),
   liabilitiesAndEquity |-> equityCents(b) - Total(b, OfType("liability"))]

cashCents(b) == Total(b, {a \in Accounts : classifyActivity(a) = "cash"})

netChangeCents(b) == -Total(b, {a \in Accounts : classifyActivity(a) # "cash"})

EquityBridges(read) ==
  equityCents(read["opening"]) + equityCents(read["movement"])
    = equityCents(read["closing"])

CashReconciles(read) ==
  cashCents(read["opening"]) + netChangeCents(read["movement"])
    = cashCents(read["closing"])

-----------------------------------------------------------------------------
(* Periods and postings.                                                   *)

Unseal(c, m) ==
  IF c # Nothing /\ "final" \in DOMAIN c /\ m \in c.range.from..c.range.to
    THEN [c EXCEPT !.final = FALSE] ELSE c

\* What was read of the month is no longer final.
openPeriod(m) ==
  /\ period[m] # "open"
  /\ period' = [period EXCEPT ![m] = "open"]
  /\ filing' = Unseal(filing, m)
  /\ call' = [s \in Sessions |-> Unseal(call[s], m)]
  /\ UNCHANGED <<journal>>

closePeriod(m) ==
  /\ period[m] = "open"
  /\ period' = [period EXCEPT ![m] = "closed"]
  /\ UNCHANGED <<journal, filing, call>>

Begins(s, c) == call[s] = Nothing /\ call' = [call EXCEPT ![s] = c]

BeginsPosting(s, d, as) ==
  /\ Begins(s, [op |-> "post", doc |-> d, as |-> as])
  /\ UNCHANGED <<period, journal, filing>>

\* Mutant of postEntry: the period is not looked at.
postEntryAnyPeriod(d) == d \in WellFormed \cap Balanced

\* Mutant of postEntry: debits and credits are not compared.
postEntryUnbalanced(d) == d \in WellFormed /\ period[Date(d)] = "open"

\* The checks of postEntry, before it inserts.
postEntry(d) ==
  /\ d \in WellFormed
  /\ d \in Balanced
  /\ period[Date(d)] = "open"

\* A document that has no entry is posted: an invoice or credit note sent, a
\* posting proposal approved.
PostReads(s) ==
  \E d \in Docs :
    /\ d \in Acceptable
    /\ journal[d].posted = 0
    /\ postEntry(d)
    /\ BeginsPosting(s, d, "posted")

\* reverseEntry: the same date, the sides swapped.  Nothing asks whether the
\* entry has been reversed.
ReverseReads(s) ==
  \E d \in Docs :
    /\ journal[d].posted > 0
    /\ journal[d].reversed < MaxReversals
    /\ postEntry(d)
    /\ BeginsPosting(s, d, "reversed")

\* A statement reads from the first month on, the others their range.
Concerns(c, m) == m <= c.range.to /\ (c.op = "statement" \/ m >= c.range.from)

\* The entry is inserted and committed, between the queries of a report.
PostCommits(s) ==
  LET d == call[s].doc IN
  /\ Posting(s)
  /\ journal' = [journal EXCEPT ![d][call[s].as] = @ + 1]
  /\ call' = [r \in Sessions |->
       IF r = s THEN Nothing
       ELSE IF Reading(r) /\ Concerns(call[r], Date(d))
         THEN [call[r] EXCEPT !.disturbed = TRUE]
         ELSE call[r]]
  /\ UNCHANGED <<period, filing>>

-----------------------------------------------------------------------------
(* Declarations.                                                           *)

\* Closed, with no posting in hand: what is read now is final.
Sealed(p) ==
  \A m \in p.from..p.to :
    /\ period[m] = "closed"
    /\ ~\E r \in Sessions : Posting(r) /\ Date(call[r].doc) = m

\* assembleVatDeclaration reads the ledger, ...
DeclarationReads(s) ==
  /\ \E p \in Ranges :
       Begins(s, [op |-> "declare", range |-> p, disturbed |-> FALSE,
                  final |-> Sealed(p), vat |-> computeVat(p)])
  /\ UNCHANGED <<period, journal, filing>>

\* ... and then the documents.
DeclarationCompares(s) ==
  LET c == call[s] IN
  /\ At(s, "declare")
  /\ call' = [call EXCEPT ![s] =
       [op |-> "declared", range |-> c.range, disturbed |-> c.disturbed,
        final |-> c.final,
        payload |-> [vat |-> c.vat, documents |-> vatBreakdown(c.range)]]]
  /\ UNCHANGED <<period, journal, filing>>

SalesListReads(s) ==
  /\ \E p \in Ranges :
       Begins(s, [op |-> "listed", range |-> p, disturbed |-> FALSE,
                  final |-> Sealed(p), payload |-> ecSalesList(p)])
  /\ UNCHANGED <<period, journal, filing>>

\* createVatDeclarationProposal, createEcslProposal; findFilingProposal finds
\* the newest of a range.
Files(s) ==
  /\ At(s, "declared") \/ At(s, "listed")
  /\ filing' = [op |-> call[s].op, range |-> call[s].range,
                payload |-> call[s].payload, final |-> call[s].final]
  /\ Ends(s)
  /\ UNCHANGED <<period, journal>>

-----------------------------------------------------------------------------
(* Statements: three queries, in the order of the report.                  *)

Queries(kind) == IF kind = "equity" THEN <<"opening", "closing", "movement">>
                                    ELSE <<"movement", "closing", "opening">>

Span(query, p) ==
  CASE query = "opening"  -> [from |-> 1, to |-> p.from - 1]
    [] query = "closing"  -> [from |-> 1, to |-> p.to]
    [] query = "movement" -> p

StatementBegins(s) ==
  /\ \E p \in Reported, kind \in {"equity", "cash"} :
       Begins(s, [op |-> "statement", range |-> p, disturbed |-> FALSE, kind |-> kind,
                  read |-> LET q == Queries(kind)[1]
                           IN  [k \in {q} |-> accountBalances(Span(q, p))]])
  /\ UNCHANGED <<period, journal, filing>>

AllRead(c) == Cardinality(DOMAIN c.read) = 3

StatementReads(s) ==
  LET c == call[s] IN
  /\ At(s, "statement") /\ ~AllRead(c)
  /\ LET q == Queries(c.kind)[Cardinality(DOMAIN c.read) + 1]
     IN  call' = [call EXCEPT ![s].read =
           [k \in DOMAIN @ \cup {q} |->
             IF k = q THEN accountBalances(Span(q, c.range)) ELSE @[k]]]
  /\ UNCHANGED <<period, journal, filing>>

\* A report is returned, a check throws.
Returns(s) ==
  /\ call[s] # Nothing
  /\ Ends(s)
  /\ UNCHANGED <<period, journal, filing>>

Next ==
  \/ \E m \in Months : openPeriod(m) \/ closePeriod(m)
  \/ \E s \in Sessions :
       \/ PostReads(s) \/ ReverseReads(s) \/ PostCommits(s)
       \/ DeclarationReads(s) \/ DeclarationCompares(s) \/ SalesListReads(s) \/ Files(s)
       \/ StatementBegins(s) \/ StatementReads(s)
       \/ Returns(s)

Spec == Init /\ [][Next]_vars

-----------------------------------------------------------------------------
(* Properties.                                                             *)

Vat == [output : Int, input : Int]
Declaration == [vat : Vat, documents : Vat]
SalesList == [rows : [Parties \X SupplyTypes -> Int], issues : SUBSET Docs]
Balances == [Accounts -> Int]
Answers == [{"opening"} -> Balances] \cup [{"opening", "closing"} -> Balances]
           \cup [{"movement"} -> Balances] \cup [{"movement", "closing"} -> Balances]
           \cup [{"opening", "closing", "movement"} -> Balances]

Calls ==
  [op : {"post"}, doc : Docs, as : {"posted", "reversed"}]
  \cup [op : {"declare"}, range : Ranges, disturbed : BOOLEAN, final : BOOLEAN, vat : Vat]
  \cup [op : {"declared"}, range : Ranges, disturbed : BOOLEAN, final : BOOLEAN,
        payload : Declaration]
  \cup [op : {"listed"}, range : Ranges, disturbed : BOOLEAN, final : BOOLEAN,
        payload : SalesList]
  \cup [op : {"statement"}, range : Reported, disturbed : BOOLEAN,
        kind : {"equity", "cash"}, read : Answers]

Filings ==
  [op : {"declared"}, range : Ranges, payload : Declaration, final : BOOLEAN]
  \cup [op : {"listed"}, range : Ranges, payload : SalesList, final : BOOLEAN]

\* Periods, the journal, the newest filing and open calls have their types.
TypeOK ==
  /\ period \in [Months -> {"none", "open", "closed"}]
  /\ journal \in [Docs -> [posted : Nat, reversed : Nat]]
  /\ filing \in Filings \cup {Nothing}
  /\ call \in [Sessions -> Calls \cup {Nothing}]

\* Entries without a line that vatBreakdown reads: of claims, captured
\* documents and by hand, a second entry of a document, and every reversal.
Unseen(p, a) ==
  LET lines(d)  == IF d \in Booked(p) \cap (Sales \cup Purchases) THEN 1 ELSE 0
  IN  SumFunction([d \in Within(p) |-> (Entries(d) - lines(d)) * Entry[d][a]])

\* A declaration that no posting fell into differs from the documents by what
\* they cannot show and by nothing else: it is not lost to rounding, signs or
\* deductibility whether the two reconcile.
VatReconciles ==
  \A s \in Sessions :
    At(s, "declared") /\ ~call[s].disturbed =>
      LET vat  == call[s].payload.vat
          docs == call[s].payload.documents
      IN  /\ vat.output - docs.output = -Unseen(call[s].range, "output_vat")
          /\ vat.input - docs.input = Unseen(call[s].range, "input_vat")

\* The sales list and the VAT breakdown agree on supplies whose VAT the
\* customer accounts for: every cent of them is in a row or in a document
\* named as an issue.
SalesListTies ==
  \A s \in Sessions : At(s, "listed") /\ ~call[s].disturbed =>
    LET p      == call[s].range
        list   == call[s].payload
        net(d) == Supplied[d]["goods"] + Supplied[d]["services"]
    IN  SumFunction(list.rows) + Signed(list.issues, net)
        = Signed(Booked(p) \cap Sales, net)

\* A filing prepared when its months were closed, with no posting in hand,
\* still says what the ledger and the documents say, until one is reopened.
\* (A sales list only if it had no issue: one may resolve by an invoice of
\* another month.)
FiledIsFinal ==
  filing # Nothing /\ filing.final =>
    LET p == filing.range IN
    IF filing.op = "declared"
      THEN filing.payload = [vat |-> computeVat(p), documents |-> vatBreakdown(p)]
      ELSE filing.payload.issues = {} => filing.payload = ecSalesList(p)

\* A statement whose three queries no posting fell between bridges opening to
\* closing, ties to the balance sheet, and that balances.
StatementsTie ==
  \A s \in Sessions :
    At(s, "statement") /\ AllRead(call[s]) /\ ~call[s].disturbed =>
      LET read  == call[s].read
          sheet == balanceSheet(read["closing"])
      IN  /\ EquityBridges(read)
          /\ CashReconciles(read)
          /\ sheet.assets = sheet.liabilitiesAndEquity

=============================================================================
