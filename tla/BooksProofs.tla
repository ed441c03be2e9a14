---------------------------- MODULE BooksProofs -----------------------------
(***************************************************************************)
(* Theorems about the ledger and its reports, for all documents, months    *)
(* and sessions.                                                           *)
(***************************************************************************)
EXTENDS Books, SumTheorems, TLAPS

-----------------------------------------------------------------------------
(***************************************************************************)
(* What documents amount to.                                               *)
(***************************************************************************)
LEMMA AccountsFinite == IsFiniteSet(Accounts)
<1>1. /\ IsFiniteSet({"cash"} \cup {"fixed"})
      /\ IsFiniteSet({"receivable"} \cup {"input_vat"})
      /\ IsFiniteSet({"payable"} \cup {"output_vat"})
      /\ IsFiniteSet({"loan"} \cup {"equity"})
      /\ IsFiniteSet({"sales"} \cup {"expense"})
  BY FS_Singleton, FS_Union
<1>2. IsFiniteSet(({"cash"} \cup {"fixed"}) \cup ({"receivable"} \cup {"input_vat"}))
  BY <1>1, FS_Union
<1>3. IsFiniteSet(({"payable"} \cup {"output_vat"}) \cup ({"loan"} \cup {"equity"}))
  BY <1>1, FS_Union
<1>4. IsFiniteSet((({"cash"} \cup {"fixed"}) \cup ({"receivable"} \cup {"input_vat"}))
        \cup (({"payable"} \cup {"output_vat"}) \cup ({"loan"} \cup {"equity"})))
  BY <1>2, <1>3, FS_Union
<1>5. IsFiniteSet(((({"cash"} \cup {"fixed"}) \cup ({"receivable"} \cup {"input_vat"}))
        \cup (({"payable"} \cup {"output_vat"}) \cup ({"loan"} \cup {"equity"})))
        \cup ({"sales"} \cup {"expense"}))
  BY <1>1, <1>4, FS_Union
<1>6. Accounts = ((({"cash"} \cup {"fixed"}) \cup ({"receivable"} \cup {"input_vat"}))
        \cup (({"payable"} \cup {"output_vat"}) \cup ({"loan"} \cup {"equity"})))
        \cup ({"sales"} \cup {"expense"})
  BY DEF Accounts, AccountType
<1>7. QED
  BY <1>5, <1>6

LEMMA DocsTyped ==
  ASSUME NEW d \in Docs
  PROVE  /\ Lines(d) \in Seq(LineType) /\ IsFiniteSet(DOMAIN Lines(d))
         /\ \A i \in DOMAIN Lines(d) : Lines(d)[i] \in LineType
         /\ Kind(d) \in Kinds /\ DocSpec[d].grand \in Int
         /\ Kind(d) = "capture" => Lines(d)[1] \in LineType
         /\ Date(d) \in Months
<1>1. /\ Lines(d) \in Seq(LineType) /\ Kind(d) \in Kinds /\ DocSpec[d].grand \in Int
      /\ Kind(d) = "capture" => Lines(d) # <<>>
  BY PostingsAssumption DEF Lines, Kind
<1>2. Date(d) \in Months
  BY BooksAssumption
<1>3. DOMAIN Lines(d) = 1..Len(Lines(d)) /\ Len(Lines(d)) \in Nat
  BY <1>1
<1>4. IsFiniteSet(DOMAIN Lines(d))
  BY <1>3, FS_Interval
<1>5. \A i \in DOMAIN Lines(d) : Lines(d)[i] \in LineType
  BY <1>1, <1>3
<1>6. Lines(d) # <<>> => 1 \in DOMAIN Lines(d)
  BY <1>1, <1>3
<1>7. QED
  BY <1>1, <1>2, <1>4, <1>5, <1>6

LEMMA LinesTyped ==
  ASSUME NEW l \in LineType
  PROVE  /\ l.net \in Int /\ l.vat \in Int /\ l.deductible \in BOOLEAN
         /\ l.account \in Accounts /\ Assessed(l) \in Int
<1>1. l.net \in Int /\ l.vat \in Int /\ l.rate \in Int /\ l.deductible \in BOOLEAN
      /\ l.account \in Accounts
  BY DEF LineType
<1>2. l.net * l.rate \in Int
  BY <1>1
<1>3. (l.net * l.rate + 5000) \div 10000 \in Int
  BY <1>2
<1>4. QED
  BY <1>1, <1>3 DEF Assessed, selfAssessedVatCents

\* Any amount summed over the lines of a document.
LEMMA SumsTyped ==
  ASSUME NEW S, IsFiniteSet(S), NEW f, DOMAIN f = S, \A x \in S : f[x] \in Int
  PROVE  SumFunction(f) \in Int /\ SumFunction(f) = SumFunctionOnSet(f, S)
<1>1. SumFunction(f) = SumFunctionOnSet(f, S)
  BY DEF SumFunction
<1>2. QED
  BY <1>1, SumRecursion

\* The sums entries and breakdowns are made of.
LEMMA LineSums ==
  ASSUME NEW d \in Docs
  PROVE  /\ SumOf(Lines(d), LAMBDA l : l.net) \in Int
         /\ SumOf(Lines(d), LAMBDA l : l.vat) \in Int
         /\ SumOf(Lines(d), Assessed) \in Int
         /\ SumOf(Lines(d), LAMBDA l : l.net + l.vat) \in Int
         /\ SumOf(Lines(d), LAMBDA l : IF l.deductible THEN Assessed(l) ELSE 0) \in Int
         /\ SumOf(Lines(d), LAMBDA l : IF l.deductible THEN l.vat ELSE 0) \in Int
<1>1. \A i \in DOMAIN Lines(d) :
        /\ Lines(d)[i].net \in Int /\ Lines(d)[i].vat \in Int
        /\ Assessed(Lines(d)[i]) \in Int
  BY DocsTyped, LinesTyped
<1> DEFINE ls == Lines(d)
           net == [i \in DOMAIN ls |-> ls[i].net]
           vat == [i \in DOMAIN ls |-> ls[i].vat]
           assessed == [i \in DOMAIN ls |-> Assessed(ls[i])]
           gross == [i \in DOMAIN ls |-> ls[i].net + ls[i].vat]
           claimed == [i \in DOMAIN ls |-> IF ls[i].deductible THEN Assessed(ls[i]) ELSE 0]
           taken == [i \in DOMAIN ls |-> IF ls[i].deductible THEN ls[i].vat ELSE 0]
<1>2. IsFiniteSet(DOMAIN ls)
  BY DocsTyped
<1>3. /\ DOMAIN net = DOMAIN ls /\ \A i \in DOMAIN ls : net[i] \in Int
      /\ DOMAIN vat = DOMAIN ls /\ \A i \in DOMAIN ls : vat[i] \in Int
      /\ DOMAIN assessed = DOMAIN ls /\ \A i \in DOMAIN ls : assessed[i] \in Int
      /\ DOMAIN gross = DOMAIN ls /\ \A i \in DOMAIN ls : gross[i] \in Int
      /\ DOMAIN claimed = DOMAIN ls /\ \A i \in DOMAIN ls : claimed[i] \in Int
      /\ DOMAIN taken = DOMAIN ls /\ \A i \in DOMAIN ls : taken[i] \in Int
  BY <1>1
<1> HIDE DEF net, vat, assessed, gross, claimed, taken
<1>4. /\ SumFunction(net) \in Int /\ SumFunction(vat) \in Int
      /\ SumFunction(assessed) \in Int /\ SumFunction(gross) \in Int
      /\ SumFunction(claimed) \in Int /\ SumFunction(taken) \in Int
  <2> HIDE DEF ls
  <2>1. QED
    BY <1>2, <1>3, SumsTyped
<1>5. QED
  BY <1>4 DEF SumOf, net, vat, assessed, gross, claimed, taken

\* What the lines of a document put on one account.
LEMMA LinesOnAccount ==
  ASSUME NEW d \in Docs, NEW a \in Accounts
  PROVE  /\ On(Lines(d), a, LAMBDA l : l.net) \in Int
         /\ On(Lines(d), a, LAMBDA l : l.net + (IF l.deductible THEN 0 ELSE Assessed(l))) \in Int
         /\ On(Lines(d), a, LAMBDA l : l.net + (IF l.deductible THEN 0 ELSE l.vat)) \in Int
         /\ SumOf(Lines(d), LAMBDA l : l.vat + (IF l.deductible THEN Assessed(l) ELSE 0)) \in Int
<1>1. \A i \in DOMAIN Lines(d) :
        /\ Lines(d)[i].net \in Int /\ Lines(d)[i].vat \in Int
        /\ Assessed(Lines(d)[i]) \in Int
  BY DocsTyped, LinesTyped
<1> DEFINE ls == Lines(d)
           net == [i \in DOMAIN ls |-> IF ls[i].account = a THEN ls[i].net ELSE 0]
           cost == [i \in DOMAIN ls |-> IF ls[i].account = a
                      THEN ls[i].net + (IF ls[i].deductible THEN 0 ELSE Assessed(ls[i]))
                      ELSE 0]
           price == [i \in DOMAIN ls |-> IF ls[i].account = a
                       THEN ls[i].net + (IF ls[i].deductible THEN 0 ELSE ls[i].vat)
                       ELSE 0]
           taken == [i \in DOMAIN ls |->
                       ls[i].vat + (IF ls[i].deductible THEN Assessed(ls[i]) ELSE 0)]
<1>2. IsFiniteSet(DOMAIN ls)
  BY DocsTyped
<1>3. /\ DOMAIN net = DOMAIN ls /\ \A i \in DOMAIN ls : net[i] \in Int
      /\ DOMAIN cost = DOMAIN ls /\ \A i \in DOMAIN ls : cost[i] \in Int
      /\ DOMAIN price = DOMAIN ls /\ \A i \in DOMAIN ls : price[i] \in Int
      /\ DOMAIN taken = DOMAIN ls /\ \A i \in DOMAIN ls : taken[i] \in Int
  BY <1>1
<1> HIDE DEF net, cost, price, taken
<1>4. /\ SumFunction(net) \in Int /\ SumFunction(cost) \in Int
      /\ SumFunction(price) \in Int /\ SumFunction(taken) \in Int
  <2> HIDE DEF ls
  <2>1. QED
    BY <1>2, <1>3, SumsTyped
<1>5. QED
  BY <1>4 DEF On, SumOf, net, cost, price, taken

LEMMA BillsTyped ==
  ASSUME NEW d \in Docs, NEW a \in Accounts
  PROVE  buildBillEntry(Lines(d))[a] \in Int
<1>1. /\ On(Lines(d), a, LAMBDA l : l.net + (IF l.deductible THEN 0 ELSE Assessed(l))) \in Int
      /\ SumOf(Lines(d), LAMBDA l : l.vat + (IF l.deductible THEN Assessed(l) ELSE 0)) \in Int
      /\ SumOf(Lines(d), LAMBDA l : l.net + l.vat) \in Int
      /\ SumOf(Lines(d), Assessed) \in Int
  BY LinesOnAccount, LineSums
<1>2. QED
  BY <1>1 DEF buildBillEntry, On, SumOf

LEMMA EntriesTyped == Entry \in [Docs -> [Accounts -> Int]]
<1> SUFFICES ASSUME NEW d \in Docs PROVE Entry[d] \in [Accounts -> Int]
  BY DEF Entry
<1>1. ASSUME NEW a \in Accounts PROVE invoiceEntry(Lines(d))[a] \in Int
  <2>1. SumOf(Lines(d), LAMBDA l : l.net) \in Int /\ SumOf(Lines(d), LAMBDA l : l.vat) \in Int
    BY LineSums
  <2>2. QED
    BY <2>1 DEF invoiceEntry, SumOf
<1>2. ASSUME NEW a \in Accounts PROVE buildClaimEntry(Lines(d))[a] \in Int
  <2>1. /\ On(Lines(d), a, LAMBDA l : l.net + (IF l.deductible THEN 0 ELSE l.vat)) \in Int
        /\ SumOf(Lines(d), LAMBDA l : IF l.deductible THEN l.vat ELSE 0) \in Int
        /\ SumOf(Lines(d), LAMBDA l : l.net + l.vat) \in Int
    BY LinesOnAccount, LineSums
  <2>2. QED
    BY <2>1 DEF buildClaimEntry, On, SumOf
<1>3. CASE Kind(d) = "invoice"
  BY <1>1, <1>3 DEF Entry, invoiceEntry
<1>4. CASE Kind(d) = "credit_note"
  BY <1>1, <1>4 DEF Entry, Reversed
<1>5. CASE Kind(d) = "bill"
  BY BillsTyped, <1>5 DEF Entry, buildBillEntry
<1>6. CASE Kind(d) = "vendor_credit_note"
  BY BillsTyped, <1>6 DEF Entry, Reversed
<1>7. CASE Kind(d) = "claim"
  BY <1>2, <1>7 DEF Entry, buildClaimEntry
<1>8. CASE Kind(d) = "capture"
  <2>1. Lines(d)[1].net \in Int /\ Lines(d)[1].vat \in Int /\ DocSpec[d].grand \in Int
    BY <1>8, DocsTyped, LinesTyped
  <2>2. Entry[d] = extractedToJournalEntry(Lines(d)[1], DocSpec[d].grand)
    BY <1>8 DEF Entry
  <2>3. QED
    BY <2>1, <2>2 DEF extractedToJournalEntry
<1>9. CASE Kind(d) = "manual"
  <2>1. \A a \in Accounts : On(Lines(d), a, LAMBDA l : l.net) \in Int
    BY LinesOnAccount
  <2>2. Entry[d] = [a \in Accounts |-> On(Lines(d), a, LAMBDA l : l.net)]
    BY <1>9 DEF Entry
  <2>3. QED
    BY <2>1, <2>2
<1>10. QED
  BY <1>3, <1>4, <1>5, <1>6, <1>7, <1>8, <1>9, DocsTyped DEF Kinds

-----------------------------------------------------------------------------
(***************************************************************************)
(* What documents say of VAT.                                              *)
(***************************************************************************)
\* A supplier's lines go to accounts of costs and assets, none to the two of
\* VAT that the entry itself uses.
VatReserved ==
  \A d \in Purchases : \A i \in DOMAIN Lines(d) :
    Lines(d)[i].account \notin {"input_vat", "output_vat"}

LEMMA VatOfLines ==
  ASSUME NEW d \in Docs
  PROVE  /\ vatOfLines[d].invoiced = SumOf(Lines(d), LAMBDA l : l.vat)
         /\ vatOfLines[d].assessed = SumOf(Lines(d), Assessed)
         /\ vatOfLines[d].claimed
              = SumOf(Lines(d), LAMBDA l : IF l.deductible THEN Assessed(l) ELSE 0)
         /\ vatOfLines[d].invoiced \in Int /\ vatOfLines[d].assessed \in Int
         /\ vatOfLines[d].claimed \in Int
<1>1. /\ vatOfLines[d].invoiced = SumOf(Lines(d), LAMBDA l : l.vat)
      /\ vatOfLines[d].assessed = SumOf(Lines(d), Assessed)
      /\ vatOfLines[d].claimed
           = SumOf(Lines(d), LAMBDA l : IF l.deductible THEN Assessed(l) ELSE 0)
  BY DEF vatOfLines, SumOf
<1>2. /\ SumOf(Lines(d), LAMBDA l : l.vat) \in Int
      /\ SumOf(Lines(d), Assessed) \in Int
      /\ SumOf(Lines(d), LAMBDA l : IF l.deductible THEN Assessed(l) ELSE 0) \in Int
  BY LineSums
<1>3. QED
  BY <1>1, <1>2 DEF SumOf

\* Nothing on an account no line names.
LEMMA CostsOffVat ==
  ASSUME NEW d \in Docs, NEW a \in Accounts,
         \A i \in DOMAIN Lines(d) : Lines(d)[i].account # a
  PROVE  On(Lines(d), a, LAMBDA l : l.net + (IF l.deductible THEN 0 ELSE Assessed(l))) = 0
<1> DEFINE ls == Lines(d)
           cost == [i \in DOMAIN ls |-> IF ls[i].account = a
                      THEN ls[i].net + (IF ls[i].deductible THEN 0 ELSE Assessed(ls[i]))
                      ELSE 0]
<1>1. IsFiniteSet(DOMAIN ls)
  BY DocsTyped
<1>2. DOMAIN cost = DOMAIN ls /\ \A i \in DOMAIN ls : cost[i] = 0
  OBVIOUS
<1> HIDE DEF cost
<1>3. SumFunctionOnSet(cost, DOMAIN ls) = 0
  <2> HIDE DEF ls
  <2>1. QED
    BY <1>1, <1>2, SumOfZeros
<1>4. SumFunction(cost) = 0
  BY <1>2, <1>3 DEF SumFunction
<1>5. QED
  BY <1>4 DEF cost, On, SumOf

\* The deductible VAT of a bill is what was invoiced and what is claimed.
LEMMA DeductibleVat ==
  ASSUME NEW d \in Docs
  PROVE  SumOf(Lines(d), LAMBDA l : l.vat + (IF l.deductible THEN Assessed(l) ELSE 0))
           = vatOfLines[d].invoiced + vatOfLines[d].claimed
<1> DEFINE ls == Lines(d)
           vat == [i \in DOMAIN ls |-> ls[i].vat]
           claimed == [i \in DOMAIN ls |-> IF ls[i].deductible THEN Assessed(ls[i]) ELSE 0]
           both == [i \in DOMAIN ls |->
                      ls[i].vat + (IF ls[i].deductible THEN Assessed(ls[i]) ELSE 0)]
<1>1. IsFiniteSet(DOMAIN ls)
  BY DocsTyped
<1>2. \A i \in DOMAIN ls : ls[i].vat \in Int /\ Assessed(ls[i]) \in Int
  BY DocsTyped, LinesTyped
<1>3. /\ DOMAIN vat = DOMAIN ls /\ DOMAIN claimed = DOMAIN ls /\ DOMAIN both = DOMAIN ls
      /\ \A i \in DOMAIN ls :
           vat[i] \in Int /\ claimed[i] \in Int /\ both[i] = vat[i] + claimed[i]
  BY <1>2
<1> HIDE DEF vat, claimed, both
<1>4. SumFunctionOnSet(both, DOMAIN ls)
        = SumFunctionOnSet(vat, DOMAIN ls) + SumFunctionOnSet(claimed, DOMAIN ls)
  <2> HIDE DEF ls
  <2>1. QED
    BY <1>1, <1>3, SumAdds
<1>5. SumFunction(both) = SumFunction(vat) + SumFunction(claimed)
  BY <1>3, <1>4 DEF SumFunction
<1>6. QED
  BY <1>5, VatOfLines DEF SumOf, vat, claimed, both

\* What the entry of a document leaves on the accounts of VAT.
LEMMA EntriesOnVat ==
  ASSUME NEW d \in Docs
  PROVE  /\ d \in Sales => /\ Entry[d]["output_vat"] = -(Sign(d) * vatOfLines[d].invoiced)
                           /\ Entry[d]["input_vat"] = 0
         /\ VatReserved /\ d \in Purchases =>
              /\ Entry[d]["output_vat"] = -(Sign(d) * vatOfLines[d].assessed)
              /\ Entry[d]["input_vat"]
                   = Sign(d) * vatOfLines[d].invoiced + Sign(d) * vatOfLines[d].claimed
<1> DEFINE v == vatOfLines[d]
<1>0. /\ v.invoiced \in Int /\ v.assessed \in Int /\ v.claimed \in Int
      /\ "output_vat" \in Accounts /\ "input_vat" \in Accounts
  BY VatOfLines DEF Accounts, AccountType
<1>1. /\ invoiceEntry(Lines(d))["output_vat"] = -v.invoiced
      /\ invoiceEntry(Lines(d))["input_vat"] = 0
  BY <1>0, VatOfLines DEF invoiceEntry, SumOf
<1>2. ASSUME VatReserved, d \in Purchases
      PROVE  /\ buildBillEntry(Lines(d))["output_vat"] = -v.assessed
             /\ buildBillEntry(Lines(d))["input_vat"] = v.invoiced + v.claimed
  <2>1. \A i \in DOMAIN Lines(d) :
          Lines(d)[i].account # "output_vat" /\ Lines(d)[i].account # "input_vat"
    BY <1>2 DEF VatReserved
  <2>2. On(Lines(d), "output_vat",
           LAMBDA l : l.net + (IF l.deductible THEN 0 ELSE Assessed(l))) = 0
    BY <1>0, <2>1, CostsOffVat
  <2>3. On(Lines(d), "input_vat",
           LAMBDA l : l.net + (IF l.deductible THEN 0 ELSE Assessed(l))) = 0
    BY <1>0, <2>1, CostsOffVat
  <2>4. buildBillEntry(Lines(d))["output_vat"] = -v.assessed
    <3>1. buildBillEntry(Lines(d))["output_vat"] =
            On(Lines(d), "output_vat",
               LAMBDA l : l.net + (IF l.deductible THEN 0 ELSE Assessed(l)))
            + -SumOf(Lines(d), Assessed)
      BY <1>0 DEF buildBillEntry, On, SumOf
    <3>2. v.assessed = SumOf(Lines(d), Assessed)
      BY VatOfLines DEF SumOf
    <3>3. QED
      BY <1>0, <2>2, <3>1, <3>2 DEF On, SumOf
  <2>5. buildBillEntry(Lines(d))["input_vat"] = v.invoiced + v.claimed
    BY <1>0, <2>3, DeductibleVat DEF buildBillEntry, On, SumOf
  <2>6. QED
    BY <2>4, <2>5
<1>3. ASSUME d \in Sales
      PROVE  /\ Entry[d]["output_vat"] = -(Sign(d) * v.invoiced)
             /\ Entry[d]["input_vat"] = 0
  <2>1. CASE Kind(d) = "invoice"
    BY <1>0, <1>1, <2>1 DEF Entry, Sign
  <2>2. CASE Kind(d) = "credit_note"
    BY <1>0, <1>1, <2>2 DEF Entry, Sign, Reversed
  <2>3. QED
    BY <1>3, <2>1, <2>2 DEF Sales
<1>4. ASSUME VatReserved, d \in Purchases
      PROVE  /\ Entry[d]["output_vat"] = -(Sign(d) * v.assessed)
             /\ Entry[d]["input_vat"] = Sign(d) * v.invoiced + Sign(d) * v.claimed
  <2>1. CASE Kind(d) = "bill"
    BY <1>0, <1>2, <1>4, <2>1 DEF Entry, Sign
  <2>2. CASE Kind(d) = "vendor_credit_note"
    BY <1>0, <1>2, <1>4, <2>2 DEF Entry, Sign, Reversed
  <2>3. QED
    BY <1>4, <2>1, <2>2 DEF Purchases
<1>5. QED
  BY <1>3, <1>4

-----------------------------------------------------------------------------
(***************************************************************************)
(* What is read from the ledger and the documents.                         *)
(***************************************************************************)
LEMMA SignsTyped == ASSUME NEW d \in Docs PROVE Sign(d) \in Int
BY DEF Sign

LEMMA WithinFinite ==
  ASSUME NEW p PROVE Within(p) \subseteq Docs /\ IsFiniteSet(Within(p)) /\ IsFiniteSet(Docs)
<1>1. Within(p) \subseteq Docs
  BY DEF Within
<1>2. QED
  BY <1>1, FS_Subset, BooksAssumption

LEMMA BalancesAre ==
  ASSUME TypeOK, NEW p, NEW a \in Accounts
  PROVE  /\ \A d \in Docs : Entries(d) * Entry[d][a] \in Int /\ Entries(d) \in Int
         /\ accountBalances(p)[a]
              = SumFunctionOnSet([d \in Within(p) |-> Entries(d) * Entry[d][a]], Within(p))
         /\ accountBalances(p)[a] \in Int
<1>1. ASSUME NEW d \in Docs PROVE Entries(d) \in Int /\ Entries(d) * Entry[d][a] \in Int
  <2>1. Entries(d) \in Int
    BY DEF TypeOK, Entries
  <2>2. Entry[d][a] \in Int
    BY EntriesTyped
  <2>3. QED
    BY <2>1, <2>2
<1> DEFINE f == [d \in Within(p) |-> Entries(d) * Entry[d][a]]
<1>2. DOMAIN f = Within(p) /\ \A d \in Within(p) : f[d] \in Int
  BY <1>1, WithinFinite
<1>3. accountBalances(p)[a] = SumFunction(f)
  BY DEF accountBalances
<1> HIDE DEF f
<1>4. SumFunction(f) \in Int /\ SumFunction(f) = SumFunctionOnSet(f, Within(p))
  BY <1>2, WithinFinite, SumsTyped
<1>5. QED
  BY <1>1, <1>3, <1>4 DEF f

LEMMA BalancesTyped ==
  ASSUME TypeOK, NEW p PROVE accountBalances(p) \in Balances
<1>1. \A a \in Accounts : accountBalances(p)[a] \in Int
  BY BalancesAre
<1>2. QED
  BY <1>1 DEF Balances, accountBalances

\* A sum of signed amounts, as a sum over all that is within a range.
LEMMA SignedWithin ==
  ASSUME NEW p, NEW ds \in SUBSET Within(p), NEW f, \A d \in Docs : f[d] \in Int
  PROVE  /\ SumFunction([d \in ds |-> Sign(d) * f[d]]) \in Int
         /\ SumFunction([d \in ds |-> Sign(d) * f[d]])
              = SumFunctionOnSet([d \in Within(p) |-> IF d \in ds THEN Sign(d) * f[d] ELSE 0],
                                 Within(p))
<1> DEFINE g == [d \in ds |-> Sign(d) * f[d]]
           h == [d \in Within(p) |-> IF d \in ds THEN Sign(d) * f[d] ELSE 0]
           k == [d \in Within(p) |-> Sign(d) * f[d]]
<1>1. ds \subseteq Within(p) /\ IsFiniteSet(Within(p)) /\ IsFiniteSet(ds)
      /\ Within(p) \subseteq Docs
  BY WithinFinite, FS_Subset
<1>2. \A d \in Within(p) : Sign(d) \in Int /\ f[d] \in Int
  BY <1>1, SignsTyped
<1>3. \A d \in Within(p) : Sign(d) * f[d] \in Int
  BY <1>2
<1>4. /\ DOMAIN g = ds /\ \A d \in ds : g[d] \in Int /\ g[d] = k[d]
      /\ \A d \in Within(p) : k[d] \in Int /\ h[d] = IF d \in ds THEN k[d] ELSE 0
  BY <1>1, <1>3
<1> HIDE DEF g, h, k
<1>5. SumFunction(g) \in Int /\ SumFunction(g) = SumFunctionOnSet(g, ds)
  BY <1>1, <1>4, SumsTyped
<1>6. SumFunctionOnSet(g, ds) = SumFunctionOnSet(k, ds)
  BY <1>1, <1>4, SumAgrees
<1>7. SumFunctionOnSet(k, ds) = SumFunctionOnSet(h, Within(p))
  BY <1>1, <1>4, SumOfPart
<1>8. QED
  BY <1>5, <1>6, <1>7 DEF g, h

\* The amounts of the breakdown as functions of the documents.
InvoicedVat == [d \in Docs |-> vatOfLines[d].invoiced]
AssessedVat == [d \in Docs |-> vatOfLines[d].assessed]
ClaimedVat == [d \in Docs |-> vatOfLines[d].claimed]

LEMMA BreakdownIs ==
  ASSUME NEW p
  PROVE  vatBreakdown(p)
           = [output |-> SumFunction([d \in Booked(p) \cap Sales |-> Sign(d) * InvoicedVat[d]])
                + SumFunction([d \in Booked(p) \cap Purchases |-> Sign(d) * AssessedVat[d]]),
              input |-> SumFunction([d \in Booked(p) \cap Purchases |-> Sign(d) * InvoicedVat[d]])
                + SumFunction([d \in Booked(p) \cap Purchases |-> Sign(d) * ClaimedVat[d]])]
<1> DEFINE sales == Booked(p) \cap Sales
           bills == Booked(p) \cap Purchases
<1>1. sales \subseteq Docs /\ bills \subseteq Docs
  BY DEF Sales, Purchases
<1>2. /\ [d \in sales |-> Sign(d) * InvoicedVat[d]]
           = [d \in sales |-> Sign(d) * vatOfLines[d].invoiced]
      /\ [d \in bills |-> Sign(d) * AssessedVat[d]]
           = [d \in bills |-> Sign(d) * vatOfLines[d].assessed]
      /\ [d \in bills |-> Sign(d) * InvoicedVat[d]]
           = [d \in bills |-> Sign(d) * vatOfLines[d].invoiced]
      /\ [d \in bills |-> Sign(d) * ClaimedVat[d]]
           = [d \in bills |-> Sign(d) * vatOfLines[d].claimed]
  BY <1>1 DEF InvoicedVat, AssessedVat, ClaimedVat
<1>3. vatBreakdown(p)
        = [output |-> SumFunction([d \in sales |-> Sign(d) * vatOfLines[d].invoiced])
                      + SumFunction([d \in bills |-> Sign(d) * vatOfLines[d].assessed]),
           input  |-> SumFunction([d \in bills |-> Sign(d) * vatOfLines[d].invoiced])
                      + SumFunction([d \in bills |-> Sign(d) * vatOfLines[d].claimed])]
  BY DEF vatBreakdown, Signed
<1>4. QED
  BY <1>2, <1>3

LEMMA AmountsTyped ==
  \A d \in Docs : InvoicedVat[d] \in Int /\ AssessedVat[d] \in Int /\ ClaimedVat[d] \in Int
BY VatOfLines DEF InvoicedVat, AssessedVat, ClaimedVat

LEMMA BookedWithin ==
  ASSUME NEW p
  PROVE  /\ Booked(p) \cap Sales \in SUBSET Within(p)
         /\ Booked(p) \cap Purchases \in SUBSET Within(p)
         /\ Sales \cap Purchases = {}
BY DEF Booked, Sales, Purchases

LEMMA VatTyped ==
  ASSUME TypeOK, NEW p PROVE computeVat(p) \in Vat /\ vatBreakdown(p) \in Vat
<1>1. computeVat(p) \in Vat
  <2>1. accountBalances(p)["output_vat"] \in Int /\ accountBalances(p)["input_vat"] \in Int
    BY BalancesAre DEF Accounts, AccountType
  <2>2. QED
    BY <2>1 DEF computeVat, Vat
<1> DEFINE sold == SumFunction([d \in Booked(p) \cap Sales |-> Sign(d) * InvoicedVat[d]])
           assessed ==
             SumFunction([d \in Booked(p) \cap Purchases |-> Sign(d) * AssessedVat[d]])
           bought == SumFunction([d \in Booked(p) \cap Purchases |-> Sign(d) * InvoicedVat[d]])
           claimed == SumFunction([d \in Booked(p) \cap Purchases |-> Sign(d) * ClaimedVat[d]])
<1>2. sold \in Int
  BY AmountsTyped, BookedWithin, SignedWithin
<1>3. assessed \in Int
  BY AmountsTyped, BookedWithin, SignedWithin
<1>4. bought \in Int
  BY AmountsTyped, BookedWithin, SignedWithin
<1>5. claimed \in Int
  BY AmountsTyped, BookedWithin, SignedWithin
<1>6. vatBreakdown(p) = [output |-> sold + assessed, input |-> bought + claimed]
  BY BreakdownIs
<1> HIDE DEF sold, assessed, bought, claimed
<1>7. QED
  BY <1>1, <1>2, <1>3, <1>4, <1>5, <1>6 DEF Vat

\* Ledger and breakdown differ by what the documents cannot show.
LEMMA DeclarationDiffers ==
  ASSUME TypeOK, VatReserved, NEW p
  PROVE  /\ computeVat(p).output - vatBreakdown(p).output = -Unseen(p, "output_vat")
         /\ computeVat(p).input - vatBreakdown(p).input = Unseen(p, "input_vat")
<1> DEFINE W == Within(p)
           sales == Booked(p) \cap Sales
           bills == Booked(p) \cap Purchases
           lines(d) == IF d \in Booked(p) \cap (Sales \cup Purchases) THEN 1 ELSE 0
           balance(a) == [d \in W |-> Entries(d) * Entry[d][a]]
           unseen(a) == [d \in W |-> (Entries(d) - lines(d)) * Entry[d][a]]
           sold == [d \in W |-> IF d \in sales THEN Sign(d) * InvoicedVat[d] ELSE 0]
           assessed == [d \in W |-> IF d \in bills THEN Sign(d) * AssessedVat[d] ELSE 0]
           bought == [d \in W |-> IF d \in bills THEN Sign(d) * InvoicedVat[d] ELSE 0]
           claimed == [d \in W |-> IF d \in bills THEN Sign(d) * ClaimedVat[d] ELSE 0]
           output == [d \in W |-> sold[d] + assessed[d]]
           input == [d \in W |-> bought[d] + claimed[d]]
<1>0. /\ IsFiniteSet(W) /\ W \subseteq Docs
      /\ "output_vat" \in Accounts /\ "input_vat" \in Accounts
  BY WithinFinite DEF Accounts, AccountType
<1>1. ASSUME NEW d \in W
      PROVE  /\ sold[d] \in Int /\ assessed[d] \in Int
             /\ bought[d] \in Int /\ claimed[d] \in Int
  <2>1. Sign(d) \in Int /\ InvoicedVat[d] \in Int /\ AssessedVat[d] \in Int
        /\ ClaimedVat[d] \in Int
    BY <1>0, SignsTyped, AmountsTyped
  <2>2. /\ Sign(d) * InvoicedVat[d] \in Int /\ Sign(d) * AssessedVat[d] \in Int
        /\ Sign(d) * ClaimedVat[d] \in Int
    BY <2>1
  <2>3. QED
    BY <2>2
<1>2. ASSUME NEW a \in Accounts, NEW d \in W
      PROVE  /\ balance(a)[d] \in Int
             /\ balance(a)[d] = unseen(a)[d] + lines(d) * Entry[d][a]
             /\ unseen(a)[d] \in Int
  <2>1. Entries(d) \in Int /\ Entries(d) * Entry[d][a] \in Int /\ Entry[d][a] \in Int
    BY <1>0, BalancesAre, EntriesTyped
  <2>2. ASSUME NEW e \in Int, NEW x \in Int
        PROVE  (e - 1) * x + 1 * x = e * x /\ (e - 0) * x + 0 * x = e * x
    OBVIOUS
  <2>3. lines(d) = 1 \/ lines(d) = 0
    OBVIOUS
  <2>4. balance(a)[d] = Entries(d) * Entry[d][a]
        /\ unseen(a)[d] = (Entries(d) - lines(d)) * Entry[d][a]
    OBVIOUS
  <2>5. Entries(d) - lines(d) \in Int
    BY <2>1, <2>3
  <2>6. unseen(a)[d] \in Int
    BY <2>1, <2>4, <2>5
  <2> HIDE DEF lines, balance, unseen
  <2>7. QED
    BY <2>1, <2>2, <2>3, <2>4, <2>6
<1>3. ASSUME NEW d \in W
      PROVE  /\ unseen("output_vat")[d] = balance("output_vat")[d] + output[d]
             /\ balance("input_vat")[d] = unseen("input_vat")[d] + input[d]
  <2>1. d \in Docs /\ d \in W
    BY <1>0
  <2>2. /\ output[d] = sold[d] + assessed[d] /\ input[d] = bought[d] + claimed[d]
        /\ sold[d] = IF d \in sales THEN Sign(d) * InvoicedVat[d] ELSE 0
        /\ assessed[d] = IF d \in bills THEN Sign(d) * AssessedVat[d] ELSE 0
        /\ bought[d] = IF d \in bills THEN Sign(d) * InvoicedVat[d] ELSE 0
        /\ claimed[d] = IF d \in bills THEN Sign(d) * ClaimedVat[d] ELSE 0
    OBVIOUS
  <2>3. /\ InvoicedVat[d] = vatOfLines[d].invoiced /\ AssessedVat[d] = vatOfLines[d].assessed
        /\ ClaimedVat[d] = vatOfLines[d].claimed
    BY <2>1 DEF InvoicedVat, AssessedVat, ClaimedVat
  <2>4. /\ Entry[d]["output_vat"] \in Int /\ Entry[d]["input_vat"] \in Int
    BY <1>0, <2>1, EntriesTyped
  <2>5. ~(d \in sales /\ d \in bills) /\ (lines(d) = IF d \in sales \/ d \in bills THEN 1 ELSE 0)
    BY BookedWithin
  <2>6. CASE d \in sales
    <3>1. Entry[d]["output_vat"] = -(Sign(d) * InvoicedVat[d]) /\ Entry[d]["input_vat"] = 0
      BY <2>1, <2>3, <2>6, EntriesOnVat
    <3>2. output[d] = -Entry[d]["output_vat"] /\ input[d] = 0 /\ lines(d) = 1
      <4>1. sold[d] \in Int /\ sold[d] = Sign(d) * InvoicedVat[d] /\ assessed[d] = 0
            /\ bought[d] = 0 /\ claimed[d] = 0
        BY <1>1, <2>2, <2>5, <2>6
      <4> HIDE DEF sold, assessed, bought, claimed, output, input
      <4>2. QED
        BY <2>2, <2>5, <2>6, <3>1, <4>1
    <3> HIDE DEF output, input, balance, unseen, lines
    <3>3. QED
      BY <1>0, <1>2, <2>4, <3>1, <3>2
  <2>7. CASE d \in bills
    <3>1. /\ Entry[d]["output_vat"] = -(Sign(d) * AssessedVat[d])
          /\ Entry[d]["input_vat"] = Sign(d) * InvoicedVat[d] + Sign(d) * ClaimedVat[d]
      BY <2>1, <2>3, <2>7, EntriesOnVat
    <3>2. output[d] = -Entry[d]["output_vat"] /\ input[d] = Entry[d]["input_vat"]
          /\ lines(d) = 1
      <4>1. /\ assessed[d] \in Int /\ assessed[d] = Sign(d) * AssessedVat[d] /\ sold[d] = 0
            /\ bought[d] = Sign(d) * InvoicedVat[d] /\ claimed[d] = Sign(d) * ClaimedVat[d]
        BY <1>1, <2>2, <2>5, <2>7
      <4> HIDE DEF sold, assessed, bought, claimed, output, input
      <4>2. QED
        BY <2>2, <2>5, <2>7, <3>1, <4>1
    <3> HIDE DEF output, input, balance, unseen, lines
    <3>3. QED
      BY <1>0, <1>2, <2>4, <3>2
  <2>8. CASE d \notin sales /\ d \notin bills
    <3>1. output[d] = 0 /\ input[d] = 0 /\ lines(d) = 0
      BY <2>2, <2>5, <2>8
    <3> HIDE DEF output, input, balance, unseen, lines
    <3>2. QED
      BY <1>0, <1>2, <2>4, <3>1
  <2>9. QED
    BY <2>6, <2>7, <2>8
<1>4. /\ vatBreakdown(p).output
           = SumFunctionOnSet(sold, W) + SumFunctionOnSet(assessed, W)
      /\ vatBreakdown(p).input
           = SumFunctionOnSet(bought, W) + SumFunctionOnSet(claimed, W)
  <2>1. SumFunction([d \in sales |-> Sign(d) * InvoicedVat[d]]) = SumFunctionOnSet(sold, W)
    BY AmountsTyped, BookedWithin, SignedWithin
  <2>2. SumFunction([d \in bills |-> Sign(d) * AssessedVat[d]]) = SumFunctionOnSet(assessed, W)
    BY AmountsTyped, BookedWithin, SignedWithin
  <2>3. SumFunction([d \in bills |-> Sign(d) * InvoicedVat[d]]) = SumFunctionOnSet(bought, W)
    BY AmountsTyped, BookedWithin, SignedWithin
  <2>4. SumFunction([d \in bills |-> Sign(d) * ClaimedVat[d]]) = SumFunctionOnSet(claimed, W)
    BY AmountsTyped, BookedWithin, SignedWithin
  <2>5. QED
    BY <2>1, <2>2, <2>3, <2>4, BreakdownIs
<1>5. ASSUME NEW a \in Accounts
      PROVE  /\ accountBalances(p)[a] = SumFunctionOnSet(balance(a), W)
             /\ Unseen(p, a) = SumFunctionOnSet(unseen(a), W)
  <2>1. Unseen(p, a) = SumFunction(unseen(a))
    BY DEF Unseen
  <2>2. DOMAIN unseen(a) = W
    OBVIOUS
  <2>3. Unseen(p, a) = SumFunctionOnSet(unseen(a), W)
    BY <2>1, <2>2 DEF SumFunction
  <2>4. QED
    BY <2>3, BalancesAre
<1>6. \A d \in W : output[d] = sold[d] + assessed[d] /\ input[d] = bought[d] + claimed[d]
  OBVIOUS
<1>7. computeVat(p).output = -accountBalances(p)["output_vat"]
      /\ computeVat(p).input = accountBalances(p)["input_vat"]
  BY DEF computeVat
<1> HIDE DEF W, balance, unseen, sold, assessed, bought, claimed, output, input
<1>8. \A d \in W : output[d] \in Int /\ input[d] \in Int
  BY <1>1, <1>6
<1>9. /\ SumFunctionOnSet(output, W) = SumFunctionOnSet(sold, W) + SumFunctionOnSet(assessed, W)
      /\ SumFunctionOnSet(input, W) = SumFunctionOnSet(bought, W) + SumFunctionOnSet(claimed, W)
  BY <1>0, <1>1, <1>6, SumAdds
<1>10. SumFunctionOnSet(unseen("output_vat"), W)
         = SumFunctionOnSet(balance("output_vat"), W) + SumFunctionOnSet(output, W)
  BY <1>0, <1>2, <1>3, <1>8, SumAdds
<1>11. SumFunctionOnSet(balance("input_vat"), W)
         = SumFunctionOnSet(unseen("input_vat"), W) + SumFunctionOnSet(input, W)
  BY <1>0, <1>2, <1>3, <1>8, SumAdds
<1>12. /\ SumFunctionOnSet(output, W) \in Int /\ SumFunctionOnSet(input, W) \in Int
       /\ SumFunctionOnSet(balance("output_vat"), W) \in Int
       /\ SumFunctionOnSet(unseen("input_vat"), W) \in Int
  BY <1>0, <1>2, <1>8, SumRecursion
<1>13. QED
  BY <1>0, <1>4, <1>5, <1>7, <1>9, <1>10, <1>11, <1>12

-----------------------------------------------------------------------------
(***************************************************************************)
(* The sales list.                                                         *)
(***************************************************************************)
Net == [d \in Docs |-> Supplied[d]["goods"] + Supplied[d]["services"]]

LEMMA SuppliesTyped ==
  ASSUME NEW d \in Docs
  PROVE  /\ \A type \in SupplyTypes : Supplied[d][type] \in Int
         /\ ~OnSalesList(d) => \A type \in SupplyTypes : Supplied[d][type] = 0
<1> SUFFICES ASSUME NEW type \in SupplyTypes
             PROVE  Supplied[d][type] \in Int /\ (~OnSalesList(d) => Supplied[d][type] = 0)
  OBVIOUS
<1> DEFINE category == IF type = "goods" THEN "K" ELSE "AE"
           ls == Lines(d)
           f == [i \in DOMAIN ls |-> IF ls[i].category = category THEN ls[i].net ELSE 0]
<1>1. IsFiniteSet(DOMAIN ls) /\ \A i \in DOMAIN ls : ls[i].net \in Int
  BY DocsTyped, LinesTyped
<1>2. DOMAIN f = DOMAIN ls /\ \A i \in DOMAIN ls : f[i] \in Int
  BY <1>1
<1>3. Supplied[d][type] = SumFunction(f)
  BY DEF Supplied, SumOf
<1>4. ASSUME ~OnSalesList(d), NEW i \in DOMAIN ls PROVE f[i] = 0
  BY <1>4 DEF OnSalesList, selfAssesses
<1> HIDE DEF f, ls
<1>5. SumFunction(f) \in Int /\ SumFunction(f) = SumFunctionOnSet(f, DOMAIN ls)
  BY <1>1, <1>2, SumsTyped
<1>6. ASSUME ~OnSalesList(d) PROVE SumFunctionOnSet(f, DOMAIN ls) = 0
  <2>1. \A i \in DOMAIN ls : f[i] = 0
    BY <1>4, <1>6
  <2>2. QED
    BY <1>1, <2>1, SumOfZeros
<1>7. QED
  BY <1>3, <1>5, <1>6

\* One customer's amounts among the rows of all.
LEMMA RowsOfOne ==
  ASSUME NEW c, NEW h, NEW k, \A type \in SupplyTypes : h[type] \in Int,
         \A x \in Parties \X SupplyTypes : k[x] = IF x[1] = c THEN h[x[2]] ELSE 0
  PROVE  SumFunctionOnSet(k, Parties \X SupplyTypes)
           = IF c \in Parties THEN h["goods"] + h["services"] ELSE 0
<1> DEFINE X == Parties \X SupplyTypes
           pair == {<<c, "goods">>, <<c, "services">>}
<1>0. IsFiniteSet(X) /\ \A x \in X : k[x] \in Int
  <2>1. SupplyTypes = {"goods"} \cup {"services"}
    BY DEF SupplyTypes
  <2>2. IsFiniteSet(SupplyTypes)
    BY <2>1, FS_Singleton, FS_Union
  <2>3. IsFiniteSet(X)
    BY <2>2, BooksAssumption, FS_Product
  <2>4. QED
    BY <2>3
<1>1. CASE c \notin Parties
  <2>1. \A x \in X : k[x] = 0
    BY <1>1
  <2> HIDE DEF X
  <2>2. SumFunctionOnSet(k, X) = 0
    BY <1>0, <2>1, SumOfZeros
  <2>3. QED
    BY <1>1, <2>2 DEF X
<1>2. CASE c \in Parties
  <2>1. pair \in SUBSET X /\ k[<<c, "goods">>] = h["goods"]
        /\ k[<<c, "services">>] = h["services"]
    BY <1>2 DEF SupplyTypes
  <2>2. \A x \in X : k[x] = IF x \in pair THEN k[x] ELSE 0
    BY DEF SupplyTypes
  <2>3. pair \ {<<c, "goods">>} = {<<c, "services">>}
        /\ {<<c, "services">>} \ {<<c, "services">>} = {}
        /\ {<<c, "services">>} \in SUBSET X
        /\ <<c, "goods">> \in pair
    BY <2>1
  <2> HIDE DEF X, pair
  <2>4. SumFunctionOnSet(k, pair) = SumFunctionOnSet(k, X)
    BY <1>0, <2>1, <2>2, SumOfPart
  <2>5. SumFunctionOnSet(k, pair)
          = k[<<c, "goods">>] + SumFunctionOnSet(k, {<<c, "services">>})
    <3> DEFINE g == <<c, "goods">>
               rest == {<<c, "services">>}
    <3>1. pair \in SUBSET X /\ g \in pair /\ pair \ {g} = rest
      BY <2>1, <2>3
    <3> HIDE DEF g, rest
    <3>2. SumFunctionOnSet(k, pair) = k[g] + SumFunctionOnSet(k, pair \ {g})
      BY ONLY <1>0, <3>1, SumRecursion
    <3>3. SumFunctionOnSet(k, pair) = k[g] + SumFunctionOnSet(k, rest)
      BY ONLY <3>1, <3>2
    <3>4. QED
      BY <3>3 DEF g, rest
  <2>6. SumFunctionOnSet(k, {<<c, "services">>})
          = k[<<c, "services">>] + SumFunctionOnSet(k, {})
    BY <1>0, <2>3, SumRecursion
  <2>7. SumFunctionOnSet(k, {}) = 0
    BY <1>0, SumRecursion
  <2>8. h["goods"] \in Int /\ h["services"] \in Int
    BY DEF SupplyTypes
  <2>9. QED
    BY <1>2, <2>1, <2>4, <2>5, <2>6, <2>7, <2>8 DEF X
<1>3. QED
  BY <1>1, <1>2

Listed(p) == {d \in Booked(p) \cap Sales : OnSalesList(d)}

LEMMA SalesListIs ==
  ASSUME NEW p
  PROVE  ecSalesList(p) =
           [rows |-> [x \in Parties \X SupplyTypes |->
              SumFunction([d \in {e \in Listed(p) : customerOf(e) = x[1]} |->
                             Sign(d) * Supplied[d][x[2]]])],
            issues |-> {d \in Listed(p) : customerOf(d) \notin Parties}]
BY DEF ecSalesList, Signed, Listed

\* Supplies of what was sold, row by row and issue by issue.
LEMMA ListCovers ==
  ASSUME NEW p
  PROVE  /\ ecSalesList(p) \in SalesList
         /\ SumFunction(ecSalesList(p).rows)
              + SumFunction([d \in ecSalesList(p).issues |-> Sign(d) * Net[d]])
            = SumFunction([d \in Booked(p) \cap Sales |-> Sign(d) * Net[d]])
<1> DEFINE X == Parties \X SupplyTypes
           S == Booked(p) \cap Sales
           list == ecSalesList(p)
           amount(x) == [d \in S |-> Sign(d) * Supplied[d][x[2]]]
           mine(x) == [d \in {e \in Listed(p) : customerOf(e) = x[1]} |->
                         Sign(d) * Supplied[d][x[2]]]
           f == [x \in X |-> [d \in S |->
                  IF d \in Listed(p) /\ customerOf(d) = x[1]
                    THEN Sign(d) * Supplied[d][x[2]] ELSE 0]]
           row == [x \in X |-> SumFunctionOnSet(f[x], S)]
           column == [d \in S |-> SumFunctionOnSet([x \in X |-> f[x][d]], X)]
           issue == [d \in S |-> IF d \in list.issues THEN Sign(d) * Net[d] ELSE 0]
           all == [d \in S |-> Sign(d) * Net[d]]
<1>0. /\ S \subseteq Docs /\ IsFiniteSet(S) /\ Listed(p) \subseteq S
      /\ IsFiniteSet(X)
  <2>1. SupplyTypes = {"goods"} \cup {"services"}
    BY DEF SupplyTypes
  <2>2. IsFiniteSet(SupplyTypes)
    BY <2>1, FS_Singleton, FS_Union
  <2>3. S \subseteq Docs /\ Listed(p) \subseteq S
    BY DEF Sales, Listed
  <2>4. IsFiniteSet(S)
    BY <2>3, BooksAssumption, FS_Subset
  <2>5. QED
    BY <2>2, <2>3, <2>4, BooksAssumption, FS_Product
<1>1. ASSUME NEW d \in S
      PROVE  /\ Sign(d) \in Int /\ Net[d] \in Int /\ Sign(d) * Net[d] \in Int
             /\ \A type \in SupplyTypes :
                  Supplied[d][type] \in Int /\ Sign(d) * Supplied[d][type] \in Int
             /\ Sign(d) * Net[d] = Sign(d) * Supplied[d]["goods"]
                                     + Sign(d) * Supplied[d]["services"]
             /\ d \notin Listed(p) => Sign(d) * Net[d] = 0
  <2>1. d \in Docs /\ Sign(d) \in Int
    BY <1>0, SignsTyped
  <2>2. \A type \in SupplyTypes : Supplied[d][type] \in Int
    BY <2>1, SuppliesTyped
  <2>3. /\ Supplied[d]["goods"] \in Int /\ Supplied[d]["services"] \in Int
        /\ Net[d] = Supplied[d]["goods"] + Supplied[d]["services"]
    BY <2>1, <2>2 DEF SupplyTypes, Net
  <2>4. ASSUME d \notin Listed(p) PROVE Net[d] = 0
    <3>1. ~OnSalesList(d)
      BY <2>4 DEF Listed
    <3>2. QED
      BY <2>1, <2>3, <3>1, SuppliesTyped DEF SupplyTypes
  <2>5. ASSUME NEW k \in Int, NEW a \in Int, NEW b \in Int
        PROVE  k * (a + b) = k * a + k * b /\ k * a \in Int /\ k * 0 = 0
    OBVIOUS
  <2>6. QED
    BY <2>1, <2>2, <2>3, <2>4, <2>5
<1>2. ASSUME NEW x \in X
      PROVE  /\ SumFunction(mine(x)) = SumFunctionOnSet(f[x], S)
             /\ SumFunction(mine(x)) \in Int
             /\ \A d \in S : f[x][d] \in Int
  <2> DEFINE of == {e \in Listed(p) : customerOf(e) = x[1]}
  <2>1. of \in SUBSET S /\ x[2] \in SupplyTypes
    BY <1>0
  <2>2. IsFiniteSet(of)
    BY <1>0, <2>1, FS_Subset
  <2>3. \A d \in S : /\ amount(x)[d] \in Int
                     /\ f[x][d] = IF d \in of THEN amount(x)[d] ELSE 0
    BY <1>1, <2>1
  <2>4. DOMAIN mine(x) = of
        /\ \A d \in of : mine(x)[d] = amount(x)[d] /\ mine(x)[d] \in Int
    BY <2>1, <2>3
  <2> HIDE DEF of, mine, amount, f
  <2>5. /\ SumFunction(mine(x)) \in Int
        /\ SumFunction(mine(x)) = SumFunctionOnSet(mine(x), of)
    BY <2>2, <2>4, SumsTyped
  <2>6. SumFunctionOnSet(mine(x), of) = SumFunctionOnSet(amount(x), of)
    BY <2>2, <2>4, SumAgrees
  <2>7. SumFunctionOnSet(amount(x), of) = SumFunctionOnSet(f[x], S)
    BY <1>0, <2>1, <2>3, SumOfPart
  <2>8. \A d \in S : f[x][d] \in Int
    BY <2>3
  <2>9. QED
    BY <2>5, <2>6, <2>7, <2>8
<1>3. /\ list.rows = [x \in X |-> SumFunction(mine(x))]
      /\ list.issues = {d \in Listed(p) : customerOf(d) \notin Parties}
      /\ list = [rows |-> list.rows, issues |-> list.issues]
  BY SalesListIs
<1>4. list \in SalesList
  <2>1. list.rows \in [X -> Int]
    <3> HIDE DEF X, S, list, mine, f
    <3>1. QED
      BY <1>2, <1>3
  <2>2. list.issues \in SUBSET Docs
    BY <1>0, <1>3
  <2> HIDE DEF list
  <2>3. QED
    BY <1>3, <2>1, <2>2 DEF SalesList
<1>5. list.rows = row
  BY <1>2, <1>3
<1>6. ASSUME NEW d \in S
      PROVE  column[d] = IF d \in Listed(p) /\ customerOf(d) \in Parties
                           THEN Sign(d) * Net[d] ELSE 0
  <2> DEFINE k == [x \in X |-> f[x][d]]
             h == [type \in SupplyTypes |-> Sign(d) * Supplied[d][type]]
  <2>0. column[d] = SumFunctionOnSet(k, X)
    OBVIOUS
  <2>1. \A type \in SupplyTypes : h[type] \in Int /\ h[type] = Sign(d) * Supplied[d][type]
    BY <1>1
  <2>2. \A x \in X : x[2] \in SupplyTypes
                     /\ k[x] = IF d \in Listed(p) /\ customerOf(d) = x[1] THEN h[x[2]] ELSE 0
    OBVIOUS
  <2>3. Sign(d) * Net[d] = h["goods"] + h["services"]
    BY <1>1, <2>1 DEF SupplyTypes
  <2> HIDE DEF column, k, h, f, X, S
  <2>4. CASE d \in Listed(p)
    <3>1. \A x \in X : k[x] = IF x[1] = customerOf(d) THEN h[x[2]] ELSE 0
      BY <2>2, <2>4
    <3>2. SumFunctionOnSet(k, X)
            = IF customerOf(d) \in Parties THEN h["goods"] + h["services"] ELSE 0
      BY <2>1, <3>1, RowsOfOne DEF X
    <3>3. QED
      BY <2>0, <2>3, <2>4, <3>2
  <2>5. CASE d \notin Listed(p)
    <3>1. \A x \in X : k[x] = 0
      BY <2>2, <2>5
    <3>2. QED
      BY <1>0, <2>0, <2>5, <3>1, SumOfZeros
  <2>6. QED
    BY <2>4, <2>5
<1>7. ASSUME NEW d \in S
      PROVE  /\ column[d] \in Int /\ issue[d] \in Int /\ all[d] = column[d] + issue[d]
             /\ all[d] \in Int /\ all[d] = Sign(d) * Net[d]
             /\ issue[d] = IF d \in list.issues THEN all[d] ELSE 0
  <2>1. /\ issue[d] = IF d \in list.issues THEN Sign(d) * Net[d] ELSE 0
        /\ all[d] = Sign(d) * Net[d]
    OBVIOUS
  <2>2. d \in list.issues <=> d \in Listed(p) /\ customerOf(d) \notin Parties
    BY <1>3
  <2>3. /\ Sign(d) * Net[d] \in Int
        /\ d \notin Listed(p) => Sign(d) * Net[d] = 0
    BY <1>1
  <2> HIDE DEF column, issue, all, list, f, X, S
  <2>4. QED
    BY <1>6, <2>1, <2>2, <2>3
<1>8. SumFunctionOnSet(row, X) = SumFunctionOnSet(column, S)
  <2>1. \A x \in X : \A d \in S : f[x][d] \in Int
    BY <1>2
  <2> HIDE DEF f, X, S
  <2>2. QED
    BY <1>0, <2>1, SumSwaps
<1>9. SumFunctionOnSet(all, S) = SumFunctionOnSet(column, S) + SumFunctionOnSet(issue, S)
  <2> HIDE DEF all, column, issue, S
  <2>1. QED
    BY <1>0, <1>7, SumAdds
<1>10. SumFunction([d \in list.issues |-> Sign(d) * Net[d]]) = SumFunctionOnSet(issue, S)
  <2> DEFINE g == [d \in list.issues |-> Sign(d) * Net[d]]
  <2>1. list.issues \in SUBSET S
    BY <1>0, <1>3
  <2>2. IsFiniteSet(list.issues)
    BY <1>0, <2>1, FS_Subset
  <2>3. \A d \in list.issues : g[d] = all[d] /\ all[d] \in Int
    BY <1>7, <2>1
  <2>4. DOMAIN g = list.issues
    OBVIOUS
  <2>5. \A d \in S : all[d] \in Int /\ issue[d] = IF d \in list.issues THEN all[d] ELSE 0
    BY <1>7
  <2> HIDE DEF g, all, issue, list, S
  <2>6. SumFunction(g) = SumFunctionOnSet(g, list.issues)
    BY <2>4 DEF SumFunction
  <2>7. SumFunctionOnSet(g, list.issues) = SumFunctionOnSet(all, list.issues)
    BY <2>2, <2>3, SumAgrees
  <2>8. SumFunctionOnSet(all, list.issues) = SumFunctionOnSet(issue, S)
    BY <1>0, <2>1, <2>5, SumOfPart
  <2>9. QED
    BY <2>6, <2>7, <2>8 DEF g
<1>11. SumFunction(list.rows) = SumFunctionOnSet(row, X)
  <2>1. DOMAIN row = X
    OBVIOUS
  <2> HIDE DEF row, X, list
  <2>2. QED
    BY <1>5, <2>1 DEF SumFunction
<1>12. SumFunction(all) = SumFunctionOnSet(all, S)
  <2>1. DOMAIN all = S
    OBVIOUS
  <2>2. QED
    BY <2>1 DEF SumFunction
<1>13. all = [d \in S |-> Sign(d) * Net[d]]
  OBVIOUS
<1> HIDE DEF X, S, list, row, column, issue, all, f, mine, amount
<1>14. SumFunction(list.rows) + SumFunction([d \in list.issues |-> Sign(d) * Net[d]])
         = SumFunction([d \in S |-> Sign(d) * Net[d]])
  BY <1>8, <1>9, <1>10, <1>11, <1>12, <1>13
<1>15. QED
  BY <1>4, <1>14 DEF list, S

-----------------------------------------------------------------------------
(***************************************************************************)
(* Statements.                                                             *)
(***************************************************************************)
\* A balance is a sum over all documents.
LEMMA BalanceOfAll ==
  ASSUME TypeOK, NEW p, NEW a \in Accounts
  PROVE  accountBalances(p)[a]
           = SumFunctionOnSet([d \in Docs |-> IF d \in Within(p)
                                                THEN Entries(d) * Entry[d][a] ELSE 0], Docs)
<1> DEFINE f == [d \in Docs |-> Entries(d) * Entry[d][a]]
           part == [d \in Within(p) |-> Entries(d) * Entry[d][a]]
           g == [d \in Docs |-> IF d \in Within(p) THEN Entries(d) * Entry[d][a] ELSE 0]
<1>1. /\ Within(p) \in SUBSET Docs /\ IsFiniteSet(Within(p)) /\ IsFiniteSet(Docs)
  BY WithinFinite
<1>2. /\ \A d \in Docs : f[d] \in Int
      /\ accountBalances(p)[a] = SumFunctionOnSet(part, Within(p))
  BY BalancesAre
<1>3. /\ \A d \in Docs : g[d] = IF d \in Within(p) THEN f[d] ELSE 0
      /\ \A d \in Within(p) : part[d] \in Int /\ part[d] = f[d]
  BY <1>1, <1>2
<1> HIDE DEF f, g, part
<1>4. SumFunctionOnSet(part, Within(p)) = SumFunctionOnSet(f, Within(p))
  BY <1>1, <1>3, SumAgrees
<1>5. SumFunctionOnSet(f, Within(p)) = SumFunctionOnSet(g, Docs)
  BY <1>1, <1>2, <1>3, SumOfPart
<1>6. QED
  BY <1>2, <1>4, <1>5 DEF g

\* Opening and movement make the closing balance.
LEMMA OpeningToClosing ==
  ASSUME TypeOK, NEW p \in Reported, NEW a \in Accounts
  PROVE  accountBalances(Span("closing", p))[a]
           = accountBalances(Span("opening", p))[a] + accountBalances(Span("movement", p))[a]
<1> DEFINE amount(q) == [d \in Docs |-> IF d \in Within(Span(q, p))
                                          THEN Entries(d) * Entry[d][a] ELSE 0]
           opening == amount("opening")
           movement == amount("movement")
           closing == amount("closing")
<1>1. \A d \in Docs : Entries(d) * Entry[d][a] \in Int
  BY BalancesAre
<1>2. p.from \in Months /\ p.to \in Months /\ p.from <= p.to
  BY BooksAssumption
<1>3. \A d \in Docs : Date(d) \in Months
  BY DocsTyped
<1>4. ASSUME NEW d \in Docs
      PROVE  /\ d \in Within(Span("opening", p)) <=> Date(d) < p.from
             /\ d \in Within(Span("movement", p)) <=> p.from <= Date(d) /\ Date(d) <= p.to
             /\ d \in Within(Span("closing", p)) <=> Date(d) <= p.to
  BY <1>2, <1>3 DEF Within, Span, Months
<1>5. \A d \in Docs : /\ opening[d] \in Int /\ movement[d] \in Int
                      /\ closing[d] = opening[d] + movement[d]
  <2> TAKE d \in Docs
  <2> DEFINE e == Entries(d) * Entry[d][a]
  <2>1. /\ opening[d] = IF Date(d) < p.from THEN e ELSE 0
        /\ movement[d] = IF p.from <= Date(d) /\ Date(d) <= p.to THEN e ELSE 0
        /\ closing[d] = IF Date(d) <= p.to THEN e ELSE 0
    BY <1>4
  <2>2. e \in Int
    BY <1>1
  <2> HIDE DEF e, opening, movement, closing
  <2>3. QED
    BY <2>1, <2>2, <1>2, <1>3 DEF Months
<1>6. /\ accountBalances(Span("opening", p))[a] = SumFunctionOnSet(opening, Docs)
      /\ accountBalances(Span("movement", p))[a] = SumFunctionOnSet(movement, Docs)
      /\ accountBalances(Span("closing", p))[a] = SumFunctionOnSet(closing, Docs)
  BY BalanceOfAll
<1> HIDE DEF opening, movement, closing
<1>7. SumFunctionOnSet(closing, Docs)
        = SumFunctionOnSet(opening, Docs) + SumFunctionOnSet(movement, Docs)
  BY <1>5, BooksAssumption, SumAdds
<1>8. QED
  BY <1>6, <1>7

\* Debits are credits, over entries that are.
LEMMA AccountsBalance ==
  ASSUME TypeOK, \A d \in Docs : Entries(d) # 0 => d \in Balanced, NEW p
  PROVE  Total(accountBalances(p), Accounts) = 0
<1> DEFINE W == Within(p)
           row(d) == [a \in Accounts |-> Entries(d) * Entry[d][a]]
           f == [d \in W |-> row(d)]
           rows == [d \in W |-> SumFunctionOnSet(f[d], Accounts)]
           column(a) == [d \in W |-> f[d][a]]
           columns == [a \in Accounts |-> SumFunctionOnSet(column(a), W)]
<1>1. W \subseteq Docs /\ IsFiniteSet(W) /\ IsFiniteSet(Accounts)
  BY WithinFinite, AccountsFinite
<1>2. \A d \in Docs : \A a \in Accounts : Entries(d) * Entry[d][a] \in Int
  BY BalancesAre
<1>3. \A d \in W : \A a \in Accounts : f[d][a] \in Int
  BY <1>1, <1>2
<1>4. SumFunctionOnSet(rows, W) = SumFunctionOnSet(columns, Accounts)
  <2> HIDE DEF W, f
  <2>1. QED
    BY <1>1, <1>3, SumSwaps
<1>5. \A d \in W : rows[d] = 0
  <2> SUFFICES ASSUME NEW d \in W PROVE SumFunctionOnSet(row(d), Accounts) = 0
    OBVIOUS
  <2>1. Entry[d] \in [Accounts -> Int] /\ Entries(d) \in Int
    BY <1>1, EntriesTyped DEF TypeOK, Entries
  <2>2. SumFunctionOnSet(row(d), Accounts) = Entries(d) * SumFunctionOnSet(Entry[d], Accounts)
    <3>1. \A a \in Accounts : Entry[d][a] \in Int /\ row(d)[a] = Entries(d) * Entry[d][a]
      BY <2>1
    <3> DEFINE r == row(d)
               e == Entry[d]
               k == Entries(d)
    <3>2. k \in Int /\ \A a \in Accounts : e[a] \in Int /\ r[a] = k * e[a]
      BY <2>1, <3>1
    <3> HIDE DEF r, e, k
    <3>3. SumFunctionOnSet(r, Accounts) = k * SumFunctionOnSet(e, Accounts)
      BY <1>1, <3>2, SumScales
    <3>4. QED
      BY <3>3 DEF r, e, k
  <2>3. SumFunctionOnSet(Entry[d], Accounts) \in Int
    BY <1>1, <2>1, SumRecursion
  <2>4. d \in Balanced => SumFunctionOnSet(Entry[d], Accounts) = 0
    BY <2>1 DEF Balanced, SumFunction
  <2>5. Entries(d) = 0 \/ d \in Balanced
    BY <1>1
  <2>6. \A n \in Int : n * 0 = 0 /\ 0 * n = 0
    OBVIOUS
  <2>7. QED
    BY <2>1, <2>2, <2>3, <2>4, <2>5, <2>6
<1>6. SumFunctionOnSet(rows, W) = 0
  <2> HIDE DEF W, rows
  <2>1. QED
    BY <1>1, <1>5, SumOfZeros
<1>7. ASSUME NEW a \in Accounts
      PROVE  columns[a] \in Int /\ columns[a] = accountBalances(p)[a]
  <2>1. column(a) = [d \in W |-> Entries(d) * Entry[d][a]]
    OBVIOUS
  <2>2. columns[a] = SumFunctionOnSet([d \in W |-> Entries(d) * Entry[d][a]], W)
    BY <2>1
  <2>3. QED
    BY <2>2, BalancesAre
<1> HIDE DEF columns
<1>8. SumFunctionOnSet(columns, Accounts) = SumFunctionOnSet(accountBalances(p), Accounts)
  BY <1>1, <1>7, SumAgrees
<1>9. QED
  BY <1>4, <1>6, <1>8 DEF Total

\* Totals over accounts, and over all of them by type and by activity.
LEMMA TotalsTyped ==
  ASSUME NEW b \in Balances, NEW as \in SUBSET Accounts
  PROVE  Total(b, as) \in Int
<1>1. \A a \in Accounts : b[a] \in Int
  BY DEF Balances
<1>2. QED
  BY <1>1, AccountsFinite, SumRecursion DEF Total

LEMMA TotalsAdd ==
  ASSUME NEW b \in Balances, NEW c \in Balances, NEW e \in Balances,
         \A a \in Accounts : e[a] = b[a] + c[a], NEW as \in SUBSET Accounts
  PROVE  Total(e, as) = Total(b, as) + Total(c, as)
<1>1. \A a \in as : b[a] \in Int /\ c[a] \in Int /\ e[a] = b[a] + c[a]
  BY DEF Balances
<1>2. IsFiniteSet(as)
  BY AccountsFinite, FS_Subset
<1>3. QED
  BY <1>1, <1>2, SumAdds DEF Total

LEMMA TotalOfUnion ==
  ASSUME NEW b \in Balances, NEW P \in SUBSET Accounts, NEW Q \in SUBSET Accounts,
         P \cap Q = {}
  PROVE  Total(b, P \cup Q) = Total(b, P) + Total(b, Q)
<1> DEFINE S == P \cup Q
<1>1. \A a \in S : b[a] \in Int
  BY DEF Balances
<1>2. IsFiniteSet(S)
  BY AccountsFinite, FS_Subset
<1>3. P \in SUBSET S /\ Q \in SUBSET S /\ P \cup Q = S
  OBVIOUS
<1> HIDE DEF S
<1>4. SumFunctionOnSet(b, S) = SumFunctionOnSet(b, P) + SumFunctionOnSet(b, Q)
  BY <1>1, <1>2, <1>3, SumOfUnion
<1>5. QED
  BY <1>4 DEF Total, S

LEMMA ByActivity ==
  ASSUME NEW b \in Balances
  PROVE  /\ Total(b, Accounts) = cashCents(b) - netChangeCents(b)
         /\ cashCents(b) \in Int /\ netChangeCents(b) \in Int
<1> DEFINE P == {a \in Accounts : classifyActivity(a) = "cash"}
           Q == {a \in Accounts : classifyActivity(a) # "cash"}
<1>1. P \in SUBSET Accounts /\ Q \in SUBSET Accounts /\ P \cap Q = {} /\ P \cup Q = Accounts
  OBVIOUS
<1>2. cashCents(b) = Total(b, P) /\ netChangeCents(b) = -Total(b, Q)
  BY DEF cashCents, netChangeCents
<1> HIDE DEF P, Q
<1>3. Total(b, P) \in Int /\ Total(b, Q) \in Int
  BY <1>1, TotalsTyped
<1>4. Total(b, Accounts) = Total(b, P) + Total(b, Q)
  BY <1>1, TotalOfUnion
<1>5. QED
  BY <1>2, <1>3, <1>4

LEMMA ByType ==
  ASSUME NEW b \in Balances
  PROVE  /\ Total(b, Accounts) = Total(b, OfType("asset")) + Total(b, OfType("liability"))
              + Total(b, OfType("equity")) + Total(b, OfType("income") \cup OfType("expense"))
         /\ \A type : Total(b, OfType(type)) \in Int
         /\ Total(b, OfType("income") \cup OfType("expense")) \in Int
<1> DEFINE A == OfType("asset")
           L == OfType("liability")
           E == OfType("equity")
           R == OfType("income") \cup OfType("expense")
<1>1. /\ A \in SUBSET Accounts /\ L \in SUBSET Accounts /\ E \in SUBSET Accounts
      /\ R \in SUBSET Accounts
      /\ \A type : OfType(type) \in SUBSET Accounts
  BY DEF OfType
<1>2. A \cap L = {} /\ (A \cup L) \cap E = {} /\ ((A \cup L) \cup E) \cap R = {}
  BY DEF OfType
<1>3. ((A \cup L) \cup E) \cup R = Accounts
  BY DEF OfType, Accounts, AccountType
<1> HIDE DEF A, L, E, R
<1>4. A \cup L \in SUBSET Accounts /\ (A \cup L) \cup E \in SUBSET Accounts
  BY <1>1
<1>5. Total(b, A \cup L) = Total(b, A) + Total(b, L)
  BY <1>1, <1>2, TotalOfUnion
<1>6. Total(b, (A \cup L) \cup E) = Total(b, A \cup L) + Total(b, E)
  BY <1>1, <1>2, <1>4, TotalOfUnion
<1>7. Total(b, ((A \cup L) \cup E) \cup R) = Total(b, (A \cup L) \cup E) + Total(b, R)
  BY <1>1, <1>2, <1>4, TotalOfUnion
<1>8. \A type : Total(b, OfType(type)) \in Int
  BY <1>1, TotalsTyped
<1>9. Total(b, R) \in Int /\ Total(b, A \cup L) \in Int
  BY <1>1, <1>4, TotalsTyped
<1>10. QED
  BY <1>3, <1>5, <1>6, <1>7, <1>8, <1>9 DEF A, L, E, R

\* Three balances read with no posting between them.
LEMMA StatementIs ==
  ASSUME TypeOK, \A d \in Docs : Entries(d) # 0 => d \in Balanced, NEW p \in Reported, NEW read,
         \A q \in {"opening", "closing", "movement"} : read[q] = accountBalances(Span(q, p))
  PROVE  /\ EquityBridges(read) /\ CashReconciles(read)
         /\ balanceSheet(read["closing"]).assets
              = balanceSheet(read["closing"]).liabilitiesAndEquity
<1> DEFINE o == read["opening"]
           m == read["movement"]
           c == read["closing"]
<1>1. /\ o = accountBalances(Span("opening", p)) /\ m = accountBalances(Span("movement", p))
      /\ c = accountBalances(Span("closing", p))
  OBVIOUS
<1>2. o \in Balances /\ m \in Balances /\ c \in Balances
  BY <1>1, BalancesTyped
<1>3. \A a \in Accounts : c[a] = o[a] + m[a]
  BY <1>1, OpeningToClosing
<1>4. Total(m, Accounts) = 0 /\ Total(c, Accounts) = 0
  BY <1>1, AccountsBalance
<1> HIDE DEF o, m, c
<1>5. \A as \in SUBSET Accounts : Total(c, as) = Total(o, as) + Total(m, as)
  BY <1>2, <1>3, TotalsAdd
<1>6. /\ OfType("equity") \in SUBSET Accounts
      /\ OfType("income") \cup OfType("expense") \in SUBSET Accounts
      /\ {a \in Accounts : classifyActivity(a) = "cash"} \in SUBSET Accounts
  BY DEF OfType
<1>7. equityCents(o) + equityCents(m) = equityCents(c)
  <2> DEFINE E(b) == Total(b, OfType("equity"))
             R(b) == Total(b, OfType("income") \cup OfType("expense"))
  <2>1. E(c) = E(o) + E(m) /\ R(c) = R(o) + R(m)
    BY <1>5, <1>6
  <2>2. E(o) \in Int /\ E(m) \in Int /\ R(o) \in Int /\ R(m) \in Int
    BY <1>2, ByType
  <2>3. \A b : equityCents(b) = -R(b) - E(b)
    BY DEF equityCents, resultCents
  <2> HIDE DEF E, R
  <2>4. QED
    BY <2>1, <2>2, <2>3
<1>8. cashCents(o) + netChangeCents(m) = cashCents(c)
  <2>1. cashCents(c) = cashCents(o) + cashCents(m)
    BY <1>5, <1>6 DEF cashCents
  <2>2. 0 = cashCents(m) - netChangeCents(m) /\ cashCents(m) \in Int /\ netChangeCents(m) \in Int
    BY <1>2, <1>4, ByActivity
  <2>3. QED
    BY <2>1, <2>2
<1>9. balanceSheet(c).assets = balanceSheet(c).liabilitiesAndEquity
  <2> DEFINE A == Total(c, OfType("asset"))
             L == Total(c, OfType("liability"))
             E == Total(c, OfType("equity"))
             R == Total(c, OfType("income") \cup OfType("expense"))
  <2>1. 0 = A + L + E + R /\ A \in Int /\ L \in Int /\ E \in Int /\ R \in Int
    BY <1>2, <1>4, ByType
  <2>2. /\ balanceSheet(c).assets = A
        /\ balanceSheet(c).liabilitiesAndEquity = ((-R) - E) - L
    BY DEF balanceSheet, equityCents, resultCents
  <2> HIDE DEF A, L, E, R
  <2>3. QED
    BY <2>1, <2>2
<1>10. QED
  BY <1>7, <1>8, <1>9 DEF EquityBridges, CashReconciles, o, m, c

-----------------------------------------------------------------------------
(***************************************************************************)
(* What a posting leaves alone.                                            *)
(***************************************************************************)
\* What is read of a range that the journal has not changed in.
LEMMA JournalFixes ==
  ASSUME NEW p, \A d \in Within(p) : journal'[d] = journal[d]
  PROVE  /\ accountBalances(p)' = accountBalances(p)
         /\ Booked(p)' = Booked(p)
         /\ computeVat(p)' = computeVat(p)
         /\ vatBreakdown(p)' = vatBreakdown(p)
<1>1. accountBalances(p)' = accountBalances(p)
  <2>1. ASSUME NEW a \in Accounts
        PROVE  [d \in Within(p) |-> (journal'[d].posted - journal'[d].reversed) * Entry[d][a]]
                 = [d \in Within(p) |-> (journal[d].posted - journal[d].reversed) * Entry[d][a]]
    OBVIOUS
  <2>2. QED
    BY <2>1 DEF accountBalances, Entries
<1>2. Booked(p)' = Booked(p)
  BY DEF Booked
<1>3. computeVat(p)' = computeVat(p)
  BY <1>1 DEF computeVat
<1>4. vatBreakdown(p)' = vatBreakdown(p)
  <2>1. Booked(p)' \cap Sales = Booked(p) \cap Sales
        /\ Booked(p)' \cap Purchases = Booked(p) \cap Purchases
    BY <1>2
  <2>2. QED
    BY <2>1 DEF vatBreakdown, Signed
<1>5. QED
  BY <1>1, <1>2, <1>3, <1>4

\* Customers are known for good, once they are.
LEMMA CustomersKept ==
  ASSUME TypeOK, TypeOK', NEW d \in Docs, customerOf(d) \in Parties,
         \A e \in Docs : journal'[e].posted >= journal[e].posted
  PROVE  customerOf(d)' = customerOf(d)
<1> DEFINE C == {o \in Docs : /\ Kind(o) = "invoice" /\ journal[o].posted > 0
                              /\ DocSpec[o].number = DocSpec[d].corrects}
           D == {o \in Docs : /\ Kind(o) = "invoice" /\ journal'[o].posted > 0
                              /\ DocSpec[o].number = DocSpec[d].corrects}
           of(S) == DocSpec[CHOOSE o \in S : TRUE].customer
<1>1. customerOf(d) = IF Kind(d) = "invoice" THEN DocSpec[d].customer
                      ELSE IF C = {} THEN Nothing ELSE of(C)
  BY DEF customerOf
<1>2. customerOf(d)' = IF Kind(d) = "invoice" THEN DocSpec[d].customer
                       ELSE IF D = {} THEN Nothing ELSE of(D)
  BY DEF customerOf
<1>3. \A o \in Docs : journal[o].posted \in Nat /\ journal'[o].posted \in Nat
  BY DEF TypeOK
<1>4. C \subseteq D
  BY <1>3
<1>5. \A x, y \in D : x = y
  BY BooksAssumption
<1>6. Nothing \notin Parties
  BY BooksAssumption
<1> HIDE DEF C, D, of
<1>7. Kind(d) # "invoice" => C # {}
  BY <1>1, <1>6
<1>8. Kind(d) # "invoice" => C = D
  BY <1>4, <1>5, <1>7
<1>9. QED
  BY <1>1, <1>2, <1>8

LEMMA SalesListKept ==
  ASSUME TypeOK, TypeOK', NEW p, ecSalesList(p).issues = {},
         \A d \in Within(p) : journal'[d] = journal[d],
         \A e \in Docs : journal'[e].posted >= journal[e].posted
  PROVE  ecSalesList(p)' = ecSalesList(p)
<1> DEFINE of(c) == {e \in Listed(p) : customerOf(e) = c}
           after(c) == {e \in Listed(p)' : customerOf(e)' = c}
<1>1. Listed(p)' = Listed(p) /\ Listed(p) \subseteq Docs
  <2>1. Booked(p)' = Booked(p)
    BY JournalFixes
  <2>2. QED
    BY <2>1 DEF Listed, Sales
<1>2. \A d \in Listed(p) : customerOf(d) \in Parties
  BY SalesListIs
<1>3. \A d \in Listed(p) : customerOf(d)' = customerOf(d)
  BY <1>1, <1>2, CustomersKept
<1>4. \A c : after(c) = of(c)
  BY <1>1, <1>3
<1>5. {d \in Listed(p)' : customerOf(d)' \notin Parties}
        = {d \in Listed(p) : customerOf(d) \notin Parties}
  BY <1>1, <1>3
<1>6. ecSalesList(p)' =
        [rows |-> [x \in Parties \X SupplyTypes |->
           SumFunction([d \in after(x[1]) |-> Sign(d) * Supplied[d][x[2]]])],
         issues |-> {d \in Listed(p)' : customerOf(d)' \notin Parties}]
  BY DEF ecSalesList, Signed, Listed
<1>7. ecSalesList(p) =
        [rows |-> [x \in Parties \X SupplyTypes |->
           SumFunction([d \in of(x[1]) |-> Sign(d) * Supplied[d][x[2]]])],
         issues |-> {d \in Listed(p) : customerOf(d) \notin Parties}]
  BY DEF ecSalesList, Signed, Listed
<1> HIDE DEF of, after
<1>8. QED
  BY <1>4, <1>5, <1>6, <1>7

-----------------------------------------------------------------------------
(***************************************************************************)
(* Types.                                                                  *)
(***************************************************************************)
LEMMA AnswersGrow ==
  ASSUME NEW b \in Balances, NEW kind \in {"equity", "cash"}
  PROVE  [k \in {Queries(kind)[1]} |-> b] \in Answers
<1>1. Queries(kind)[1] \in {"opening", "movement"}
  BY DEF Queries
<1>2. QED
  BY <1>1 DEF Answers

LEMMA AnswersCounted ==
  ASSUME NEW read \in Answers
  PROVE  \/ DOMAIN read \in {{"opening"}, {"movement"}} /\ Cardinality(DOMAIN read) = 1
         \/ /\ DOMAIN read \in {{"opening", "closing"}, {"movement", "closing"}}
            /\ Cardinality(DOMAIN read) = 2
         \/ /\ DOMAIN read = {"opening", "closing", "movement"}
            /\ Cardinality(DOMAIN read) = 3
<1>1. Cardinality({"opening"}) = 1 /\ Cardinality({"movement"}) = 1
      /\ IsFiniteSet({"opening"}) /\ IsFiniteSet({"movement"})
  BY FS_Singleton
<1>2. /\ Cardinality({"opening"} \cup {"closing"}) = 2
      /\ Cardinality({"movement"} \cup {"closing"}) = 2
      /\ IsFiniteSet({"opening"} \cup {"closing"})
  BY <1>1, FS_AddElement
<1>3. Cardinality(({"opening"} \cup {"closing"}) \cup {"movement"}) = 3
  BY <1>2, FS_AddElement
<1>4. /\ {"opening"} \cup {"closing"} = {"opening", "closing"}
      /\ {"movement"} \cup {"closing"} = {"movement", "closing"}
      /\ ({"opening"} \cup {"closing"}) \cup {"movement"} = {"opening", "closing", "movement"}
  OBVIOUS
<1>5. QED
  BY <1>1, <1>2, <1>3, <1>4 DEF Answers

\* The answer to the next query.
LEMMA NextAnswer ==
  ASSUME NEW read \in Answers, NEW kind \in {"equity", "cash"}, NEW b \in Balances,
         Cardinality(DOMAIN read) # 3
  PROVE  LET q == Queries(kind)[Cardinality(DOMAIN read) + 1]
         IN  [k \in DOMAIN read \cup {q} |-> IF k = q THEN b ELSE read[k]] \in Answers
<1> DEFINE q == Queries(kind)[Cardinality(DOMAIN read) + 1]
           D == DOMAIN read \cup {q}
           after == [k \in D |-> IF k = q THEN b ELSE read[k]]
<1>1. \A k \in DOMAIN read : read[k] \in Balances
  BY DEF Answers
<1>2. D \in {{"opening"}, {"opening", "closing"}, {"movement"}, {"movement", "closing"},
             {"opening", "closing", "movement"}}
  <2>1. CASE Cardinality(DOMAIN read) = 1
    <3>1. DOMAIN read \in {{"opening"}, {"movement"}}
      BY <2>1, AnswersCounted
    <3>2. q = "closing"
      BY <2>1 DEF Queries
    <3>3. QED
      BY <3>1, <3>2
  <2>2. CASE Cardinality(DOMAIN read) = 2
    <3>1. DOMAIN read \in {{"opening", "closing"}, {"movement", "closing"}}
      BY <2>2, AnswersCounted
    <3>2. q \in {"opening", "movement"}
      BY <2>2 DEF Queries
    <3>3. QED
      BY <3>1, <3>2
  <2>3. QED
    BY <2>1, <2>2, AnswersCounted
<1> HIDE DEF q, D
<1>3. \A k \in D : k # q => k \in DOMAIN read
  BY DEF D
<1>4. after \in [D -> Balances]
  BY <1>1, <1>3
<1>5. after \in Answers
  BY <1>2, <1>4 DEF Answers
<1>6. QED
  BY <1>5 DEF q, D

\* A call of each kind has its fields.
LEMMA CallForms ==
  ASSUME NEW c \in Calls
  PROVE  /\ c.op \in {"post", "declare", "declared", "listed", "statement"}
         /\ c.op = "post" => c \in [op : {"post"}, doc : Docs, as : {"posted", "reversed"}]
         /\ c.op = "declare" => c \in [op : {"declare"}, range : Ranges, disturbed : BOOLEAN,
                                       final : BOOLEAN, vat : Vat]
         /\ c.op = "declared" => c \in [op : {"declared"}, range : Ranges, disturbed : BOOLEAN,
                                        final : BOOLEAN, payload : Declaration]
         /\ c.op = "listed" => c \in [op : {"listed"}, range : Ranges, disturbed : BOOLEAN,
                                      final : BOOLEAN, payload : SalesList]
         /\ c.op = "statement" => c \in [op : {"statement"}, range : Reported,
                                         disturbed : BOOLEAN, kind : {"equity", "cash"},
                                         read : Answers]
BY DEF Calls

LEMMA Unseals ==
  ASSUME NEW m
  PROVE  /\ \A c \in Calls \cup {Nothing} : Unseal(c, m) \in Calls \cup {Nothing}
         /\ \A c \in Filings \cup {Nothing} : Unseal(c, m) \in Filings \cup {Nothing}
<1>1. ASSUME NEW c \in Calls PROVE Unseal(c, m) \in Calls
  <2>1. CASE c.op = "post"
    BY <2>1, CallForms DEF Unseal, Calls
  <2>2. CASE c.op = "declare"
    BY <2>2, CallForms DEF Unseal, Calls
  <2>3. CASE c.op = "declared"
    BY <2>3, CallForms DEF Unseal, Calls
  <2>4. CASE c.op = "listed"
    BY <2>4, CallForms DEF Unseal, Calls
  <2>5. CASE c.op = "statement"
    BY <2>5, CallForms DEF Unseal, Calls
  <2>6. QED
    BY <2>1, <2>2, <2>3, <2>4, <2>5, CallForms
<1>2. ASSUME NEW c \in Filings PROVE Unseal(c, m) \in Filings
  BY DEF Unseal, Filings
<1>3. Unseal(Nothing, m) = Nothing
  BY DEF Unseal
<1>4. QED
  BY <1>1, <1>2, <1>3

LEMMA DisturbedTyped ==
  ASSUME NEW c \in Calls, c.op # "post"
  PROVE  [c EXCEPT !.disturbed = TRUE] \in Calls
<1>1. CASE c.op = "declare"
  BY <1>1, CallForms DEF Calls
<1>2. CASE c.op = "declared"
  BY <1>2, CallForms DEF Calls
<1>3. CASE c.op = "listed"
  BY <1>3, CallForms DEF Calls
<1>4. CASE c.op = "statement"
  BY <1>4, CallForms DEF Calls
<1>5. QED
  BY <1>1, <1>2, <1>3, <1>4, CallForms

\* The state keeps its types.
LEMMA StepTyped == TypeOK /\ [Next]_vars => TypeOK'
<1> SUFFICES ASSUME TypeOK, [Next]_vars PROVE TypeOK'
  OBVIOUS
<1> USE DEF TypeOK
<1>1. ASSUME NEW m \in Months, openPeriod(m) PROVE TypeOK'
  BY <1>1, Unseals DEF openPeriod
<1>2. ASSUME NEW m \in Months, closePeriod(m) PROVE TypeOK'
  BY <1>2 DEF closePeriod
<1>3. ASSUME NEW s \in Sessions, PostReads(s) \/ ReverseReads(s) PROVE TypeOK'
  <2>1. \E d \in Docs : \E as \in {"posted", "reversed"} : BeginsPosting(s, d, as)
    BY <1>3 DEF PostReads, ReverseReads
  <2>2. \A d \in Docs : \A as \in {"posted", "reversed"} :
          [op |-> "post", doc |-> d, as |-> as] \in Calls
    BY DEF Calls
  <2>3. QED
    BY <2>1, <2>2 DEF BeginsPosting, Begins
<1>4. ASSUME NEW s \in Sessions, PostCommits(s) PROVE TypeOK'
  <2>1. call[s] \in Calls /\ call[s].op = "post"
    BY <1>4 DEF PostCommits, Posting, At
  <2>2. call[s].doc \in Docs /\ call[s].as \in {"posted", "reversed"}
    BY <2>1, CallForms
  <2>3. journal' \in [Docs -> [posted : Nat, reversed : Nat]]
    BY <1>4, <2>2 DEF PostCommits
  <2>4. \A r \in Sessions : Reading(r) => [call[r] EXCEPT !.disturbed = TRUE] \in Calls
    BY DisturbedTyped DEF Reading, Posting, At
  <2>5. call' \in [Sessions -> Calls \cup {Nothing}]
    BY <1>4, <2>4 DEF PostCommits
  <2>6. QED
    BY <1>4, <2>3, <2>5 DEF PostCommits
<1>5. ASSUME NEW s \in Sessions, DeclarationReads(s) PROVE TypeOK'
  <2>1. PICK p \in Ranges : Begins(s, [op |-> "declare", range |-> p, disturbed |-> FALSE,
                                       final |-> Sealed(p), vat |-> computeVat(p)])
    BY <1>5 DEF DeclarationReads
  <2>2. Sealed(p) \in BOOLEAN
    BY DEF Sealed
  <2>3. [op |-> "declare", range |-> p, disturbed |-> FALSE,
         final |-> Sealed(p), vat |-> computeVat(p)] \in Calls
    BY <2>2, VatTyped DEF Calls
  <2>4. QED
    BY <1>5, <2>1, <2>3 DEF DeclarationReads, Begins
<1>6. ASSUME NEW s \in Sessions, DeclarationCompares(s) PROVE TypeOK'
  <2> DEFINE c == call[s]
             after == [op |-> "declared", range |-> c.range, disturbed |-> c.disturbed,
                       final |-> c.final,
                       payload |-> [vat |-> c.vat, documents |-> vatBreakdown(c.range)]]
  <2>1. c \in Calls /\ c.op = "declare"
    BY <1>6 DEF DeclarationCompares, At
  <2>2. c.range \in Ranges /\ c.disturbed \in BOOLEAN /\ c.final \in BOOLEAN /\ c.vat \in Vat
    BY <2>1, CallForms
  <2>3. vatBreakdown(c.range) \in Vat
    BY VatTyped
  <2>4. after \in Calls
    BY <2>2, <2>3 DEF Calls, Declaration
  <2>5. QED
    BY <1>6, <2>4 DEF DeclarationCompares
<1>7. ASSUME NEW s \in Sessions, SalesListReads(s) PROVE TypeOK'
  <2>1. PICK p \in Ranges : Begins(s, [op |-> "listed", range |-> p, disturbed |-> FALSE,
                                       final |-> Sealed(p), payload |-> ecSalesList(p)])
    BY <1>7 DEF SalesListReads
  <2>2. Sealed(p) \in BOOLEAN
    BY DEF Sealed
  <2>3. [op |-> "listed", range |-> p, disturbed |-> FALSE,
         final |-> Sealed(p), payload |-> ecSalesList(p)] \in Calls
    BY <2>2, ListCovers DEF Calls
  <2>4. QED
    BY <1>7, <2>1, <2>3 DEF SalesListReads, Begins
<1>8. ASSUME NEW s \in Sessions, Files(s) PROVE TypeOK'
  <2>1. call[s] \in Calls /\ call[s].op \in {"declared", "listed"}
    BY <1>8 DEF Files, At
  <2>2. [op |-> call[s].op, range |-> call[s].range, payload |-> call[s].payload,
         final |-> call[s].final] \in Filings
    BY <2>1, CallForms DEF Filings
  <2>3. QED
    BY <1>8, <2>2 DEF Files, Ends
<1>9. ASSUME NEW s \in Sessions, StatementBegins(s) PROVE TypeOK'
  <2>1. PICK p \in Reported, kind \in {"equity", "cash"} :
          Begins(s, [op |-> "statement", range |-> p, disturbed |-> FALSE, kind |-> kind,
                     read |-> [k \in {Queries(kind)[1]} |->
                                 accountBalances(Span(Queries(kind)[1], p))]])
    BY <1>9 DEF StatementBegins
  <2>2. [k \in {Queries(kind)[1]} |-> accountBalances(Span(Queries(kind)[1], p))] \in Answers
    BY BalancesTyped, AnswersGrow
  <2>3. [op |-> "statement", range |-> p, disturbed |-> FALSE, kind |-> kind,
         read |-> [k \in {Queries(kind)[1]} |->
                     accountBalances(Span(Queries(kind)[1], p))]] \in Calls
    BY <2>2 DEF Calls
  <2>4. QED
    BY <1>9, <2>1, <2>3 DEF StatementBegins, Begins
<1>10. ASSUME NEW s \in Sessions, StatementReads(s) PROVE TypeOK'
  <2> DEFINE c == call[s]
             q == Queries(c.kind)[Cardinality(DOMAIN c.read) + 1]
             b == accountBalances(Span(q, c.range))
             read == [k \in DOMAIN c.read \cup {q} |-> IF k = q THEN b ELSE c.read[k]]
  <2>1. c \in Calls /\ c.op = "statement"
    BY <1>10 DEF StatementReads, At
  <2>2. c \in [op : {"statement"}, range : Reported, disturbed : BOOLEAN,
               kind : {"equity", "cash"}, read : Answers]
    BY <2>1, CallForms
  <2>3. b \in Balances
    BY BalancesTyped
  <2>4. Cardinality(DOMAIN c.read) # 3
    BY <1>10 DEF StatementReads, AllRead
  <2>5. read \in Answers
    <3>1. c.read \in Answers /\ c.kind \in {"equity", "cash"}
      BY <2>2
    <3> HIDE DEF b, c
    <3>2. QED
      BY <2>3, <2>4, <3>1, NextAnswer
  <2>6. [c EXCEPT !.read = read] \in Calls
    <3> HIDE DEF read, c
    <3>1. QED
      BY <2>2, <2>5 DEF Calls
  <2>7. call' = [call EXCEPT ![s] = [c EXCEPT !.read = read]]
    BY <1>10 DEF StatementReads
  <2> HIDE DEF read, c
  <2>8. QED
    BY <1>10, <2>6, <2>7 DEF StatementReads
<1>11. ASSUME NEW s \in Sessions, Returns(s) PROVE TypeOK'
  BY <1>11 DEF Returns, Ends
<1>12. CASE UNCHANGED vars
  BY <1>12 DEF vars
<1>13. QED
  BY <1>1, <1>2, <1>3, <1>4, <1>5, <1>6, <1>7, <1>8, <1>9, <1>10, <1>11, <1>12 DEF Next

\* Periods, journal, filings and open calls are of the kinds the code writes.
THEOREM TypeCorrect == Spec => []TypeOK
<1>1. Init => TypeOK
  BY DEF Init, TypeOK
<1>2. QED
  BY <1>1, StepTyped, PTL DEF Spec

-----------------------------------------------------------------------------
(***************************************************************************)
(* What a step does to the journal.                                        *)
(***************************************************************************)
\* Only a posting in hand changes the journal, and only adds to it.
LEMMA JournalSteps ==
  ASSUME TypeOK, [Next]_vars
  PROVE  /\ \A d \in Docs : journal'[d] # journal[d] =>
              \E s \in Sessions : Posting(s) /\ call[s].doc = d
         /\ \A d \in Docs : journal'[d].posted >= journal[d].posted
<1>1. CASE \E s \in Sessions : PostCommits(s)
  <2>1. PICK s \in Sessions : PostCommits(s)
    BY <1>1
  <2>2. call[s].doc \in Docs /\ call[s].as \in {"posted", "reversed"}
    BY <2>1, CallForms DEF TypeOK, PostCommits, Posting, At
  <2>3. journal' = [journal EXCEPT ![call[s].doc][call[s].as] = @ + 1]
    BY <2>1 DEF PostCommits
  <2>4. Posting(s)
    BY <2>1 DEF PostCommits
  <2>5. QED
    BY <2>2, <2>3, <2>4 DEF TypeOK
<1>2. CASE ~\E s \in Sessions : PostCommits(s)
  <2>1. journal' = journal
    BY <1>2 DEF Next, vars, openPeriod, closePeriod, PostReads, ReverseReads, BeginsPosting,
                DeclarationReads, DeclarationCompares, SalesListReads, Files, StatementBegins,
                StatementReads, Returns
  <2>2. QED
    BY <2>1 DEF TypeOK
<1>3. QED
  BY <1>1, <1>2

\* Only what balances is in the journal, or about to be.
JournalBalanced ==
  /\ \A d \in Docs : journal[d].posted > 0 \/ journal[d].reversed > 0 => d \in Balanced
  /\ \A s \in Sessions : Posting(s) => call[s].doc \in Balanced

LEMMA EntriesBalanced ==
  ASSUME TypeOK, JournalBalanced
  PROVE  \A d \in Docs : Entries(d) # 0 => d \in Balanced
BY DEF TypeOK, JournalBalanced, Entries

\* A call that is posting was, or begins here, in a month that is open.
LEMMA PostingSteps ==
  ASSUME TypeOK, [Next]_vars, NEW r \in Sessions, Posting(r)'
  PROVE  \/ Posting(r) /\ call'[r].doc = call[r].doc
         \/ /\ call'[r].doc \in Docs /\ postEntry(call'[r].doc)
            /\ UNCHANGED <<period, journal, filing>>
            /\ \A s \in Sessions \ {r} : call'[s] = call[s]
<1> USE DEF Posting, At
<1>0. call[r] # Nothing => call[r] \in Calls
  BY DEF TypeOK
<1>1. CASE call'[r] = call[r]
  BY <1>1
<1>2. ASSUME NEW m \in Months, openPeriod(m) PROVE Posting(r) /\ call'[r].doc = call[r].doc
  <2>1. call'[r] = Unseal(call[r], m)
    BY <1>2 DEF openPeriod
  <2>2. CASE call[r] = Nothing
    BY <2>1, <2>2 DEF Unseal
  <2>3. CASE call[r] # Nothing /\ call[r].op = "post"
    <3>1. "final" \notin DOMAIN call[r]
      BY <2>3, <1>0, CallForms
    <3>2. QED
      BY <2>1, <2>3, <3>1 DEF Unseal
  <2>4. CASE call[r] # Nothing /\ call[r].op # "post"
    <3>1. Unseal(call[r], m).op = call[r].op
      BY <2>4, <1>0, CallForms DEF Unseal
    <3>2. QED
      BY <2>1, <2>4, <3>1
  <2>5. QED
    BY <2>2, <2>3, <2>4
<1>3. ASSUME NEW s \in Sessions, PostCommits(s) PROVE call'[r] = call[r]
  <2>1. call'[r] = IF r = s THEN Nothing
                   ELSE IF Reading(r) /\ Concerns(call[r], Date(call[s].doc))
                     THEN [call[r] EXCEPT !.disturbed = TRUE] ELSE call[r]
    BY <1>3 DEF PostCommits
  <2>2. ASSUME Reading(r) PROVE [call[r] EXCEPT !.disturbed = TRUE].op # "post"
    BY <2>2, <1>0, CallForms DEF Reading
  <2>3. QED
    BY <2>1, <2>2
<1>4. ASSUME NEW s \in Sessions, PostReads(s) \/ ReverseReads(s), call'[r] # call[r]
      PROVE  /\ r = s /\ call'[r].doc \in Docs /\ postEntry(call'[r].doc)
             /\ UNCHANGED <<period, journal, filing>>
             /\ \A q \in Sessions \ {r} : call'[q] = call[q]
  <2>1. PICK d \in Docs : postEntry(d) /\ \E as \in {"posted", "reversed"} : BeginsPosting(s, d, as)
    BY <1>4 DEF PostReads, ReverseReads
  <2>2. PICK as \in {"posted", "reversed"} : BeginsPosting(s, d, as)
    BY <2>1
  <2>3. /\ call' = [call EXCEPT ![s] = [op |-> "post", doc |-> d, as |-> as]]
        /\ UNCHANGED <<period, journal, filing>>
    BY <2>2 DEF BeginsPosting, Begins
  <2>4. r = s
    BY <2>3, <1>4 DEF TypeOK
  <2>5. call'[r].doc = d /\ \A q \in Sessions \ {r} : call'[q] = call[q]
    BY <2>3, <2>4 DEF TypeOK
  <2>6. QED
    BY <2>1, <2>3, <2>4, <2>5
<1>5. ASSUME NEW s \in Sessions,
             DeclarationReads(s) \/ DeclarationCompares(s) \/ SalesListReads(s) \/ Files(s)
             \/ StatementBegins(s) \/ Returns(s)
      PROVE  call'[r] = call[r]
  <2>1. r # s => call'[r] = call[r]
    BY <1>5 DEF TypeOK, DeclarationReads, DeclarationCompares, SalesListReads, Files,
                StatementBegins, Returns, Begins, Ends
  <2>2. r = s => call'[r] = Nothing \/ call'[r].op \in {"declare", "declared", "listed", "statement"}
    BY <1>5 DEF TypeOK, DeclarationReads, DeclarationCompares, SalesListReads, Files,
                StatementBegins, Returns, Begins, Ends
  <2>3. QED
    BY <2>1, <2>2
<1>6. ASSUME NEW s \in Sessions, StatementReads(s) PROVE call'[r] = call[r]
  <2>1. r # s => call'[r] = call[r]
    BY <1>6 DEF TypeOK, StatementReads
  <2>2. call[s].op = "statement" /\ call[s] \in Calls
    BY <1>6 DEF TypeOK, StatementReads
  <2>3. \A x : [call[s] EXCEPT !.read = x].op = "statement"
    BY <2>2, CallForms
  <2>4. \E x : call' = [call EXCEPT ![s] = [call[s] EXCEPT !.read = x]]
    BY <1>6 DEF StatementReads
  <2>5. r = s => call'[r].op = "statement"
    BY <2>3, <2>4 DEF TypeOK
  <2>6. QED
    BY <2>1, <2>5
<1>7. ASSUME NEW m \in Months, closePeriod(m) PROVE call'[r] = call[r]
  BY <1>7 DEF closePeriod
<1>8. CASE UNCHANGED vars
  BY <1>8, <1>1 DEF vars
<1>9. QED
  BY <1>1, <1>2, <1>3, <1>4, <1>5, <1>6, <1>7, <1>8 DEF Next

LEMMA StepBalanced == TypeOK /\ JournalBalanced /\ [Next]_vars => JournalBalanced'
<1> SUFFICES ASSUME TypeOK, JournalBalanced, [Next]_vars PROVE JournalBalanced'
  OBVIOUS
<1>1. ASSUME NEW d \in Docs, journal'[d].posted > 0 \/ journal'[d].reversed > 0
      PROVE  d \in Balanced
  <2>1. CASE journal'[d] = journal[d]
    BY <2>1, <1>1 DEF JournalBalanced
  <2>2. CASE journal'[d] # journal[d]
    <3>1. PICK s \in Sessions : Posting(s) /\ call[s].doc = d
      BY <2>2, JournalSteps
    <3>2. QED
      BY <3>1 DEF JournalBalanced
  <2>3. QED
    BY <2>1, <2>2
<1>2. ASSUME NEW s \in Sessions, Posting(s)' PROVE call'[s].doc \in Balanced
  BY <1>2, PostingSteps DEF JournalBalanced, postEntry
<1>3. QED
  BY <1>1, <1>2 DEF JournalBalanced

-----------------------------------------------------------------------------
(***************************************************************************)
(* What a call has read.                                                   *)
(***************************************************************************)
\* A call that reads was left as it was, or unsealed, or disturbed, or read.
LEMMA ReadingSteps ==
  ASSUME TypeOK, [Next]_vars, NEW r \in Sessions, Reading(r)'
  PROVE  \/ call'[r] = call[r]
         \/ \E m \in Months : openPeriod(m) /\ call'[r] = Unseal(call[r], m)
         \/ \E s \in Sessions :
              /\ PostCommits(s) /\ Reading(r) /\ Concerns(call[r], Date(call[s].doc))
              /\ call'[r] = [call[r] EXCEPT !.disturbed = TRUE]
         \/ /\ \/ DeclarationReads(r) \/ DeclarationCompares(r) \/ SalesListReads(r)
               \/ StatementBegins(r) \/ StatementReads(r)
            /\ UNCHANGED <<period, journal, filing>>
<1>1. ASSUME NEW m \in Months, openPeriod(m) PROVE call'[r] = Unseal(call[r], m)
  BY <1>1 DEF openPeriod
<1>2. ASSUME NEW m \in Months, closePeriod(m) PROVE call'[r] = call[r]
  BY <1>2 DEF closePeriod
<1>3. ASSUME NEW s \in Sessions, PostReads(s) \/ ReverseReads(s) PROVE call'[r] = call[r]
  <2>1. PICK d \in Docs, as \in {"posted", "reversed"} : BeginsPosting(s, d, as)
    BY <1>3 DEF PostReads, ReverseReads
  <2>2. call' = [call EXCEPT ![s] = [op |-> "post", doc |-> d, as |-> as]]
    BY <2>1 DEF BeginsPosting, Begins
  <2>3. r # s
    BY <2>2 DEF TypeOK, Reading, Posting, At
  <2>4. QED
    BY <2>2, <2>3 DEF TypeOK
<1>4. ASSUME NEW s \in Sessions, PostCommits(s)
      PROVE  \/ call'[r] = call[r]
             \/ /\ Reading(r) /\ Concerns(call[r], Date(call[s].doc))
                /\ call'[r] = [call[r] EXCEPT !.disturbed = TRUE]
  BY <1>4 DEF PostCommits, Reading
<1>5. ASSUME NEW s \in Sessions, r # s,
             DeclarationReads(s) \/ DeclarationCompares(s) \/ SalesListReads(s)
             \/ StatementBegins(s) \/ StatementReads(s)
      PROVE  call'[r] = call[r]
  BY <1>5 DEF TypeOK, DeclarationReads, DeclarationCompares, SalesListReads, StatementBegins,
              StatementReads, Begins
<1>6. ASSUME NEW s \in Sessions, Files(s) \/ Returns(s) PROVE call'[r] = call[r]
  BY <1>6 DEF TypeOK, Files, Returns, Ends, Reading
<1>7. ASSUME NEW s \in Sessions,
             DeclarationReads(s) \/ DeclarationCompares(s) \/ SalesListReads(s)
             \/ StatementBegins(s) \/ StatementReads(s)
      PROVE  UNCHANGED <<period, journal, filing>>
  BY <1>7 DEF DeclarationReads, DeclarationCompares, SalesListReads, StatementBegins,
              StatementReads
<1>8. CASE UNCHANGED vars
  BY <1>8 DEF vars
<1>9. QED
  BY <1>1, <1>2, <1>3, <1>4, <1>5, <1>6, <1>7, <1>8 DEF Next

\* No entry that concerns a call is made and the call not disturbed.
LEMMA Undisturbed ==
  ASSUME TypeOK, [Next]_vars, NEW r \in Sessions, Reading(r)', ~call'[r].disturbed,
         NEW d \in Docs, journal'[d] # journal[d]
  PROVE  call'[r] = call[r] /\ ~Concerns(call[r], Date(d))
<1>1. PICK s \in Sessions : PostCommits(s)
  BY DEF Next, vars, openPeriod, closePeriod, PostReads, ReverseReads, BeginsPosting,
         DeclarationReads, DeclarationCompares, SalesListReads, Files, StatementBegins,
         StatementReads, Returns
<1>2. call'[r] = IF r = s THEN Nothing
                 ELSE IF Reading(r) /\ Concerns(call[r], Date(call[s].doc))
                   THEN [call[r] EXCEPT !.disturbed = TRUE] ELSE call[r]
  BY <1>1 DEF PostCommits
<1>3. r # s
  BY <1>2 DEF Reading
<1>4. ASSUME Reading(r) PROVE [call[r] EXCEPT !.disturbed = TRUE].disturbed
  <2>1. call[r] \in Calls /\ call[r].op # "post"
    BY <1>4 DEF Reading, Posting, At, TypeOK
  <2>2. QED
    BY <2>1, CallForms
<1>5. call'[r] = call[r] /\ (Reading(r) => ~Concerns(call[r], Date(call[s].doc)))
  BY <1>2, <1>3, <1>4
<1>6. Reading(r)
  BY <1>5 DEF Reading, Posting, At
<1>7. d = call[s].doc
  BY <1>1 DEF TypeOK, PostCommits
<1>8. QED
  BY <1>5, <1>6, <1>7

\* What c has read is still there.
Current(c) ==
  /\ c.op = "declare" => c.vat = computeVat(c.range)
  /\ c.op = "declared" =>
       c.payload = [vat |-> computeVat(c.range), documents |-> vatBreakdown(c.range)]
  /\ c.op = "listed" =>
       SumFunction(c.payload.rows) + SumFunction([d \in c.payload.issues |-> Sign(d) * Net[d]])
         = SumFunction([d \in Booked(c.range) \cap Sales |-> Sign(d) * Net[d]])
  /\ c.op = "statement" =>
       \A q \in DOMAIN c.read : c.read[q] = accountBalances(Span(q, c.range))

ReadsCurrent ==
  \A s \in Sessions : \A c \in Calls :
    Reading(s) /\ call[s] = c /\ ~c.disturbed => Current(c)

LEMMA CurrentKept ==
  ASSUME NEW c \in Calls, c.op # "post", Current(c),
         \A d \in Docs : journal'[d] # journal[d] => ~Concerns(c, Date(d))
  PROVE  Current(c)'
<1> DEFINE p == c.range
<1>1. p \in Ranges \cup Reported
  BY CallForms
<1>2. p.from \in Months /\ p.to \in Months /\ p.from <= p.to
  BY <1>1, BooksAssumption
<1>3. CASE c.op # "statement"
  <2>1. \A d \in Within(p) : journal'[d] = journal[d]
    BY <1>3 DEF Within, Concerns
  <2>2. /\ Booked(p)' = Booked(p) /\ computeVat(p)' = computeVat(p)
        /\ vatBreakdown(p)' = vatBreakdown(p)
    BY <2>1, JournalFixes
  <2>3. QED
    BY <1>3, <2>2 DEF Current
<1>4. CASE c.op = "statement"
  <2>1. c.read \in Answers
    BY <1>4, CallForms
  <2>2. ASSUME NEW q \in DOMAIN c.read
        PROVE  accountBalances(Span(q, p))' = accountBalances(Span(q, p))
    <3>1. q \in {"opening", "closing", "movement"}
      BY <2>1, <2>2 DEF Answers
    <3>2. \A d \in Within(Span(q, p)) : Date(d) <= p.to /\ d \in Docs
      <4>1. \A d \in Docs : Date(d) \in Months
        BY DocsTyped
      <4>2. QED
        BY <1>2, <3>1, <4>1 DEF Within, Span, Months
    <3>3. \A d \in Within(Span(q, p)) : journal'[d] = journal[d]
      BY <1>4, <3>2 DEF Concerns
    <3>4. QED
      BY <3>3, JournalFixes
  <2>3. QED
    BY <1>4, <2>2 DEF Current
<1>5. QED
  BY <1>3, <1>4

\* Unsealing changes nothing that was read.
LEMMA UnsealKeeps ==
  ASSUME NEW b \in Calls \cup Filings, NEW m, NEW c, c = Unseal(b, m)
  PROVE  /\ c.op = b.op
         /\ c.op # "post" => c.range = b.range
         /\ c.op \in {"declare", "declared", "listed"} =>
              (c.final => b.final /\ (b # Nothing => m \notin b.range.from..b.range.to))
         /\ c.op = "declare" => c.vat = b.vat
         /\ c.op \in {"declared", "listed"} => c.payload = b.payload
         /\ c.op = "statement" => c.read = b.read
         /\ b \in Calls /\ c.op # "post" => c.disturbed = b.disturbed
<1>1. ASSUME b \in Calls PROVE b.op \in {"post", "declare", "declared", "listed", "statement"}
  BY <1>1, CallForms
<1>2. CASE b \in Calls /\ b.op = "post"
  BY <1>2, CallForms DEF Unseal
<1>3. CASE b \in Calls /\ b.op = "declare"
  BY <1>3, CallForms DEF Unseal
<1>4. CASE b \in Calls /\ b.op = "declared"
  BY <1>4, CallForms DEF Unseal
<1>5. CASE b \in Calls /\ b.op = "listed"
  BY <1>5, CallForms DEF Unseal
<1>6. CASE b \in Calls /\ b.op = "statement"
  BY <1>6, CallForms DEF Unseal
<1>7. CASE b \in Filings /\ b \notin Calls
  BY <1>7 DEF Unseal, Filings
<1>8. QED
  BY <1>1, <1>2, <1>3, <1>4, <1>5, <1>6, <1>7

LEMMA StepCurrent == TypeOK /\ ReadsCurrent /\ [Next]_vars => ReadsCurrent'
<1> SUFFICES ASSUME TypeOK, ReadsCurrent, [Next]_vars,
                    NEW s \in Sessions, NEW c \in Calls,
                    Reading(s)', call'[s] = c, ~c.disturbed
             PROVE  Current(c)'
  BY DEF ReadsCurrent
<1>1. c.op # "post" /\ c # Nothing
  BY DEF Reading, Posting, At
<1>2. \A d \in Docs : journal'[d] # journal[d] => ~Concerns(c, Date(d))
  BY Undisturbed
<1>3. ASSUME Current(c) PROVE Current(c)'
  BY <1>1, <1>2, <1>3, CurrentKept
<1>4. call[s] # Nothing => call[s] \in Calls
  BY DEF TypeOK
<1>5. CASE call'[s] = call[s]
  <2>1. Reading(s)
    BY <1>1, <1>5 DEF Reading, Posting, At
  <2>2. QED
    BY <2>1, <1>3, <1>5 DEF ReadsCurrent
<1>6. CASE \E m \in Months : openPeriod(m) /\ call'[s] = Unseal(call[s], m)
  <2>1. PICK m \in Months : c = Unseal(call[s], m)
    BY <1>6
  <2>2. call[s] # Nothing
    BY <1>1, <2>1 DEF Unseal
  <2> DEFINE b == call[s]
  <2>3. b \in Calls
    BY <1>4, <2>2
  <2>4. /\ c.op = b.op /\ c.range = b.range /\ ~b.disturbed
        /\ c.op = "declare" => c.vat = b.vat
        /\ c.op \in {"declared", "listed"} => c.payload = b.payload
        /\ c.op = "statement" => c.read = b.read
    BY <1>1, <2>1, <2>3, UnsealKeeps
  <2>5. Current(b)
    BY <1>1, <2>2, <2>3, <2>4 DEF ReadsCurrent, Reading, Posting, At
  <2>6. Current(c)
    BY <1>1, <2>4, <2>5 DEF Current
  <2>7. QED
    BY <1>3, <2>6
<1>7. CASE call'[s] = [call[s] EXCEPT !.disturbed = TRUE] /\ Reading(s)
  <2>1. call[s] \in Calls /\ call[s].op # "post"
    BY <1>4, <1>7 DEF Reading, Posting, At
  <2>2. c.disturbed
    BY <1>7, <2>1, CallForms
  <2>3. QED
    BY <2>2
<1>8. CASE DeclarationReads(s)
  <2>1. PICK p \in Ranges : c = [op |-> "declare", range |-> p, disturbed |-> FALSE,
                                 final |-> Sealed(p), vat |-> computeVat(p)]
    BY <1>8 DEF TypeOK, DeclarationReads, Begins
  <2>2. QED
    BY <2>1, <1>3 DEF Current
<1>9. CASE DeclarationCompares(s)
  <2>1. PICK b \in Calls : b = call[s] /\ b.op = "declare"
    BY <1>4, <1>9 DEF DeclarationCompares, At
  <2>2. c = [op |-> "declared", range |-> b.range, disturbed |-> b.disturbed,
             final |-> b.final,
             payload |-> [vat |-> b.vat, documents |-> vatBreakdown(b.range)]]
    BY <1>9, <2>1 DEF TypeOK, DeclarationCompares
  <2>3. Reading(s) /\ ~b.disturbed
    BY <1>9, <2>1, <2>2 DEF DeclarationCompares, Reading, Posting, At
  <2>4. b.vat = computeVat(b.range)
    BY <2>1, <2>3 DEF ReadsCurrent, Current
  <2>5. Current(c)
    BY <2>2, <2>4 DEF Current
  <2>6. QED
    BY <2>5, <1>3
<1>10. CASE SalesListReads(s)
  <2>1. PICK p \in Ranges : c = [op |-> "listed", range |-> p, disturbed |-> FALSE,
                                 final |-> Sealed(p), payload |-> ecSalesList(p)]
    BY <1>10 DEF TypeOK, SalesListReads, Begins
  <2>2. Current(c)
    <3>1. c.op = "listed" /\ c.range = p /\ c.payload = ecSalesList(p)
      BY <2>1
    <3>2. QED
      BY <3>1, ListCovers DEF Current
  <2>3. QED
    BY <2>2, <1>3
<1>11. CASE StatementBegins(s)
  <2>1. PICK p \in Reported, kind \in {"equity", "cash"} :
          c = [op |-> "statement", range |-> p, disturbed |-> FALSE, kind |-> kind,
               read |-> [k \in {Queries(kind)[1]} |->
                           accountBalances(Span(Queries(kind)[1], p))]]
    BY <1>11 DEF TypeOK, StatementBegins, Begins
  <2>2. c.op = "statement" /\ c.range = p
        /\ \A q \in DOMAIN c.read : c.read[q] = accountBalances(Span(q, p))
    BY <2>1
  <2>3. Current(c)
    BY <2>2 DEF Current
  <2>4. QED
    BY <2>3, <1>3
<1>12. CASE StatementReads(s)
  <2>1. PICK b \in Calls : b = call[s] /\ b.op = "statement"
    BY <1>4, <1>12 DEF StatementReads, At
  <2>2. PICK q : c = [b EXCEPT !.read = [k \in DOMAIN b.read \cup {q} |->
                        IF k = q THEN accountBalances(Span(q, b.range)) ELSE b.read[k]]]
    <3> DEFINE q == Queries(b.kind)[Cardinality(DOMAIN b.read) + 1]
               answer(x) == [k \in DOMAIN b.read \cup {x} |->
                               IF k = x THEN accountBalances(Span(x, b.range)) ELSE b.read[k]]
    <3>1. call' = [call EXCEPT ![s] = [b EXCEPT !.read = answer(q)]]
      BY <1>12, <2>1 DEF StatementReads
    <3> HIDE DEF q, answer
    <3>2. c = [b EXCEPT !.read = answer(q)]
      BY <3>1 DEF TypeOK
    <3>3. QED
      BY <3>2 DEF answer
  <2> DEFINE read == [k \in DOMAIN b.read \cup {q} |->
                        IF k = q THEN accountBalances(Span(q, b.range)) ELSE b.read[k]]
  <2>3. /\ c.op = "statement" /\ c.range = b.range /\ c.read = read
        /\ c.disturbed = b.disturbed
    <3> HIDE DEF read
    <3>1. QED
      BY <2>1, <2>2, CallForms DEF read
  <2>4. Reading(s) /\ ~b.disturbed
    BY <2>1, <2>3, <1>12 DEF StatementReads, Reading, Posting, At
  <2>5. \A k \in DOMAIN b.read : b.read[k] = accountBalances(Span(k, b.range))
    BY <2>1, <2>4 DEF ReadsCurrent, Current
  <2>6. \A k \in DOMAIN read : read[k] = accountBalances(Span(k, b.range))
    BY <2>5
  <2>7. Current(c)
    BY <2>3, <2>6 DEF Current
  <2>8. QED
    BY <2>7, <1>3
<1>13. QED
  BY <1>5, <1>6, <1>7, <1>8, <1>9, <1>10, <1>11, <1>12, ReadingSteps

-----------------------------------------------------------------------------
(***************************************************************************)
(* What is final.                                                          *)
(***************************************************************************)
\* What c says of its months is true, and no posting can change it.
Holds(c) ==
  /\ Sealed(c.range)
  /\ c.op = "declare" => c.vat = computeVat(c.range)
  /\ c.op = "declared" =>
       c.payload = [vat |-> computeVat(c.range), documents |-> vatBreakdown(c.range)]
  /\ c.op = "listed" => (c.payload.issues = {} => c.payload = ecSalesList(c.range))

FinalHold ==
  /\ \A c \in Filings : filing = c /\ c # Nothing /\ c.final => Holds(c)
  /\ \A s \in Sessions : \A c \in Calls :
       Reading(s) /\ call[s] = c /\ c.op # "statement" /\ c.final => Holds(c)

LEMMA SealedKept ==
  ASSUME TypeOK, [Next]_vars, NEW p \in Ranges, Sealed(p),
         \A m \in Months : openPeriod(m) => m \notin p.from..p.to
  PROVE  Sealed(p)'
<1>0. p.from..p.to \subseteq Months
  BY BooksAssumption DEF Months
<1> SUFFICES ASSUME NEW m \in p.from..p.to
             PROVE  /\ period'[m] = "closed"
                    /\ \A r \in Sessions : Posting(r)' => Date(call'[r].doc) # m
  BY DEF Sealed
<1>1. period[m] = "closed" /\ \A r \in Sessions : Posting(r) => Date(call[r].doc) # m
  BY DEF Sealed
<1>2. period'[m] = "closed"
  <2>1. ASSUME NEW n \in Months, openPeriod(n) PROVE period'[m] = period[m]
    BY <1>0, <2>1 DEF TypeOK, openPeriod
  <2>2. ASSUME NEW n \in Months, closePeriod(n) PROVE period'[m] = period[m]
    BY <1>0, <1>1, <2>2 DEF TypeOK, closePeriod
  <2>3. CASE ~\E n \in Months : openPeriod(n) \/ closePeriod(n)
    <3>1. period' = period
      BY <2>3 DEF Next, vars, PostReads, ReverseReads, BeginsPosting, PostCommits,
                  DeclarationReads, DeclarationCompares, SalesListReads, Files,
                  StatementBegins, StatementReads, Returns
    <3>2. QED
      BY <1>1, <3>1
  <2>4. QED
    BY <1>1, <2>1, <2>2, <2>3
<1>3. ASSUME NEW r \in Sessions, Posting(r)' PROVE Date(call'[r].doc) # m
  <2>1. CASE Posting(r) /\ call'[r].doc = call[r].doc
    BY <1>1, <2>1
  <2>2. CASE postEntry(call'[r].doc)
    <3>1. period[Date(call'[r].doc)] = "open"
      BY <2>2 DEF postEntry
    <3>2. QED
      BY <1>1, <3>1
  <2>3. QED
    BY <1>3, <2>1, <2>2, PostingSteps
<1>4. QED
  BY <1>2, <1>3

LEMMA HoldsKept ==
  ASSUME TypeOK, [Next]_vars, NEW c \in Calls \cup Filings,
         c.op \in {"declare", "declared", "listed"}, Holds(c),
         \A m \in Months : openPeriod(m) => m \notin c.range.from..c.range.to
  PROVE  Holds(c)'
<1> DEFINE p == c.range
<1>0. p \in Ranges
  BY CallForms DEF Filings
<1>1. Sealed(p) /\ Sealed(p)'
  BY <1>0, SealedKept DEF Holds
<1>2. \A d \in Within(p) : journal'[d] = journal[d]
  <2> SUFFICES ASSUME NEW d \in Within(p), journal'[d] # journal[d] PROVE FALSE
    OBVIOUS
  <2>1. d \in Docs /\ Date(d) \in p.from..p.to
    BY <1>0, BooksAssumption, DocsTyped DEF Within, Months
  <2>2. PICK s \in Sessions : Posting(s) /\ call[s].doc = d
    BY <2>1, JournalSteps
  <2>3. QED
    BY <1>1, <2>1, <2>2 DEF Sealed
<1>3. computeVat(p)' = computeVat(p) /\ vatBreakdown(p)' = vatBreakdown(p)
  BY <1>2, JournalFixes
<1>4. ecSalesList(p).issues = {} => ecSalesList(p)' = ecSalesList(p)
  BY <1>2, StepTyped, JournalSteps, SalesListKept
<1>5. QED
  BY <1>1, <1>3, <1>4 DEF Holds

LEMMA StepFinal == TypeOK /\ FinalHold /\ [Next]_vars => FinalHold'
<1> SUFFICES ASSUME TypeOK, FinalHold, [Next]_vars PROVE FinalHold'
  OBVIOUS
<1>0. /\ \A s \in Sessions : call[s] # Nothing => call[s] \in Calls
      /\ filing # Nothing => filing \in Filings
  BY DEF TypeOK
<1>1. ASSUME NEW c \in Filings, filing' = c, c # Nothing, c.final PROVE Holds(c)'
  <2>0. c.op \in {"declared", "listed"}
    BY DEF Filings
  <2>1. CASE \E m \in Months : openPeriod(m)
    <3> DEFINE b == filing
    <3>1. \A m \in Months : openPeriod(m) => c = Unseal(b, m)
      BY <1>1 DEF openPeriod
    <3>2. b # Nothing /\ b \in Filings
      BY <1>0, <1>1, <2>1, <3>1 DEF Unseal
    <3>3. \A m \in Months : openPeriod(m) =>
            /\ c.op = b.op /\ c.range = b.range /\ b.final /\ c.payload = b.payload
            /\ m \notin b.range.from..b.range.to
      BY <1>1, <2>0, <3>1, <3>2, UnsealKeeps
    <3>4. Holds(b)
      BY <2>1, <3>2, <3>3 DEF FinalHold
    <3>5. Holds(c)
      BY <2>0, <2>1, <3>3, <3>4 DEF Holds
    <3>6. QED
      BY <2>0, <2>1, <3>3, <3>5, HoldsKept
  <2>2. CASE \E s \in Sessions : Files(s)
    <3>1. PICK s \in Sessions : Files(s)
      BY <2>2
    <3>2. PICK b \in Calls : b = call[s] /\ b.op \in {"declared", "listed"}
      BY <1>0, <3>1 DEF Files, At
    <3>3. c = [op |-> b.op, range |-> b.range, payload |-> b.payload, final |-> b.final]
      BY <1>1, <3>1, <3>2 DEF Files
    <3>4. Reading(s) /\ UNCHANGED period
      BY <3>1, <3>2 DEF Files, Reading, Posting, At
    <3>5. Holds(b)
      BY <1>1, <3>2, <3>3, <3>4 DEF FinalHold
    <3>6. Holds(c)
      BY <3>2, <3>3, <3>5 DEF Holds
    <3>7. \A m \in Months : ~openPeriod(m)
      BY <3>4 DEF openPeriod, TypeOK
    <3>8. QED
      BY <2>0, <3>6, <3>7, HoldsKept
  <2>3. CASE ~(\E m \in Months : openPeriod(m)) /\ ~\E s \in Sessions : Files(s)
    <3>1. filing' = filing
      BY <2>3 DEF Next, vars, closePeriod, PostReads, ReverseReads, BeginsPosting, PostCommits,
                  DeclarationReads, DeclarationCompares, SalesListReads,
                  StatementBegins, StatementReads, Returns
    <3>2. Holds(c)
      BY <1>1, <3>1 DEF FinalHold
    <3>3. QED
      BY <2>0, <2>3, <3>2, HoldsKept
  <2>4. QED
    BY <2>1, <2>2, <2>3
<1>2. ASSUME NEW s \in Sessions, NEW c \in Calls,
             Reading(s)', call'[s] = c, c.op # "statement", c.final
      PROVE  Holds(c)'
  <2>0. c.op \in {"declare", "declared", "listed"} /\ c # Nothing
    BY <1>2, CallForms DEF Reading, Posting, At
  <2>1. ASSUME Holds(c), \A m \in Months : openPeriod(m) => m \notin c.range.from..c.range.to
        PROVE  Holds(c)'
    BY <2>0, <2>1, HoldsKept
  <2>2. \A m \in Months : openPeriod(m) => c = Unseal(call[s], m)
    BY <1>2 DEF openPeriod
  <2>3. ASSUME NEW m \in Months, openPeriod(m) PROVE m \notin c.range.from..c.range.to
    <3> DEFINE b == call[s]
    <3>1. c = Unseal(b, m)
      BY <2>2, <2>3
    <3>2. b # Nothing /\ b \in Calls
      BY <1>0, <2>0, <3>1 DEF Unseal
    <3> HIDE DEF b
    <3>3. QED
      BY <1>2, <2>0, <3>1, <3>2, UnsealKeeps
  <2>4. CASE call'[s] = call[s]
    <3>1. Reading(s)
      BY <1>2, <2>0, <2>4 DEF Reading, Posting, At
    <3>2. Holds(c)
      BY <1>2, <2>4, <3>1 DEF FinalHold
    <3>3. QED
      BY <2>1, <2>3, <3>2
  <2>5. CASE \E m \in Months : openPeriod(m) /\ call'[s] = Unseal(call[s], m)
    <3>1. PICK m \in Months : c = Unseal(call[s], m)
      BY <1>2, <2>5
    <3>2. PICK b \in Calls : b = call[s] /\ b # Nothing
      BY <1>0, <2>0, <3>1 DEF Unseal
    <3>3. /\ c.op = b.op /\ c.range = b.range /\ b.final
          /\ c.op = "declare" => c.vat = b.vat
          /\ c.op \in {"declared", "listed"} => c.payload = b.payload
      BY <1>2, <2>0, <3>1, <3>2, UnsealKeeps
    <3>4. Holds(b)
      BY <2>0, <3>2, <3>3 DEF FinalHold, Reading, Posting, At
    <3>5. Holds(c)
      BY <3>3, <3>4 DEF Holds
    <3>6. QED
      BY <2>1, <2>3, <3>5
  <2>6. CASE call'[s] = [call[s] EXCEPT !.disturbed = TRUE] /\ Reading(s)
    <3>1. PICK b \in Calls : b = call[s] /\ b.op # "post"
      BY <1>0, <2>6 DEF Reading, Posting, At
    <3>2. c = [b EXCEPT !.disturbed = TRUE]
      BY <1>2, <2>6, <3>1
    <3>3. c.op = b.op
      BY <3>1, <3>2, CallForms
    <3>4. /\ c.range = b.range /\ b.final
          /\ c.op = "declare" => c.vat = b.vat
          /\ c.op \in {"declared", "listed"} => c.payload = b.payload
      BY <1>2, <2>0, <3>1, <3>2, <3>3, CallForms
    <3>5. Holds(b)
      BY <2>0, <2>6, <3>1, <3>3, <3>4 DEF FinalHold
    <3>6. Holds(c)
      BY <3>3, <3>4, <3>5 DEF Holds
    <3>7. QED
      BY <2>1, <2>3, <3>6
  <2>7. CASE DeclarationReads(s)
    <3>1. PICK p \in Ranges : c = [op |-> "declare", range |-> p, disturbed |-> FALSE,
                                   final |-> Sealed(p), vat |-> computeVat(p)]
      BY <1>2, <2>7 DEF TypeOK, DeclarationReads, Begins
    <3>2. Sealed(p)
      BY <1>2, <3>1
    <3>3. Holds(c)
      BY <3>1, <3>2 DEF Holds
    <3>4. QED
      BY <2>1, <2>3, <3>3
  <2>8. CASE DeclarationCompares(s)
    <3>1. PICK b \in Calls : b = call[s] /\ b.op = "declare"
      BY <1>0, <2>8 DEF DeclarationCompares, At
    <3>2. c = [op |-> "declared", range |-> b.range, disturbed |-> b.disturbed,
               final |-> b.final,
               payload |-> [vat |-> b.vat, documents |-> vatBreakdown(b.range)]]
      BY <1>2, <2>8, <3>1 DEF TypeOK, DeclarationCompares
    <3>3. Reading(s)
      BY <2>8, <3>1 DEF DeclarationCompares, Reading, Posting, At
    <3>4. Holds(b)
      BY <1>2, <3>1, <3>2, <3>3 DEF FinalHold
    <3>5. Holds(c)
      BY <3>1, <3>2, <3>4 DEF Holds
    <3>6. QED
      BY <2>1, <2>3, <3>5
  <2>9. CASE SalesListReads(s)
    <3>1. PICK p \in Ranges : c = [op |-> "listed", range |-> p, disturbed |-> FALSE,
                                   final |-> Sealed(p), payload |-> ecSalesList(p)]
      BY <1>2, <2>9 DEF TypeOK, SalesListReads, Begins
    <3>2. Sealed(p)
      BY <1>2, <3>1
    <3>3. Holds(c)
      BY <3>1, <3>2 DEF Holds
    <3>4. QED
      BY <2>1, <2>3, <3>3
  <2>10. CASE StatementBegins(s)
    BY <1>2, <2>10 DEF TypeOK, StatementBegins, Begins
  <2>11. CASE StatementReads(s)
    <3>1. PICK b \in Calls : b = call[s] /\ b.op = "statement"
      BY <1>0, <2>11 DEF StatementReads, At
    <3>2. \A x : [b EXCEPT !.read = x].op = "statement"
      BY <3>1, CallForms
    <3>3. PICK x : call' = [call EXCEPT ![s] = [b EXCEPT !.read = x]]
      BY <2>11, <3>1 DEF StatementReads
    <3>4. c = [b EXCEPT !.read = x]
      BY <1>2, <3>3 DEF TypeOK
    <3>5. c.op = "statement"
      BY <3>2, <3>4
    <3>6. QED
      BY <1>2, <3>5
  <2>12. QED
    BY <1>2, <2>4, <2>5, <2>6, <2>7, <2>8, <2>9, <2>10, <2>11, ReadingSteps
<1>3. QED
  BY <1>1, <1>2 DEF FinalHold

-----------------------------------------------------------------------------
(***************************************************************************)
(* The properties.                                                         *)
(***************************************************************************)
BooksInv == TypeOK /\ JournalBalanced /\ ReadsCurrent /\ FinalHold

\* What the properties rest on: entries balance, and what a call has read
\* stands until a posting falls into it or, once sealed, a period is reopened.
THEOREM BooksHold == Spec => []BooksInv
<1>1. Init => BooksInv
  <2> SUFFICES ASSUME Init PROVE BooksInv
    OBVIOUS
  <2>1. TypeOK
    BY DEF Init, TypeOK
  <2>2. JournalBalanced
    BY DEF Init, JournalBalanced, Posting, At
  <2>3. ReadsCurrent
    BY DEF Init, ReadsCurrent, Reading
  <2>4. FinalHold
    BY DEF Init, FinalHold, Reading
  <2>5. QED
    BY <2>1, <2>2, <2>3, <2>4 DEF BooksInv
<1>2. BooksInv /\ [Next]_vars => BooksInv'
  BY StepTyped, StepBalanced, StepCurrent, StepFinal DEF BooksInv
<1>3. QED
  BY <1>1, <1>2, PTL DEF Spec

\* Whatever documents there are, a VAT declaration differs from the breakdown
\* of their lines by the entries without a line and by nothing else: rounding,
\* signs of credit notes, and VAT that is not deductible agree.  It takes that
\* no purchase line is posted to an account of VAT.
THEOREM VatReconciled ==
  ASSUME VatReserved
  PROVE  Spec => []VatReconciles
<1>1. BooksInv => VatReconciles
  <2> SUFFICES ASSUME BooksInv, NEW s \in Sessions,
                      At(s, "declared"), ~call[s].disturbed
               PROVE  LET vat  == call[s].payload.vat
                          docs == call[s].payload.documents
                      IN  /\ vat.output - docs.output = -Unseen(call[s].range, "output_vat")
                          /\ vat.input - docs.input = Unseen(call[s].range, "input_vat")
    BY DEF VatReconciles
  <2>1. PICK c \in Calls : c = call[s] /\ c.op = "declared"
    BY DEF BooksInv, TypeOK, At
  <2>2. c.payload = [vat |-> computeVat(c.range), documents |-> vatBreakdown(c.range)]
    BY <2>1 DEF BooksInv, ReadsCurrent, Current, Reading, Posting, At
  <2>3. /\ computeVat(c.range).output - vatBreakdown(c.range).output
             = -Unseen(c.range, "output_vat")
        /\ computeVat(c.range).input - vatBreakdown(c.range).input
             = Unseen(c.range, "input_vat")
    BY DeclarationDiffers DEF BooksInv
  <2>4. QED
    BY <2>1, <2>2, <2>3
<1>2. QED
  BY <1>1, BooksHold, PTL

\* Every cent of a supply the customer accounts for is in a row of the sales
\* list or in a document named as an issue, whatever the invoices and notes.
THEOREM SalesListTied == Spec => []SalesListTies
<1>1. BooksInv => SalesListTies
  <2> SUFFICES ASSUME BooksInv, NEW s \in Sessions, At(s, "listed"), ~call[s].disturbed
               PROVE  LET p      == call[s].range
                          list   == call[s].payload
                          net(d) == Supplied[d]["goods"] + Supplied[d]["services"]
                      IN  SumFunction(list.rows) + Signed(list.issues, net)
                          = Signed(Booked(p) \cap Sales, net)
    BY DEF SalesListTies
  <2>1. PICK c \in Calls : c = call[s] /\ c.op = "listed"
    BY DEF BooksInv, TypeOK, At
  <2>2. SumFunction(c.payload.rows) + SumFunction([d \in c.payload.issues |-> Sign(d) * Net[d]])
          = SumFunction([d \in Booked(c.range) \cap Sales |-> Sign(d) * Net[d]])
    BY <2>1 DEF BooksInv, ReadsCurrent, Current, Reading, Posting, At
  <2>3. c.payload.issues \subseteq Docs /\ Booked(c.range) \cap Sales \subseteq Docs
    BY <2>1, CallForms DEF SalesList, Sales
  <2>4. \A ds \in SUBSET Docs :
          [d \in ds |-> Sign(d) * Net[d]]
            = [d \in ds |-> Sign(d) * (Supplied[d]["goods"] + Supplied[d]["services"])]
    BY DEF Net
  <2>5. QED
    BY <2>1, <2>2, <2>3, <2>4 DEF Signed
<1>2. QED
  BY <1>1, BooksHold, PTL

\* A filing prepared over closed months with no posting in hand says what the
\* ledger and the documents say for as long as none of them is reopened.
THEOREM FiledFinal == Spec => []FiledIsFinal
<1>1. BooksInv => FiledIsFinal
  <2> SUFFICES ASSUME BooksInv, filing # Nothing, filing.final
               PROVE  LET p == filing.range IN
                      IF filing.op = "declared"
                        THEN filing.payload = [vat |-> computeVat(p), documents |-> vatBreakdown(p)]
                        ELSE filing.payload.issues = {} => filing.payload = ecSalesList(p)
    BY DEF FiledIsFinal
  <2>1. PICK c \in Filings : c = filing
    BY DEF BooksInv, TypeOK
  <2>2. Holds(c) /\ c.op \in {"declared", "listed"}
    BY <2>1 DEF BooksInv, FinalHold, Filings
  <2>3. QED
    BY <2>1, <2>2 DEF Holds
<1>2. QED
  BY <1>1, BooksHold, PTL

\* Statements read with no posting between their queries bridge opening to
\* closing in equity and in cash, and the balance sheet balances, for all
\* entries that postEntry lets through.
THEOREM StatementsTied == Spec => []StatementsTie
<1>1. BooksInv => StatementsTie
  <2> SUFFICES ASSUME BooksInv, NEW s \in Sessions,
                      At(s, "statement"), AllRead(call[s]), ~call[s].disturbed
               PROVE  LET read  == call[s].read
                          sheet == balanceSheet(read["closing"])
                      IN  /\ EquityBridges(read)
                          /\ CashReconciles(read)
                          /\ sheet.assets = sheet.liabilitiesAndEquity
    BY DEF StatementsTie
  <2>1. PICK c \in Calls : c = call[s] /\ c.op = "statement"
    BY DEF BooksInv, TypeOK, At
  <2>2. c.read \in Answers /\ c.range \in Reported
    BY <2>1, CallForms
  <2>3. DOMAIN c.read = {"opening", "closing", "movement"}
    BY <2>1, <2>2, AnswersCounted DEF AllRead
  <2>4. \A q \in DOMAIN c.read : c.read[q] = accountBalances(Span(q, c.range))
    BY <2>1 DEF BooksInv, ReadsCurrent, Current, Reading, Posting, At
  <2>5. \A d \in Docs : Entries(d) # 0 => d \in Balanced
    BY EntriesBalanced DEF BooksInv
  <2>6. /\ EquityBridges(c.read) /\ CashReconciles(c.read)
        /\ balanceSheet(c.read["closing"]).assets
             = balanceSheet(c.read["closing"]).liabilitiesAndEquity
    <3> DEFINE p == c.range
               read == c.read
    <3>1. p \in Reported /\ TypeOK
      BY <2>2 DEF BooksInv
    <3>2. \A q \in {"opening", "closing", "movement"} : read[q] = accountBalances(Span(q, p))
      BY <2>3, <2>4
    <3> HIDE DEF p, read
    <3>3. /\ EquityBridges(read) /\ CashReconciles(read)
          /\ balanceSheet(read["closing"]).assets
               = balanceSheet(read["closing"]).liabilitiesAndEquity
      BY <2>5, <3>1, <3>2, StatementIs
    <3>4. QED
      BY <3>3 DEF read
  <2>7. QED
    BY <2>1, <2>6
<1>2. QED
  BY <1>1, BooksHold, PTL
=============================================================================
