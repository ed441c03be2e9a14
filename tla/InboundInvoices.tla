-------------------------- MODULE InboundInvoices ---------------------------
(***************************************************************************)
(* Invoices and credit notes that arrive at the access point and become    *)
(* bills and vendor credit notes: receiveInboundInvoices and               *)
(* resolveOrCreateVendor (src/einvoice/inbound.ts).                        *)
(*                                                                         *)
(* One transaction takes all that waits, which leaves the access point for *)
(* good, and books it message by message: one that cannot be booked takes  *)
(* the whole batch with it.  What the bill's proposal then does is in      *)
(* Approvals and Postings.                                                 *)
(***************************************************************************)
EXTENDS Integers, SequencesExt

CONSTANTS
  Messages,      \* what suppliers send
  Content,       \* per message, the supplier, lines [net, rate, cat] and
                 \* declared totals; cents, and rates in basis points
  Registered,    \* the suppliers that give a registration number
  DomesticRate,  \* vat_standard_rate
  Sessions,      \* concurrent requests
  NoBatch        \* no open transaction, no bill

Suppliers == {Content[m].supplier : m \in Messages}

VARIABLES
  unsent,        \* messages their suppliers have yet to send
  inbox,         \* the access point's inbox
  bill,          \* bills and vendor_credit_notes, by their message
  vendors,       \* parties: rows of kind vendor, per supplier
  batch,         \* per session, the open transaction
  lost,          \* history: what rolled-back batches had taken
  raced          \* history: suppliers two open transactions were creating

vars == <<unsent, inbox, bill, vendors, batch, lost, raced>>

Init ==
  /\ unsent = Messages
  /\ inbox = {}
  /\ bill = [m \in Messages |-> NoBatch]
  /\ vendors = [v \in Suppliers |-> 0]
  /\ batch = [s \in Sessions |-> NoBatch]
  /\ lost = {}
  /\ raced = {}

-----------------------------------------------------------------------------
(* A document's VAT.                                                       *)

sumCents(amounts) == FoldSeq(+, 0, amounts)

NetTotal(lines) == sumCents([i \in DOMAIN lines |-> lines[i].net])

Charging(lines) == {i \in DOMAIN lines : lines[i].cat = "S"}

\* Mutant of reconciledLineVatCents: what rounding leaves over is dropped.
roundedLineVatCents(lines, vatTotal) ==
  [i \in DOMAIN lines |->
     IF i \in Charging(lines) THEN (lines[i].net * lines[i].rate + 5000) \div 10000 ELSE 0]

\* Half up to the cent on the lines that charge VAT; what rounding leaves of
\* the declared total goes to the last of them.
reconciledLineVatCents(lines, vatTotal) ==
  LET per == [i \in DOMAIN lines |->
                IF i \in Charging(lines) THEN (lines[i].net * lines[i].rate + 5000) \div 10000
                ELSE 0]
  IN [i \in DOMAIN lines |->
        IF i \in Charging(lines) /\ \A j \in Charging(lines) : j <= i
          THEN per[i] + vatTotal - sumCents(per)
          ELSE per[i]]

storedVatRate(l) == IF l.cat \in {"AE", "K"} THEN DomesticRate ELSE l.rate

\* What receiveInboundInvoices throws on, and categoryIssues of the bill.
Reconciles(c) ==
  /\ c.net + c.vat = c.grand
  /\ NetTotal(c.lines) = c.net
  /\ Charging(c.lines) = {} => c.vat = 0

Bill(c) ==
  LET vat == reconciledLineVatCents(c.lines, c.vat) IN
  [lines |-> [i \in DOMAIN c.lines |->
                [net |-> c.lines[i].net, rate |-> storedVatRate(c.lines[i]),
                 vat |-> vat[i], cat |-> c.lines[i].cat]],
   grand |-> NetTotal(c.lines) + sumCents(vat)]

ValidBill(b) ==
  /\ b.lines # << >>
  /\ \A i \in DOMAIN b.lines :
       LET l == b.lines[i] IN
       /\ l.net >= 0 /\ l.vat >= 0
       /\ l.cat # "S" => l.vat = 0
       /\ IF l.cat \in {"S", "AE", "K"} THEN l.rate > 0 ELSE l.rate = 0

-----------------------------------------------------------------------------
Sends(m) ==
  /\ m \in unsent
  /\ unsent' = unsent \ {m}
  /\ inbox' = inbox \cup {m}
  /\ UNCHANGED <<bill, vendors, batch, lost, raced>>

\* ap.receive.
Receives(s) ==
  /\ batch[s] = NoBatch /\ inbox # {}
  /\ batch' = [batch EXCEPT ![s] =
       [taken |-> inbox, todo |-> inbox, created |-> {}]]
  /\ inbox' = {}
  /\ UNCHANGED <<unsent, bill, vendors, lost, raced>>

\* One message is checked and booked.  The vendor is looked for among the
\* parties that are committed or this transaction's own, and created if absent.
Books(s, m) ==
  LET v == Content[m].supplier
      known == vendors[v] > 0 \/ v \in batch[s].created
  IN
  /\ batch[s] # NoBatch /\ m \in batch[s].todo
  /\ Reconciles(Content[m]) /\ ValidBill(Bill(Content[m]))
  /\ batch' = [batch EXCEPT
       ![s].todo = @ \ {m},
       ![s].created = IF known THEN @ ELSE @ \cup {v}]
  /\ raced' = IF ~known /\ \E r \in Sessions \ {s} : batch[r] # NoBatch /\ v \in batch[r].created
                THEN raced \cup {v} ELSE raced
  /\ UNCHANGED <<unsent, inbox, bill, vendors, lost>>

\* parties is unique by kind and registration number, where there is one: of
\* two transactions that insert one vendor the second waits, and fails when
\* the first commits.
Commits(s) ==
  /\ batch[s] # NoBatch /\ batch[s].todo = {}
  /\ \A v \in batch[s].created \cap Registered : vendors[v] = 0
  /\ bill' = [m \in Messages |->
       IF m \in batch[s].taken THEN Bill(Content[m]) ELSE bill[m]]
  /\ vendors' = [v \in Suppliers |->
       IF v \in batch[s].created THEN vendors[v] + 1 ELSE vendors[v]]
  /\ batch' = [batch EXCEPT ![s] = NoBatch]
  /\ UNCHANGED <<unsent, inbox, lost, raced>>

\* A message does not reconcile, a vendor is there already, the process dies.
RollsBack(s) ==
  /\ batch[s] # NoBatch
  /\ lost' = lost \cup batch[s].taken
  /\ batch' = [batch EXCEPT ![s] = NoBatch]
  /\ UNCHANGED <<unsent, inbox, bill, vendors, raced>>

Next ==
  \/ \E m \in Messages : Sends(m)
  \/ \E s \in Sessions :
       \/ Receives(s) \/ Commits(s) \/ RollsBack(s)
       \/ \E m \in Messages : Books(s, m)

Spec == Init /\ [][Next]_vars

-----------------------------------------------------------------------------
(* Properties.                                                             *)

\* What a supplier sent waits, is in a batch, was lost with one, or is booked
\* for exactly what it declares, VAT only where it charges some; and a supplier
\* is one vendor, unless it has no registration number and two batches that
\* overlapped both created it.
InboundBooked ==
  /\ \A m \in Messages \ (unsent \cup inbox \cup lost) :
       \/ \E s \in Sessions : batch[s] # NoBatch /\ m \in batch[s].taken
       \/ /\ bill[m] # NoBatch
          /\ bill[m].grand = Content[m].grand
          /\ sumCents([i \in DOMAIN bill[m].lines |->
               IF bill[m].lines[i].cat = "S" THEN bill[m].lines[i].vat ELSE 0]) = Content[m].vat
  /\ \A m \in lost : bill[m] = NoBatch
  /\ \A v \in Suppliers \ (raced \ Registered) : vendors[v] <= 1

=============================================================================
