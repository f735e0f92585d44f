----------------------------- MODULE Quotations -----------------------------
(***************************************************************************)
(* Quotations, the sales orders they are converted into, and the drafts of *)
(* direct sales, priced from the catalogue when they are created           *)
(* (apps/api/src/sales.service.ts, first half; SalesLedger has the rest).  *)
(* Names, addresses and document numbers are left out: what is told apart  *)
(* is which lines, at which prices, with which totals.                     *)
(***************************************************************************)
EXTENDS Catalogue

CONSTANTS
  Quotes, Orders, DraftSales,  \* identities of rows
  Asked,       \* the line sequences requests carry: [item, quantity, discount, manual]
  TaxRate,     \* the rate in force of the taxable profile
  NoOrder, NoPaper

AskedLine == [item : Items, quantity : Int, discount : Int, manual : SUBSET Int]

VARIABLES
  quotations,  \* the row of each quotation with its lines, NoPaper before it has one
  orders,      \* the row of each sales order with its lines
  draftSales   \* the row of each direct sale in draft with its lines

quotationVars == <<quotations, orders, draftSales>>

\* The transitions of a quotation; its status endpoint takes any target of them,
\* CONVERTED included, which then leaves it without an order.
Transitions ==
  [DRAFT     |-> {"SENT", "CANCELLED"},
   SENT      |-> {"ACCEPTED", "REJECTED", "EXPIRED", "CANCELLED"},
   ACCEPTED  |-> {"CONVERTED", "CANCELLED"},
   REJECTED  |-> {},
   EXPIRED   |-> {},
   CONVERTED |-> {},
   CANCELLED |-> {}]

QuotationStatus == DOMAIN Transitions

\* Mutant: a quotation may be cancelled after its conversion.
MayBecomeOrCancel(status, target) ==
  target \in Transitions[status] \/ (status = "CONVERTED" /\ target = "CANCELLED")

MayBecome(status, target) == target \in Transitions[status]

Line == [item : Items, quantity : Int, discount : Int, price : Int,
         category : TaxCategories, rate : {TaxRate}]

PaperRow == [customer : Parties, lines : Seq(Line), totals : DocumentTotals]

Quotation == [status : QuotationStatus, until : Int, order : Orders \cup {NoOrder}, paper : PaperRow]

\* sales_orders has no columns for the net by tax category.
OrderRow == [customer : Parties, lines : Seq(Line),
             totals : [subtotal : Int, discount : Int, igv : Int, total : Int]]

Order == [status : {"DRAFT", "CONFIRMED"}, quotation : Quotes, paper : OrderRow]

ASSUME QuotationsAssumption ==
  /\ Asked \subseteq Seq(AskedLine)
  /\ TaxRate \in 0 .. One
  /\ NoPaper \notin Quotation \cup Order \cup PaperRow

\* A customer is an active party with an active role CUSTOMER.
IsCustomer(p) == parties[p].status = "active" /\ parties[p].customer

\* Of the entries of an item: those of lists assigned to the customer, and those
\* of the default list.
CustomerEntries(i, p) == {e \in entries : e.item = i /\ <<p, e.list>> \in Assigned}
DefaultEntries(i) == {e \in entries : e.item = i /\ lists[e.list] = "DEFAULT"}

\* The prices a line asked for may be given.
PricesOf(line, p, mayPrice) ==
  Resolved(line.quantity, items[line.item].price, CustomerEntries(line.item, p),
           DefaultEntries(line.item), line.manual, mayPrice, today)

PricedLine(line, price) ==
  [item |-> line.item, quantity |-> line.quantity, discount |-> line.discount, price |-> price,
   category |-> items[line.item].category, rate |-> TaxRate]

\* The lines a request may be priced at: every item exists and is active, and a
\* discount above the limit of the price needs its permission.
PriceLines(asked, p, mayPrice, mayDiscount) ==
  LET Sellable == \A n \in DOMAIN asked :
        items[asked[n].item] # NoItem /\ items[asked[n].item].status = "active"
      Options(n) ==
        {PricedLine(asked[n], c.price) :
           c \in {c \in PricesOf(asked[n], p, mayPrice) :
                    asked[n].discount <= c.limit \/ mayDiscount}}
  IN  {lines \in IF Sellable THEN [DOMAIN asked -> UNION {Options(n) : n \in DOMAIN asked}] ELSE {} :
         \A n \in DOMAIN asked : lines[n] \in Options(n) /\ Taxable(lines[n])}

\* What is written of a priced document.
Paper(p, lines) == [customer |-> p, lines |-> lines, totals |-> Totals(lines)]

CreateQuotation(q, p, asked, until, mayPrice, mayDiscount) ==
  /\ quotations[q] = NoPaper
  /\ IsCustomer(p)
  /\ \E lines \in PriceLines(asked, p, mayPrice, mayDiscount) :
       quotations' = [quotations EXCEPT ![q] =
         [status |-> "DRAFT", until |-> until, order |-> NoOrder, paper |-> Paper(p, lines)]]
  /\ UNCHANGED <<orders, draftSales>>

TransitionQuotation(q, target) ==
  /\ quotations[q] # NoPaper
  /\ target = "ACCEPTED" => today <= quotations[q].until
  /\ MayBecome(quotations[q].status, target)
  /\ quotations' = [quotations EXCEPT ![q].status = target]
  /\ UNCHANGED <<orders, draftSales>>

\* The order copies the quotation's lines and totals as they were written.
OrderPaper(paper) ==
  [customer |-> paper.customer, lines |-> paper.lines,
   totals |-> [subtotal |-> paper.totals.subtotal, discount |-> paper.totals.discount,
               igv |-> paper.totals.igv, total |-> paper.totals.total]]

ConvertQuotation(q, o) ==
  /\ quotations[q] # NoPaper
  /\ MayBecome(quotations[q].status, "CONVERTED")
  /\ orders[o] = NoPaper
  /\ orders' = [orders EXCEPT ![o] =
       [status |-> "DRAFT", quotation |-> q, paper |-> OrderPaper(quotations[q].paper)]]
  /\ quotations' = [quotations EXCEPT ![q].status = "CONVERTED", ![q].order = o]
  /\ UNCHANGED draftSales

\* A replay of the confirmation's key changes nothing.
ConfirmOrder(o) ==
  /\ orders[o] # NoPaper
  /\ orders[o].status = "DRAFT"
  /\ orders' = [orders EXCEPT ![o].status = "CONFIRMED"]
  /\ UNCHANGED <<quotations, draftSales>>

CreateDirectSale(s, p, asked, mayPrice, mayDiscount) ==
  /\ draftSales[s] = NoPaper
  /\ IsCustomer(p)
  /\ \E lines \in PriceLines(asked, p, mayPrice, mayDiscount) :
       draftSales' = [draftSales EXCEPT ![s] = Paper(p, lines)]
  /\ UNCHANGED <<quotations, orders>>

QuotationsInit ==
  /\ quotations = [q \in Quotes |-> NoPaper]
  /\ orders = [o \in Orders |-> NoPaper]
  /\ draftSales = [s \in DraftSales |-> NoPaper]

QuotationsNext ==
  /\ UNCHANGED <<stockVars, catalogueVars>>
  /\ \/ \E q \in Quotes, p \in Parties, asked \in Asked, until \in 1 .. LastDay,
           mayPrice, mayDiscount \in BOOLEAN :
          CreateQuotation(q, p, asked, until, mayPrice, mayDiscount)
     \/ \E q \in Quotes, target \in QuotationStatus : TransitionQuotation(q, target)
     \/ \E q \in Quotes, o \in Orders : ConvertQuotation(q, o)
     \/ \E o \in Orders : ConfirmOrder(o)
     \/ \E s \in DraftSales, p \in Parties, asked \in Asked, mayPrice, mayDiscount \in BOOLEAN :
          CreateDirectSale(s, p, asked, mayPrice, mayDiscount)

-----------------------------------------------------------------------------
Papers == {quotations[q].paper : q \in {q \in Quotes : quotations[q] # NoPaper}}
          \cup {draftSales[s] : s \in {s \in DraftSales : draftSales[s] # NoPaper}}

\* The order of a quotation stands for it whatever the catalogue, the customer or
\* the quotation goes through afterwards: the quotation is converted into that
\* order and no other, and what it promised is what the order asks to pay, whose
\* totals are those of the order's own lines.
OrderIsAsQuoted ==
  \A o \in Orders : orders[o] # NoPaper =>
    LET q == quotations[orders[o].quotation]
    IN  /\ q.status = "CONVERTED"
        /\ q.order = o
        /\ orders[o].paper.customer = q.paper.customer
        /\ orders[o].paper.lines = q.paper.lines
        /\ LET stored == orders[o].paper.totals
               due    == Totals(orders[o].paper.lines)
           IN  \A f \in DOMAIN stored : stored[f] = q.paper.totals[f] /\ stored[f] = due[f]

\* Rounding line by line loses no cent on the way to the totals: what is to be
\* paid is the net by category plus the tax, the discount is what lies between
\* subtotal and net and never negative, and the tax of the document is the tax of
\* its taxable amount to half a cent for each line.
TotalsReconcile ==
  \A paper \in Papers :
    LET t == paper.totals
        net == t.taxable + t.exempt + t.unaffected
    IN  /\ t.total = net + t.igv
        /\ t.subtotal - t.discount = net
        /\ t.discount >= 0
        /\ LET difference == 2 * (t.igv * One - t.taxable * TaxRate)
           IN  difference \in -(One * Len(paper.lines)) .. One * Len(paper.lines)
=============================================================================
