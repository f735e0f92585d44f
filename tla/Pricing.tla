------------------------------ MODULE Pricing ------------------------------
(***************************************************************************)
(* The arithmetic of a priced line and of a document's totals, and the     *)
(* choice of a price (packages/domain/src/phase2.ts).  Amounts are whole   *)
(* numbers: quantities, prices and rates count millionths of a unit, the   *)
(* amounts of a line count cents.  The code's million and its ten thousand *)
(* are constants here, since TLC's integers are too short for their        *)
(* products.                                                               *)
(***************************************************************************)
EXTENDS Integers, Sequences, FiniteSetsExt

CONSTANTS
  One,   \* a million: the parts quantities, prices and rates are counted in
  Cent   \* ten thousand: the parts of a cent

ASSUME PricingAssumption == One \in Nat \ {0} /\ Cent \in Nat \ {0}

TaxCategories == {"TAXABLE", "EXEMPT", "UNAFFECTED", "FREE"}

\* Mutant: the quotient without its rounding.
Truncate(n, d) == n \div d

\* n / d to the nearest whole number, halves up; nothing negative reaches it.
RoundDivide(n, d) == (n + d \div 2) \div d

\* What TAX_INPUT_INVALID refuses.
Taxable(l) ==
  l.quantity > 0 /\ l.price >= 0 /\ l.discount \in 0 .. One /\ l.rate \in 0 .. One

\* The cents of a line.  The net is rounded from millionths of its own, not
\* from the gross in cents; a free line is all discount.
LineAmounts(l) ==
  LET micros   == RoundDivide(l.quantity * l.price, One)
      gross    == RoundDivide(micros, Cent)
      net      == RoundDivide(RoundDivide(micros * (One - l.discount), One), Cent)
      tax      == IF l.category = "TAXABLE" THEN RoundDivide(net * l.rate, One) ELSE 0
      free     == l.category = "FREE"
  IN  [subtotal |-> gross, net |-> net, tax |-> tax,
       discount |-> IF free THEN gross ELSE gross - net,
       total    |-> IF free THEN 0 ELSE net + tax]

DocumentTotals == [subtotal : Int, discount : Int, taxable : Int, exempt : Int, unaffected : Int,
                   igv : Int, total : Int]

SumOf(amounts, field, S) == MapThenSumSet(LAMBDA n : amounts[n][field], S)

\* The totals of a document: sums of its lines' cents, the net by tax category.
Totals(lines) ==
  LET amounts == [n \in DOMAIN lines |-> LineAmounts(lines[n])]
      All   == DOMAIN lines
      In(c) == {n \in All : lines[n].category = c}
  IN  [subtotal   |-> SumOf(amounts, "subtotal", All),
       discount   |-> SumOf(amounts, "discount", All),
       taxable    |-> SumOf(amounts, "net", In("TAXABLE")),
       exempt     |-> SumOf(amounts, "net", In("EXEMPT")),
       unaffected |-> SumOf(amounts, "net", In("UNAFFECTED")),
       igv        |-> SumOf(amounts, "tax", All),
       total      |-> SumOf(amounts, "total", All)]

\* The entries of a list that are in force for a quantity on a day, and among
\* them those of the highest tier: the sort leaves entries of one tier in the
\* order the database returned them, so any of them may come first.
InForce(entries, quantity, day) ==
  {e \in entries : e.minimum <= quantity /\ e.from <= day /\ day <= e.until}

ActivePrices(entries, quantity, day) ==
  LET now == InForce(entries, quantity, day)
  IN  {e \in now : \A f \in now : f.minimum <= e.minimum}

\* What a line may be priced at: a price and the discount it allows.  A manual
\* price counts only where no list has one, and needs its permission there:
\* without it the set is empty and the request fails.
Resolved(quantity, itemPrice, customerEntries, defaultEntries, manual, mayOverride, day) ==
  LET Of(entries) == {[price |-> e.price, limit |-> e.limit] :
                        e \in ActivePrices(entries, quantity, day)}
  IN  CASE Of(customerEntries) # {} -> Of(customerEntries)
        [] Of(customerEntries) = {} /\ Of(defaultEntries) # {} -> Of(defaultEntries)
        [] OTHER ->
             IF manual = {} THEN {[price |-> itemPrice, limit |-> 0]}
             ELSE {[price |-> p, limit |-> One] : p \in {m \in manual : mayOverride}}
=============================================================================
