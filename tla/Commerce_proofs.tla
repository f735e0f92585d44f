--------------------------- MODULE Commerce_proofs ---------------------------
(***************************************************************************)
(* Theorems of Commerce for any catalogue, prices, papers and imports: the *)
(* cents of a document reconcile, an order stands for its quotation, an    *)
(* import is there as a whole or not at all, and the balances are the sums *)
(* of what users and imports posted.                                       *)
(***************************************************************************)
EXTENDS Commerce, Stock_proofs

-----------------------------------------------------------------------------
(* Rounding and the cents of a line.                                       *)

\* A quotient and what is left.
LEMMA Division ==
  ASSUME NEW n \in Nat, NEW d \in Nat \ {0}
  PROVE  n \div d \in Nat /\ d * (n \div d) <= n /\ n < d * (n \div d) + d
  OBVIOUS

\* The next whole number is at most half a unit away.
LEMMA Rounding ==
  ASSUME NEW n \in Nat, NEW d \in Nat \ {0}
  PROVE  /\ RoundDivide(n, d) \in Nat
         /\ 2 * (RoundDivide(n, d) * d - n) <= d
         /\ 2 * (n - RoundDivide(n, d) * d) <= d
<1> DEFINE h == d \div 2
           q == (n + h) \div d
<1>1. h \in Nat /\ 2 * h <= d /\ d < 2 * h + 2
  BY Division
<1>2. q \in Nat /\ d * q <= n + h /\ n + h < d * q + d
  BY <1>1, Division
<1> HIDE DEF h, q
<1>3. d * q \in Nat /\ d * q = q * d
  BY <1>2
<1>4. RoundDivide(n, d) = q
  BY DEF RoundDivide, q, h
<1> QED
  BY <1>1, <1>2, <1>3, <1>4

\* Of two numbers the greater is not rounded to less.
LEMMA RoundingKeepsOrder ==
  ASSUME NEW m \in Nat, NEW n \in Nat, m <= n, NEW d \in Nat \ {0}
  PROVE  RoundDivide(m, d) <= RoundDivide(n, d)
<1> DEFINE h == d \div 2
           p == (m + h) \div d
           q == (n + h) \div d
<1>1. h \in Nat
  BY Division
<1>2. p \in Nat /\ d * p <= m + h
  BY <1>1, Division
<1>3. q \in Nat /\ n + h < d * q + d
  BY <1>1, Division
<1> HIDE DEF h, p, q
<1>4. d * p < d * (q + 1)
  BY <1>1, <1>2, <1>3
<1>5. p < q + 1
  BY <1>2, <1>3, <1>4
<1> QED
  BY <1>2, <1>3, <1>5 DEF RoundDivide, p, q, h

\* What is whole stays as it is.
LEMMA RoundingWholes ==
  ASSUME NEW n \in Nat, NEW d \in Nat \ {0}
  PROVE  RoundDivide(n * d, d) = n
<1> DEFINE q == RoundDivide(n * d, d)
<1>1. n * d \in Nat
  OBVIOUS
<1>2. q \in Nat /\ 2 * (q * d - n * d) <= d /\ 2 * (n * d - q * d) <= d
  BY <1>1, Rounding
<1> HIDE DEF q
<1>3. CASE q > n
  <2>1. (q - n) * d >= d /\ (q - n) * d = q * d - n * d
    BY <1>2, <1>3
  <2> QED
    BY <1>1, <1>2, <2>1
<1>4. CASE q < n
  <2>1. (n - q) * d >= d /\ (n - q) * d = n * d - q * d
    BY <1>2, <1>4
  <2> QED
    BY <1>1, <1>2, <2>1
<1> QED
  BY <1>2, <1>3, <1>4 DEF q

-----------------------------------------------------------------------------
\* What the cents of a line are to each other.
LEMMA LineReconciles ==
  ASSUME NEW l, l.quantity \in Int, l.price \in Int, Taxable(l), l.category \in TaxCategories,
         NEW a, a = LineAmounts(l)
  PROVE  /\ a.subtotal \in Nat /\ a.net \in Nat /\ a.tax \in Nat /\ a.net <= a.subtotal
         /\ l.category = "FREE" => a.total = 0 /\ a.discount = a.subtotal
         /\ l.category # "FREE" => a.total = a.net + a.tax /\ a.discount = a.subtotal - a.net
         /\ l.category # "TAXABLE" => a.tax = 0
         /\ l.category = "TAXABLE" =>
              2 * (a.tax * One - a.net * l.rate) <= One /\ 2 * (a.net * l.rate - a.tax * One) <= One
<1> DEFINE micros == RoundDivide(l.quantity * l.price, One)
           left   == RoundDivide(micros * (One - l.discount), One)
           gross  == RoundDivide(micros, Cent)
           net    == RoundDivide(left, Cent)
           taxed  == RoundDivide(net * l.rate, One)
<1>1. One \in Nat \ {0} /\ Cent \in Nat \ {0}
  BY PricingAssumption
<1>2. l.discount \in 0 .. One /\ l.rate \in 0 .. One /\ l.quantity > 0 /\ l.price >= 0
  BY DEF Taxable
<1>3. micros \in Nat
  <2>1. l.quantity * l.price \in Nat
    BY <1>2
  <2> QED
    BY <1>1, <2>1, Rounding
<1> HIDE DEF micros
<1>4. left \in Nat /\ left <= micros
  <2> DEFINE m == micros * (One - l.discount)
  <2>1. m \in Nat /\ micros * One \in Nat /\ m <= micros * One
    BY <1>1, <1>2, <1>3
  <2> HIDE DEF m
  <2>2. RoundDivide(m, One) <= RoundDivide(micros * One, One) /\ RoundDivide(m, One) \in Nat
    BY <1>1, <2>1, RoundingKeepsOrder, Rounding
  <2>3. RoundDivide(micros * One, One) = micros
    BY <1>1, <1>3, RoundingWholes
  <2> QED
    BY <2>2, <2>3 DEF m
<1> HIDE DEF left
<1>5. gross \in Nat /\ net \in Nat /\ net <= gross
  BY <1>1, <1>3, <1>4, Rounding, RoundingKeepsOrder
<1> HIDE DEF gross, net
<1>6. taxed \in Nat /\ 2 * (taxed * One - net * l.rate) <= One /\ 2 * (net * l.rate - taxed * One) <= One
  <2>1. net * l.rate \in Nat
    BY <1>2, <1>5
  <2> QED
    BY <1>1, <2>1, Rounding
<1> HIDE DEF taxed
<1>7. a = [subtotal |-> gross, net |-> net, tax |-> IF l.category = "TAXABLE" THEN taxed ELSE 0,
           discount |-> IF l.category = "FREE" THEN gross ELSE gross - net,
           total    |-> IF l.category = "FREE" THEN 0
                        ELSE net + IF l.category = "TAXABLE" THEN taxed ELSE 0]
  BY DEF LineAmounts, micros, left, gross, net, taxed
<1> QED
  BY <1>5, <1>6, <1>7 DEF TaxCategories


\* What the lines of a document amount to.
AmountsOf(lines) == [n \in DOMAIN lines |-> LineAmounts(lines[n])]
InCategory(lines, c) == {n \in DOMAIN lines : lines[n].category = c}

\* A field of the amounts, and the net of a category, of each line.
FieldOf(amounts, field) == [n \in DOMAIN amounts |-> amounts[n][field]]
NetOf(lines, c) ==
  [n \in DOMAIN lines |-> IF lines[n].category = c THEN LineAmounts(lines[n]).net ELSE 0]

LEMMA FieldIsSummed ==
  ASSUME NEW amounts, IsFiniteSet(DOMAIN amounts), NEW field, NEW S \in SUBSET DOMAIN amounts
  PROVE  SumOf(amounts, field, S) = SumOver(FieldOf(amounts, field), S)
<1> DEFINE Sums(g) == g = [T \in SUBSET S |->
             IF T = {} THEN 0 ELSE amounts[Chosen(T)][field] + g[T \ {Chosen(T)}]]
           k == CHOOSE g : Sums(g)
<1>1. SumOf(amounts, field, S) = k[S]
  BY DEF SumOf, MapThenSumSet, MapThenFoldSet, Chosen
<1>2. IsFiniteSet(S)
  BY FS_Subset
<1>3. ASSUME NEW g PROVE Sums(g) <=> SumsWithin(FieldOf(amounts, field), S, g)
  <2>1. \A T \in SUBSET S : T # {} => FieldOf(amounts, field)[Chosen(T)] = amounts[Chosen(T)][field]
    BY ChosenIsIn DEF FieldOf
  <2> QED
    BY <2>1 DEF SumsWithin
<1>4. SumsWithin(FieldOf(amounts, field), S, k)
  BY <1>2, <1>3, SumsExist
<1> HIDE DEF k
<1> QED
  BY <1>1, <1>2, <1>4, SumsAreOver, S \in SUBSET S

\* The sum of some of the terms is that of all with the others put to 0.
LEMMA NetIsSummed ==
  ASSUME NEW lines, IsFiniteSet(DOMAIN lines), NEW c,
         \A n \in DOMAIN lines : LineAmounts(lines[n]).net \in Int
  PROVE  SumOf(AmountsOf(lines), "net", InCategory(lines, c)) = SumOver(NetOf(lines, c), DOMAIN lines)
<1> DEFINE D == DOMAIN lines
           S == InCategory(lines, c)
           f == FieldOf(AmountsOf(lines), "net")
           g == NetOf(lines, c)
<1>1. S \in SUBSET D /\ DOMAIN AmountsOf(lines) = D /\ S \cup (D \ S) = D /\ S \cap (D \ S) = {}
  BY DEF InCategory, AmountsOf
<1>2. \A n \in S : f[n] = g[n]
  BY DEF FieldOf, AmountsOf, NetOf, InCategory
<1>3. \A n \in D \ S : g[n] = 0
  BY DEF NetOf, InCategory
<1>4. \A n \in D : g[n] \in Int
  BY DEF NetOf
<1>5. SumOf(AmountsOf(lines), "net", S) = SumOver(f, S)
  BY <1>1, FieldIsSummed
<1> HIDE DEF D, S, f, g
<1>6. IsFiniteSet(S) /\ IsFiniteSet(D \ S)
  BY <1>1, FS_Subset DEF D
<1>7. SumOver(f, S) = SumOver(g, S)
  BY <1>2, <1>6, SumOfSame
<1>8. SumOver(g, D \ S) = 0
  BY <1>3, <1>6, SumOfZeros
<1>9. SumOver(g, S \cup (D \ S)) = SumOver(g, S) + SumOver(g, D \ S)
  BY <1>1, <1>4, <1>6, SumOfUnion
<1>10. SumOver(g, S) \in Int
  BY <1>1, <1>4, <1>6, SumIsInt
<1> QED
  BY <1>1, <1>5, <1>7, <1>8, <1>9, <1>10 DEF D, S, g

-----------------------------------------------------------------------------
\* What the totals of a document are to each other, over any of its lines.
Reconciled(lines, rate, T) ==
  LET Sum(field) == SumOver(FieldOf(AmountsOf(lines), field), T)
      Net(c)     == SumOver(NetOf(lines, c), T)
  IN  /\ Sum("total") = Net("TAXABLE") + Net("EXEMPT") + Net("UNAFFECTED") + Sum("tax")
      /\ Sum("subtotal") - Sum("discount") = Net("TAXABLE") + Net("EXEMPT") + Net("UNAFFECTED")
      /\ 2 * (Sum("tax") * One - Net("TAXABLE") * rate) <= One * Cardinality(T)
      /\ 2 * (Net("TAXABLE") * rate - Sum("tax") * One) <= One * Cardinality(T)

PricedLines(lines, rate) ==
  \A n \in DOMAIN lines :
    /\ lines[n].quantity \in Int /\ lines[n].price \in Int /\ lines[n].rate = rate
    /\ lines[n].category \in TaxCategories /\ Taxable(lines[n])

\* One line reconciles.
LEMMA LineTerms ==
  ASSUME NEW lines, NEW rate, PricedLines(lines, rate), NEW n \in DOMAIN lines
  PROVE  LET Field(field) == FieldOf(AmountsOf(lines), field)[n]
             Net(c)       == NetOf(lines, c)[n]
         IN  /\ \A field \in {"subtotal", "discount", "tax", "total"} : Field(field) \in Nat
             /\ \A c \in TaxCategories : Net(c) \in Nat
             /\ LineAmounts(lines[n]).net \in Nat
             /\ Field("total") = Net("TAXABLE") + Net("EXEMPT") + Net("UNAFFECTED") + Field("tax")
             /\ Field("subtotal") - Field("discount") =
                  Net("TAXABLE") + Net("EXEMPT") + Net("UNAFFECTED")
             /\ 2 * (Field("tax") * One - Net("TAXABLE") * rate) <= One
             /\ 2 * (Net("TAXABLE") * rate - Field("tax") * One) <= One
<1> DEFINE l == lines[n]
           a == LineAmounts(l)
<1>1. l.quantity \in Int /\ l.price \in Int /\ Taxable(l) /\ l.category \in TaxCategories /\ l.rate = rate
  BY DEF PricedLines
<1>2. \A field : FieldOf(AmountsOf(lines), field)[n] = a[field]
  BY DEF FieldOf, AmountsOf
<1>3. \A c : NetOf(lines, c)[n] = IF l.category = c THEN a.net ELSE 0
  BY DEF NetOf
<1> HIDE DEF a, l
<1>4. /\ a.subtotal \in Nat /\ a.net \in Nat /\ a.tax \in Nat /\ a.net <= a.subtotal
      /\ l.category = "FREE" => a.total = 0 /\ a.discount = a.subtotal
      /\ l.category # "FREE" => a.total = a.net + a.tax /\ a.discount = a.subtotal - a.net
      /\ l.category # "TAXABLE" => a.tax = 0
      /\ l.category = "TAXABLE" =>
           2 * (a.tax * One - a.net * l.rate) <= One /\ 2 * (a.net * l.rate - a.tax * One) <= One
  BY <1>1, LineReconciles DEF a
<1>5. One \in Nat \ {0} /\ rate \in Nat
  BY <1>1, PricingAssumption DEF Taxable
<1>6. LineAmounts(lines[n]).net \in Nat
  BY <1>4 DEF a, l
<1>7. CASE l.category = "TAXABLE"
  BY <1>1, <1>2, <1>3, <1>4, <1>5, <1>6, <1>7 DEF TaxCategories
<1>8. CASE l.category # "TAXABLE"
  <2>1. /\ FieldOf(AmountsOf(lines), "tax")[n] = 0 /\ NetOf(lines, "TAXABLE")[n] = 0
        /\ FieldOf(AmountsOf(lines), "total")[n] = a.total
        /\ FieldOf(AmountsOf(lines), "subtotal")[n] = a.subtotal
        /\ FieldOf(AmountsOf(lines), "discount")[n] = a.discount
    BY <1>2, <1>3, <1>4, <1>8
  <2>2. CASE l.category = "EXEMPT"
    <3>1. /\ NetOf(lines, "EXEMPT")[n] = a.net /\ NetOf(lines, "UNAFFECTED")[n] = 0
          /\ \A c \in TaxCategories : NetOf(lines, c)[n] \in Nat
      BY <1>3, <1>4, <2>2
    <3>2. \A field \in {"subtotal", "discount", "tax", "total"} :
            FieldOf(AmountsOf(lines), field)[n] \in Nat
      BY <1>4, <2>1, <2>2
    <3>3. /\ a.total = 0 + a.net + 0 + 0 /\ a.subtotal - a.discount = 0 + a.net + 0
      BY <1>4, <2>2
    <3>4. 2 * (0 * One - 0 * rate) <= One /\ 2 * (0 * rate - 0 * One) <= One
      BY <1>5
    <3> QED
      BY <1>6, <2>1, <3>1, <3>2, <3>3, <3>4
  <2>3. CASE l.category = "UNAFFECTED"
    <3>1. /\ NetOf(lines, "UNAFFECTED")[n] = a.net /\ NetOf(lines, "EXEMPT")[n] = 0
          /\ \A c \in TaxCategories : NetOf(lines, c)[n] \in Nat
      BY <1>3, <1>4, <2>3
    <3>2. \A field \in {"subtotal", "discount", "tax", "total"} :
            FieldOf(AmountsOf(lines), field)[n] \in Nat
      BY <1>4, <2>1, <2>3
    <3>3. /\ a.total = 0 + 0 + a.net + 0 /\ a.subtotal - a.discount = 0 + 0 + a.net
      BY <1>4, <2>3
    <3>4. 2 * (0 * One - 0 * rate) <= One /\ 2 * (0 * rate - 0 * One) <= One
      BY <1>5
    <3> QED
      BY <1>6, <2>1, <3>1, <3>2, <3>3, <3>4
  <2>4. CASE l.category = "FREE"
    <3>1. /\ NetOf(lines, "UNAFFECTED")[n] = 0 /\ NetOf(lines, "EXEMPT")[n] = 0
          /\ \A c \in TaxCategories : NetOf(lines, c)[n] \in Nat
      BY <1>3, <1>4, <2>4
    <3>2. \A field \in {"subtotal", "discount", "tax", "total"} :
            FieldOf(AmountsOf(lines), field)[n] \in Nat
      BY <1>4, <2>1, <2>4
    <3>3. /\ a.total = 0 + 0 + 0 + 0 /\ a.subtotal - a.discount = 0 + 0 + 0
      BY <1>4, <2>4
    <3>4. 2 * (0 * One - 0 * rate) <= One /\ 2 * (0 * rate - 0 * One) <= One
      BY <1>5
    <3> QED
      BY <1>6, <2>1, <3>1, <3>2, <3>3, <3>4
  <2> QED
    BY <1>1, <1>8, <2>2, <2>3, <2>4 DEF TaxCategories
<1> QED
  BY <1>7, <1>8

\* Line by line to all of them.
LEMMA LinesReconcile ==
  ASSUME NEW lines, NEW rate \in Nat, PricedLines(lines, rate), IsFiniteSet(DOMAIN lines)
  PROVE  Reconciled(lines, rate, DOMAIN lines)
<1> DEFINE D == DOMAIN lines
           Sum(field, T) == SumOver(FieldOf(AmountsOf(lines), field), T)
           Net(c, T) == SumOver(NetOf(lines, c), T)
           Q == {T \in SUBSET D : Reconciled(lines, rate, T)}
<1>1. One \in Nat
  BY PricingAssumption
<1>2. ASSUME NEW T \in SUBSET D, \A U \in SUBSET T : U # T => U \in Q
      PROVE  T \in Q
  <2>1. CASE T = {}
    <3>1. \A f : SumOver(f, {}) = 0
      BY SumOfNone
    <3>2. Cardinality({}) = 0
      BY FS_EmptySet
    <3> QED
      BY <1>1, <2>1, <3>1, <3>2 DEF Reconciled
  <2>2. CASE T # {}
    <3>1. PICK n \in T : TRUE
      BY <2>2
    <3> DEFINE U == T \ {n}
               Field(field) == FieldOf(AmountsOf(lines), field)[n]
               NetThere(c) == NetOf(lines, c)[n]
    <3>2. IsFiniteSet(T) /\ IsFiniteSet(U) /\ U \in SUBSET T /\ U # T
      BY <3>1, FS_Subset
    <3>3. Cardinality(T) = Cardinality(U) + 1 /\ Cardinality(U) \in Nat
      BY <3>1, <3>2, FS_RemoveElement, FS_CardinalityType
    <3>4. Reconciled(lines, rate, U)
      BY <1>2, <3>2
    <3>5. \A m \in T : \A field \in {"subtotal", "discount", "tax", "total"} :
            FieldOf(AmountsOf(lines), field)[m] \in Int
      BY LineTerms
    <3>6. \A m \in T : \A c \in TaxCategories : NetOf(lines, c)[m] \in Int
      BY LineTerms
    <3>7. \A field \in {"subtotal", "discount", "tax", "total"} :
            Sum(field, T) = Field(field) + Sum(field, U) /\ Sum(field, U) \in Int
      BY <3>1, <3>2, <3>5, SumWithout, SumIsInt
    <3>8. \A c \in TaxCategories : Net(c, T) = NetThere(c) + Net(c, U) /\ Net(c, U) \in Int
      BY <3>1, <3>2, <3>6, SumWithout, SumIsInt
    <3>9. /\ \A field \in {"subtotal", "discount", "tax", "total"} : Field(field) \in Nat
          /\ \A c \in TaxCategories : NetThere(c) \in Nat
          /\ Field("total") =
               NetThere("TAXABLE") + NetThere("EXEMPT") + NetThere("UNAFFECTED") + Field("tax")
          /\ Field("subtotal") - Field("discount") =
               NetThere("TAXABLE") + NetThere("EXEMPT") + NetThere("UNAFFECTED")
          /\ 2 * (Field("tax") * One - NetThere("TAXABLE") * rate) <= One
          /\ 2 * (NetThere("TAXABLE") * rate - Field("tax") * One) <= One
      BY <3>1, LineTerms
    <3>10. /\ Sum("total", U) = Net("TAXABLE", U) + Net("EXEMPT", U) + Net("UNAFFECTED", U) + Sum("tax", U)
           /\ Sum("subtotal", U) - Sum("discount", U) =
                Net("TAXABLE", U) + Net("EXEMPT", U) + Net("UNAFFECTED", U)
           /\ 2 * (Sum("tax", U) * One - Net("TAXABLE", U) * rate) <= One * Cardinality(U)
           /\ 2 * (Net("TAXABLE", U) * rate - Sum("tax", U) * One) <= One * Cardinality(U)
      BY <3>4 DEF Reconciled
    <3> HIDE DEF U, Field, NetThere, Sum, Net
    <3>11. /\ Sum("total", T) = Net("TAXABLE", T) + Net("EXEMPT", T) + Net("UNAFFECTED", T) + Sum("tax", T)
           /\ Sum("subtotal", T) - Sum("discount", T) =
                Net("TAXABLE", T) + Net("EXEMPT", T) + Net("UNAFFECTED", T)
      <4>1. /\ Sum("total", T) = Field("total") + Sum("total", U) /\ Sum("total", U) \in Int
            /\ Sum("tax", T) = Field("tax") + Sum("tax", U) /\ Sum("tax", U) \in Int
            /\ Sum("subtotal", T) = Field("subtotal") + Sum("subtotal", U) /\ Sum("subtotal", U) \in Int
            /\ Sum("discount", T) = Field("discount") + Sum("discount", U) /\ Sum("discount", U) \in Int
        BY <3>7
      <4>2. /\ Net("TAXABLE", T) = NetThere("TAXABLE") + Net("TAXABLE", U)
            /\ Net("EXEMPT", T) = NetThere("EXEMPT") + Net("EXEMPT", U)
            /\ Net("UNAFFECTED", T) = NetThere("UNAFFECTED") + Net("UNAFFECTED", U)
            /\ Net("TAXABLE", U) \in Int /\ Net("EXEMPT", U) \in Int /\ Net("UNAFFECTED", U) \in Int
        BY <3>8 DEF TaxCategories
      <4>3. /\ Field("total") \in Nat /\ Field("tax") \in Nat
            /\ Field("subtotal") \in Nat /\ Field("discount") \in Nat
        BY <3>9
      <4>4. /\ NetThere("TAXABLE") \in Nat /\ NetThere("EXEMPT") \in Nat
            /\ NetThere("UNAFFECTED") \in Nat
        BY <3>9 DEF TaxCategories
      <4> QED
        BY <3>9, <3>10, <4>1, <4>2, <4>3, <4>4
    <3>12. /\ 2 * (Sum("tax", T) * One - Net("TAXABLE", T) * rate) <= One * Cardinality(T)
           /\ 2 * (Net("TAXABLE", T) * rate - Sum("tax", T) * One) <= One * Cardinality(T)
      <4>1. Sum("tax", T) = Field("tax") + Sum("tax", U) /\ Field("tax") \in Int /\ Sum("tax", U) \in Int
        BY <3>7, <3>9
      <4>2. /\ Net("TAXABLE", T) = NetThere("TAXABLE") + Net("TAXABLE", U)
            /\ NetThere("TAXABLE") \in Int /\ Net("TAXABLE", U) \in Int
        BY <3>8, <3>9 DEF TaxCategories
      <4>3. Sum("tax", T) * One = Field("tax") * One + Sum("tax", U) * One
        BY <1>1, <4>1
      <4>4. Net("TAXABLE", T) * rate = NetThere("TAXABLE") * rate + Net("TAXABLE", U) * rate
        BY <4>2
      <4>5. One * Cardinality(T) = One * Cardinality(U) + One
        BY <1>1, <3>3
      <4> QED
        BY <1>1, <3>3, <3>9, <3>10, <4>1, <4>2, <4>3, <4>4, <4>5
    <3> QED
      BY <3>11, <3>12 DEF Reconciled, Sum, Net
  <2> QED
    BY <2>1, <2>2
<1> HIDE DEF Q
<1>3. SUBSET D \subseteq Q
  BY <1>2, SubsetInduction
<1> QED
  BY <1>3 DEF Q

\* And from there to the totals that are written.
LEMMA TotalsOfLines ==
  ASSUME NEW lines, NEW rate \in Nat, PricedLines(lines, rate), IsFiniteSet(DOMAIN lines),
         NEW t, t = Totals(lines)
  PROVE  /\ t \in DocumentTotals
         /\ t.total = t.taxable + t.exempt + t.unaffected + t.igv
         /\ t.subtotal - t.discount = t.taxable + t.exempt + t.unaffected
         /\ t.discount >= 0
         /\ 2 * (t.igv * One - t.taxable * rate) \in
              -(One * Cardinality(DOMAIN lines)) .. One * Cardinality(DOMAIN lines)
<1> DEFINE D == DOMAIN lines
           Sum(field) == SumOver(FieldOf(AmountsOf(lines), field), D)
           Net(c) == SumOver(NetOf(lines, c), D)
<1>1. DOMAIN AmountsOf(lines) = D
  BY DEF AmountsOf
<1>2. \A field : SumOf(AmountsOf(lines), field, D) = Sum(field)
  BY <1>1, FieldIsSummed, D \in SUBSET DOMAIN AmountsOf(lines)
<1>3. \A n \in D : LineAmounts(lines[n]).net \in Int
  BY LineTerms
<1>4. \A c : SumOf(AmountsOf(lines), "net", InCategory(lines, c)) = Net(c)
  BY <1>3, NetIsSummed
<1>5. t = [subtotal |-> Sum("subtotal"), discount |-> Sum("discount"), taxable |-> Net("TAXABLE"),
           exempt |-> Net("EXEMPT"), unaffected |-> Net("UNAFFECTED"), igv |-> Sum("tax"),
           total |-> Sum("total")]
  BY <1>2, <1>4 DEF Totals, AmountsOf, InCategory
<1>6. \A field \in {"subtotal", "discount", "tax", "total"} : Sum(field) \in Nat
  <2>1. \A field \in {"subtotal", "discount", "tax", "total"} :
          \A n \in D : FieldOf(AmountsOf(lines), field)[n] \in Nat
    BY LineTerms
  <2> QED
    BY <2>1, SumIsNat
<1>7. \A c \in TaxCategories : Net(c) \in Nat
  <2>1. \A c \in TaxCategories : \A n \in D : NetOf(lines, c)[n] \in Nat
    BY LineTerms
  <2> QED
    BY <2>1, SumIsNat
<1>8. Reconciled(lines, rate, D)
  BY LinesReconcile
<1>9. Cardinality(D) \in Nat /\ One \in Nat
  BY FS_CardinalityType, PricingAssumption
<1>10. /\ Sum("total") = Net("TAXABLE") + Net("EXEMPT") + Net("UNAFFECTED") + Sum("tax")
       /\ Sum("subtotal") - Sum("discount") = Net("TAXABLE") + Net("EXEMPT") + Net("UNAFFECTED")
       /\ 2 * (Sum("tax") * One - Net("TAXABLE") * rate) <= One * Cardinality(D)
       /\ 2 * (Net("TAXABLE") * rate - Sum("tax") * One) <= One * Cardinality(D)
  BY <1>8 DEF Reconciled
<1> HIDE DEF Sum, Net, D
<1>11. 2 * (Sum("tax") * One - Net("TAXABLE") * rate) \in
         -(One * Cardinality(D)) .. One * Cardinality(D)
  <2>1. Sum("tax") * One \in Int /\ Net("TAXABLE") * rate \in Int /\ One * Cardinality(D) \in Int
    BY <1>6, <1>7, <1>9 DEF TaxCategories
  <2> QED
    BY <1>10, <2>1
<1>12. t \in DocumentTotals
  BY <1>5, <1>6, <1>7 DEF DocumentTotals, TaxCategories
<1> QED
  BY <1>5, <1>6, <1>10, <1>11, <1>12 DEF D

-----------------------------------------------------------------------------
(* The catalogue under the requests of users.                              *)

CatalogueOK ==
  /\ items \in [Items -> Item(Origins) \cup {NoItem}]
  /\ lists \in [PriceLists -> ListStatus]
  /\ entries \subseteq Entry(Origins)
  /\ parties \in [Parties -> Party(Origins)]

\* Users and jobs are told apart, and so are the keys of their movements.
LEMMA OriginsDiffer ==
  /\ User \in Origins
  /\ User[1] = "user"
  /\ \A j \in Jobs : \A n : <<j, n>> # User /\ <<j, n>>[1] = j /\ j # "user"
  /\ \A j \in Jobs, n \in Nat : <<j, n>> \in Origins
  /\ \A k, j, n : <<"manual", k>> # <<"import", j, n>>
<1>1. User[1] = "user" /\ User \in Origins
  BY DEF User, Origins
<1>2. \A j \in Jobs : j # "user"
  BY ImportsAssumption
<1>3. \A j, n : <<j, n>>[1] = j
  OBVIOUS
<1>4. \A k, j, n : <<"manual", k>> # <<"import", j, n>>
  OBVIOUS
<1>5. \A j \in Jobs, n \in Nat : <<j, n>> \in Origins
  BY DEF Origins
<1> QED
  BY <1>1, <1>2, <1>3, <1>4, <1>5

\* A row of an item is one of its type, and not the null.
LEMMA ItemRowIsItem ==
  ASSUME NEW o \in Offer, NEW origin \in Origins
  PROVE  ItemRow(o, origin) \in Item(Origins) /\ ItemRow(o, origin) # NoItem
<1>1. ItemRow(o, origin) \in Item(Origins)
  BY DEF Offer, ItemRow, Item
<1> QED
  BY <1>1, ImportsAssumption

\* A row with one of its fields changed, but for who made it.
LEMMA EditedItem ==
  ASSUME NEW x \in Item(Origins)
  PROVE  /\ LET y == [x EXCEPT !.status = "inactive"] IN y \in Item(Origins) /\ y.origin = x.origin
         /\ \A v \in Int : LET y == [x EXCEPT !.version = v]
                          IN  y \in Item(Origins) /\ y.origin = x.origin
         /\ \A names \in SUBSET Names : LET y == [x EXCEPT !.names = names]
                                       IN  y \in Item(Origins) /\ y.origin = x.origin
         /\ \A price \in Int : LET y == [x EXCEPT !.price = price]
                              IN  y \in Item(Origins) /\ y.origin = x.origin
         /\ \A category \in TaxCategories : LET y == [x EXCEPT !.category = category]
                                           IN  y \in Item(Origins) /\ y.origin = x.origin
         /\ \A stock \in BOOLEAN : LET y == [x EXCEPT !.stock = stock]
                                  IN  y \in Item(Origins) /\ y.origin = x.origin
  BY DEF Item

\* Items are created by users, and edited with their origin (catalog.service.ts).
LEMMA ItemsKeepCatalogue ==
  ASSUME CatalogueOK, ItemsNext
  PROVE  /\ CatalogueOK'
         /\ UNCHANGED <<stockVars, lists, entries, parties>>
         /\ \A i \in Items :
              /\ items[i] # NoItem => items'[i] # NoItem /\ items'[i].origin = items[i].origin
              /\ items[i] = NoItem /\ items'[i] # NoItem => items'[i].origin = User
<1>1. UNCHANGED <<stockVars, lists, entries, parties>>
  <2>1. ASSUME NEW i, DeactivateItem(i) PROVE UNCHANGED <<stockVars, lists, entries, parties>>
    BY <2>1 DEF DeactivateItem
  <2>2. ASSUME NEW i, NEW o, CreateItem(i, o) PROVE UNCHANGED <<stockVars, lists, entries, parties>>
    BY <2>2 DEF CreateItem
  <2>3. ASSUME NEW i, NEW o, NEW version, UpdateItem(i, o, version)
        PROVE  UNCHANGED <<stockVars, lists, entries, parties>>
    BY <2>3 DEF UpdateItem
  <2> QED
    BY <2>1, <2>2, <2>3 DEF ItemsNext
<1> SUFFICES ASSUME NEW i \in Items,
                    \/ DeactivateItem(i)
                    \/ \E o \in Offers : CreateItem(i, o)
                    \/ \E o \in Offers, version \in 1 .. MaxVersion : UpdateItem(i, o, version)
             PROVE  \E row \in Item(Origins) :
                      /\ items' = [items EXCEPT ![i] = row]
                      /\ items[i] # NoItem => row.origin = items[i].origin
                      /\ items[i] = NoItem => row.origin = User
  <2>1. PICK i \in Items : \E row \in Item(Origins) :
          /\ items' = [items EXCEPT ![i] = row]
          /\ items[i] # NoItem => row.origin = items[i].origin
          /\ items[i] = NoItem => row.origin = User
    BY DEF ItemsNext
  <2>2. PICK row \in Item(Origins) :
          /\ items' = [items EXCEPT ![i] = row]
          /\ items[i] # NoItem => row.origin = items[i].origin
          /\ items[i] = NoItem => row.origin = User
    BY <2>1
  <2>3. row # NoItem
    BY ImportsAssumption
  <2>4. \A k \in Items : items'[k] = IF k = i THEN row ELSE items[k]
    BY <2>2 DEF CatalogueOK
  <2>5. items' \in [Items -> Item(Origins) \cup {NoItem}]
    BY <2>2 DEF CatalogueOK
  <2> QED
    BY <1>1, <2>2, <2>3, <2>4, <2>5 DEF CatalogueOK
<1>2. CASE DeactivateItem(i)
  <2> DEFINE x == items[i]
             y == [x EXCEPT !.status = "inactive"]
             row == [y EXCEPT !.version = x.version + 1]
  <2>1. items' = [items EXCEPT ![i] = row] /\ x \in Item(Origins)
    BY <1>2 DEF DeactivateItem, CatalogueOK
  <2> HIDE DEF x
  <2>2. y \in Item(Origins) /\ y.origin = x.origin /\ x.version + 1 \in Int
    BY <2>1, EditedItem DEF Item
  <2> HIDE DEF y
  <2>3. row \in Item(Origins) /\ row.origin = x.origin
    BY <2>2, EditedItem
  <2> QED
    BY <1>2, <2>1, <2>3 DEF DeactivateItem, x
<1>3. ASSUME NEW o \in Offers, CreateItem(i, o)
      PROVE  \E row \in Item(Origins) :
               /\ items' = [items EXCEPT ![i] = row]
               /\ items[i] # NoItem => row.origin = items[i].origin
               /\ items[i] = NoItem => row.origin = User
  <2>1. ItemRow(o, User) \in Item(Origins) /\ ItemRow(o, User).origin = User
    BY CatalogueAssumption, OriginsDiffer, ItemRowIsItem DEF ItemRow
  <2> QED
    BY <1>3, <2>1 DEF CreateItem
<1>4. ASSUME NEW o \in Offers, NEW version, UpdateItem(i, o, version)
      PROVE  \E row \in Item(Origins) :
               /\ items' = [items EXCEPT ![i] = row]
               /\ items[i] # NoItem => row.origin = items[i].origin
               /\ items[i] = NoItem => row.origin = User
  <2> DEFINE x == items[i]
             a == [x EXCEPT !.names = o.names]
             b == [a EXCEPT !.price = o.price]
             c == [b EXCEPT !.category = o.category]
             d == [c EXCEPT !.stock = o.stock]
             row == [d EXCEPT !.version = x.version + 1]
  <2>1. items' = [items EXCEPT ![i] = row] /\ x \in Item(Origins)
    BY <1>4 DEF UpdateItem, CatalogueOK
  <2>2. /\ o.names \in SUBSET Names /\ o.price \in Int /\ o.category \in TaxCategories
        /\ o.stock \in BOOLEAN
    BY CatalogueAssumption DEF Offer
  <2> HIDE DEF x
  <2>3. a \in Item(Origins) /\ a.origin = x.origin /\ x.version + 1 \in Int
    BY <2>1, <2>2, EditedItem DEF Item
  <2> HIDE DEF a
  <2>4. b \in Item(Origins) /\ b.origin = x.origin
    BY <2>2, <2>3, EditedItem
  <2> HIDE DEF b
  <2>5. c \in Item(Origins) /\ c.origin = x.origin
    BY <2>2, <2>4, EditedItem
  <2> HIDE DEF c
  <2>6. d \in Item(Origins) /\ d.origin = x.origin
    BY <2>2, <2>5, EditedItem
  <2> HIDE DEF d
  <2>7. row \in Item(Origins) /\ row.origin = x.origin
    BY <2>3, <2>6, EditedItem
  <2> QED
    BY <1>4, <2>1, <2>7 DEF UpdateItem, x
<1> QED
  BY <1>2, <1>3, <1>4

\* A party that is there stays, made by whom it was made.
Follows(x, y) ==
  /\ y \in Party(Origins)
  /\ x.status # "NONE" => y.status # "NONE"
  /\ y.origin = x.origin \/ (x.status = "NONE" /\ y.origin = User)

LEMMA EditedParty ==
  ASSUME NEW x \in Party(Origins)
  PROVE  /\ Follows(x, [x EXCEPT !.status = "inactive"])
         /\ \A v \in Int : Follows(x, [x EXCEPT !.version = v])
         /\ \A customer \in BOOLEAN : Follows(x, [x EXCEPT !.customer = customer])
         /\ \A profile \in {"PLAIN", "CREDIT"} : Follows(x, [x EXCEPT !.profile = profile])
<1>1. ASSUME NEW y, y = [x EXCEPT !.status = "inactive"] PROVE Follows(x, y)
  <2>1. y \in Party(Origins) /\ y.status = "inactive" /\ y.origin = x.origin
    BY <1>1 DEF Party
  <2> QED
    BY <2>1 DEF Follows
<1>2. ASSUME NEW v \in Int, NEW y, y = [x EXCEPT !.version = v] PROVE Follows(x, y)
  <2>1. y \in Party(Origins) /\ y.status = x.status /\ y.origin = x.origin
    BY <1>2 DEF Party
  <2> QED
    BY <2>1 DEF Follows
<1>3. ASSUME NEW v \in BOOLEAN, NEW y, y = [x EXCEPT !.customer = v] PROVE Follows(x, y)
  <2>1. y \in Party(Origins) /\ y.status = x.status /\ y.origin = x.origin
    BY <1>3 DEF Party
  <2> QED
    BY <2>1 DEF Follows
<1>4. ASSUME NEW v \in {"PLAIN", "CREDIT"}, NEW y, y = [x EXCEPT !.profile = v] PROVE Follows(x, y)
  <2>1. y \in Party(Origins) /\ y.status = x.status /\ y.origin = x.origin
    BY <1>4 DEF Party
  <2> QED
    BY <2>1 DEF Follows
<1> QED
  BY <1>1, <1>2, <1>3, <1>4

\* A party that is there stays, with its origin, whatever happens to its role, its credit
\* and its data (parties.service.ts).
LEMMA PartiesKeepCatalogue ==
  ASSUME CatalogueOK, PartiesNext
  PROVE  /\ CatalogueOK'
         /\ UNCHANGED <<stockVars, items, lists, entries>>
         /\ \A p \in Parties : Follows(parties[p], parties'[p])
<1>1. UNCHANGED <<stockVars, items, lists, entries>>
  <2>1. ASSUME NEW p, NEW flag, CreateParty(p, flag) \/ SetRole(p, flag) \/ SetCredit(p, flag)
        PROVE  UNCHANGED <<stockVars, items, lists, entries>>
    BY <2>1 DEF CreateParty, SetRole, SetCredit
  <2>2. ASSUME NEW p, NEW version, UpdateParty(p, version)
        PROVE  UNCHANGED <<stockVars, items, lists, entries>>
    BY <2>2 DEF UpdateParty
  <2>3. ASSUME NEW p, DeactivateParty(p) PROVE UNCHANGED <<stockVars, items, lists, entries>>
    BY <2>3 DEF DeactivateParty
  <2> QED
    BY <2>1, <2>2, <2>3 DEF PartiesNext
<1>2. ASSUME NEW p \in Parties, NEW flag \in BOOLEAN, CreateParty(p, flag)
      PROVE  \E row : parties' = [parties EXCEPT ![p] = row] /\ Follows(parties[p], row)
  <2> DEFINE row == [status |-> "active", customer |-> flag, version |-> 1, origin |-> User,
                     profile |-> IF flag THEN "PLAIN" ELSE "NONE"]
  <2>1. row \in Party(Origins)
    BY OriginsDiffer DEF Party
  <2>2. parties' = [parties EXCEPT ![p] = row] /\ parties[p].status = "NONE"
    BY <1>2 DEF CreateParty
  <2>3. Follows(parties[p], row)
    BY <2>1, <2>2 DEF Follows
  <2> QED
    BY <2>2, <2>3
<1>3. ASSUME NEW p \in Parties, NEW flag \in BOOLEAN, SetRole(p, flag)
      PROVE  \E row : parties' = [parties EXCEPT ![p] = row] /\ Follows(parties[p], row)
  <2> DEFINE x == parties[p]
  <2>1. parties' = [parties EXCEPT ![p] = [x EXCEPT !.customer = flag]] /\ x \in Party(Origins)
    BY <1>3 DEF SetRole, CatalogueOK
  <2> HIDE DEF x
  <2>2. Follows(x, [x EXCEPT !.customer = flag])
    BY <2>1, EditedParty
  <2> QED
    BY <2>1, <2>2 DEF x
<1>4. ASSUME NEW p \in Parties, NEW flag \in BOOLEAN, SetCredit(p, flag)
      PROVE  \E row : parties' = [parties EXCEPT ![p] = row] /\ Follows(parties[p], row)
  <2> DEFINE x == parties[p]
             profile == IF flag THEN "CREDIT" ELSE "PLAIN"
  <2>1. parties' = [parties EXCEPT ![p] = [x EXCEPT !.profile = profile]] /\ x \in Party(Origins)
    BY <1>4 DEF SetCredit, CatalogueOK
  <2>2. profile \in {"PLAIN", "CREDIT"}
    OBVIOUS
  <2> HIDE DEF x, profile
  <2>3. Follows(x, [x EXCEPT !.profile = profile])
    BY <2>1, <2>2, EditedParty
  <2> QED
    BY <2>1, <2>3 DEF x
<1>5. ASSUME NEW p \in Parties, NEW version, UpdateParty(p, version)
      PROVE  \E row : parties' = [parties EXCEPT ![p] = row] /\ Follows(parties[p], row)
  <2> DEFINE x == parties[p]
             next == x.version + 1
  <2>1. parties' = [parties EXCEPT ![p] = [x EXCEPT !.version = next]] /\ x \in Party(Origins)
    BY <1>5 DEF UpdateParty, CatalogueOK
  <2>2. next \in Int
    BY <2>1 DEF Party
  <2> HIDE DEF x, next
  <2>3. Follows(x, [x EXCEPT !.version = next])
    BY <2>1, <2>2, EditedParty
  <2> QED
    BY <2>1, <2>3 DEF x
<1>6. ASSUME NEW p \in Parties, DeactivateParty(p)
      PROVE  \E row : parties' = [parties EXCEPT ![p] = row] /\ Follows(parties[p], row)
  <2> DEFINE x == parties[p]
             y == [x EXCEPT !.status = "inactive"]
             next == x.version + 1
             row == [y EXCEPT !.version = next]
  <2>1. parties' = [parties EXCEPT ![p] = row] /\ x \in Party(Origins)
    BY <1>6 DEF DeactivateParty, CatalogueOK
  <2>2. next \in Int
    BY <2>1 DEF Party
  <2> HIDE DEF x, next
  <2>3. Follows(x, y) /\ y \in Party(Origins)
    BY <2>1, EditedParty DEF Follows
  <2> HIDE DEF y
  <2>4. Follows(y, row)
    BY <2>2, <2>3, EditedParty
  <2> HIDE DEF row
  <2>5. Follows(x, row)
    BY <2>3, <2>4 DEF Follows
  <2> QED
    BY <2>1, <2>5 DEF x
<1>7. \E p \in Parties : \E row : parties' = [parties EXCEPT ![p] = row] /\ Follows(parties[p], row)
  BY <1>2, <1>3, <1>4, <1>5, <1>6 DEF PartiesNext
<1>8. PICK p \in Parties : \E row : parties' = [parties EXCEPT ![p] = row] /\ Follows(parties[p], row)
  BY <1>7
<1>9. PICK row : parties' = [parties EXCEPT ![p] = row] /\ Follows(parties[p], row)
  BY <1>8
<1>10. \A q \in Parties : parties'[q] = IF q = p THEN row ELSE parties[q]
  BY <1>9 DEF CatalogueOK
<1>11. parties' \in [Parties -> Party(Origins)]
  BY <1>9 DEF CatalogueOK, Follows
<1>12. \A q \in Parties : Follows(parties[q], parties'[q])
  <2>1. \A x \in Party(Origins) : Follows(x, x)
    BY DEF Follows
  <2>2. \A q \in Parties : parties[q] \in Party(Origins)
    BY DEF CatalogueOK
  <2> QED
    BY <1>9, <1>10, <2>1, <2>2
<1> QED
  BY <1>1, <1>11, <1>12 DEF CatalogueOK

\* A list comes with its first entries (catalog.service.ts).
LEMMA PricesKeepCatalogue ==
  ASSUME CatalogueOK, PricesNext
  PROVE  /\ CatalogueOK'
         /\ UNCHANGED <<stockVars, items, parties>>
         /\ entries \subseteq entries' /\ \A e \in entries' \ entries : e.origin = User
<1>1. PICK l \in PriceLists, default \in BOOLEAN, T \in SUBSET Tiers \ {{}} :
        CreatePriceList(l, default, T)
  BY DEF PricesNext
<1>2. ASSUME NEW t \in T
      PROVE  TierOf(l, t, User) \in Entry(Origins) /\ TierOf(l, t, User).origin = User
  <2>1. t \in Tier
    BY CatalogueAssumption
  <2> QED
    BY <2>1, OriginsDiffer DEF TierOf, Tier, Entry
<1>3. lists' \in [PriceLists -> ListStatus]
  BY <1>1 DEF CreatePriceList, CatalogueOK, ListStatus
<1>4. entries' = entries \cup {TierOf(l, t, User) : t \in T}
  BY <1>1 DEF CreatePriceList
<1>5. UNCHANGED <<stockVars, items, parties>>
  BY <1>1 DEF CreatePriceList
<1> QED
  BY <1>2, <1>3, <1>4, <1>5 DEF CatalogueOK

-----------------------------------------------------------------------------
(* What users do beside the imports: they wait for what a running import   *)
(* holds, and what they make is theirs.                                    *)

\* A movement a user enters (inventory.service.ts).
LEMMA EnteringKeepsLedger ==
  ASSUME StockLedger, StockNext
  PROVE  /\ StockLedger'
         /\ movements \subseteq movements'
         /\ \A m \in movements' \ movements : \E k : m.key = <<"manual", k>>
<1>1. PICK k \in ManualKeys, w \in Warehouses, direction \in {Receipt, Issue}, lines \in ManualLines :
        PostMovement(<<"manual", k>>, w, direction, lines)
  BY DEF StockNext, CreateMovement
<1>2. lines \in Lines
  BY StockAssumption
<1>3. StockLedger'
  BY <1>1, <1>2, PostingKeepsLedger
<1> QED
  BY <1>1, <1>3 DEF PostMovement

\* What users may do to the tables.
ByUsers ==
  /\ \A i \in Items :
       /\ items[i] # NoItem => items'[i] # NoItem /\ items'[i].origin = items[i].origin
       /\ items[i] = NoItem /\ items'[i] # NoItem =>
            items'[i].origin = User /\ <<"item", i>> \notin Held(Jobs)
  /\ \A p \in Parties :
       /\ Follows(parties[p], parties'[p])
       /\ parties[p].status = "NONE" /\ parties'[p].status # "NONE" =>
            <<"party", p>> \notin Held(Jobs)
  /\ entries \subseteq entries' /\ \A e \in entries' \ entries : e.origin = User
  /\ movements \subseteq movements'
  /\ \A m \in movements' \ movements : \E k : m.key = <<"manual", k>>

\* The unique keys that are taken, one by one.
LEMMA CommittedKeys ==
  ASSUME NEW key
  PROVE  key \in Committed <=>
           \/ \E p \in Parties : parties[p].status # "NONE" /\ key = <<"party", p>>
           \/ \E i \in Existing : key = <<"item", i>> \/ \E n \in items[i].names : key = <<"name", n>>
           \/ \E l \in PriceLists : lists[l] # "NONE" /\ key = <<"list", l>>
           \/ \E l \in PriceLists : lists[l] = "DEFAULT" /\ key = <<"default">>
           \/ \E e \in entries : key = <<"tier", e.list, e.item, e.minimum, e.from>>
<1>1. key \in Committed <=>
        \/ key \in {<<"party", p>> : p \in {p \in Parties : parties[p].status # "NONE"}}
        \/ key \in UNION {{<<"item", i>>} \cup {<<"name", n>> : n \in items[i].names} : i \in Existing}
        \/ key \in {<<"list", l>> : l \in {l \in PriceLists : lists[l] # "NONE"}}
        \/ key \in {<<"default">> : l \in {l \in PriceLists : lists[l] = "DEFAULT"}}
        \/ key \in {<<"tier", e.list, e.item, e.minimum, e.from>> : e \in entries}
  BY DEF Committed
<1>2. key \in UNION {{<<"item", i>>} \cup {<<"name", n>> : n \in items[i].names} : i \in Existing} <=>
        \E i \in Existing : key = <<"item", i>> \/ \E n \in items[i].names : key = <<"name", n>>
  OBVIOUS
<1>3. key \in {<<"default">> : l \in {l \in PriceLists : lists[l] = "DEFAULT"}} <=>
        \E l \in PriceLists : lists[l] = "DEFAULT" /\ key = <<"default">>
  OBVIOUS
<1> QED
  BY <1>1, <1>2, <1>3

\* Keys of different kinds differ.
LEMMA KeysDiffer ==
  ASSUME NEW x
  PROVE  /\ \A y : <<"item", x>> # <<"party", y>> /\ <<"item", x>> # <<"name", y>>
         /\ \A y : <<"item", x>> # <<"list", y>> /\ <<"party", x>> # <<"name", y>>
         /\ \A y : <<"party", x>> # <<"list", y>>
         /\ <<"item", x>> # <<"default">> /\ <<"party", x>> # <<"default">>
         /\ \A a, b, c, d : <<"item", x>> # <<"tier", a, b, c, d>> /\ <<"party", x>> # <<"tier", a, b, c, d>>
         /\ \A y : <<"item", x>> = <<"item", y>> => x = y
         /\ \A y : <<"party", x>> = <<"party", y>> => x = y
  OBVIOUS

\* A row shows among the unique keys when it is there.
LEMMA ItemIsCommitted ==
  ASSUME NEW i \in Items
  PROVE  <<"item", i>> \in Committed <=> items[i] # NoItem
  BY CommittedKeys, KeysDiffer DEF Existing

LEMMA PartyIsCommitted ==
  ASSUME NEW p \in Parties
  PROVE  <<"party", p>> \in Committed <=> parties[p].status # "NONE"
  BY CommittedKeys, KeysDiffer

LEMMA OthersAreUsers ==
  ASSUME CatalogueOK, StockLedger, OtherRequests
  PROVE  CatalogueOK' /\ StockLedger' /\ ByUsers
<1>1. WaitsForImports
  BY DEF OtherRequests
<1>2. ASSUME NEW i \in Items, items[i] = NoItem, items'[i] # NoItem
      PROVE  <<"item", i>> \notin Held(Jobs)
  <2>1. <<"item", i>> \in Committed'
    BY <1>2 DEF Committed, Existing
  <2>2. <<"item", i>> \notin Committed
    BY <1>2, ItemIsCommitted
  <2> QED
    BY <1>1, <2>1, <2>2 DEF WaitsForImports
<1>3. ASSUME NEW p \in Parties, parties[p].status = "NONE", parties'[p].status # "NONE"
      PROVE  <<"party", p>> \notin Held(Jobs)
  <2>1. <<"party", p>> \in Committed'
    BY <1>3 DEF Committed
  <2>2. <<"party", p>> \notin Committed
    BY <1>3, PartyIsCommitted
  <2> QED
    BY <1>1, <2>1, <2>2 DEF WaitsForImports
<1>4. \A p \in Parties : Follows(parties[p], parties[p])
  BY DEF CatalogueOK, Follows
<1>5. CASE ItemsNext
  <2>1. StockLedger'
    BY <1>5, ItemsKeepCatalogue DEF stockVars, StockLedger, BalanceIsLedgerSum
  <2>2. /\ CatalogueOK'
        /\ UNCHANGED <<balance, movements, lists, entries, parties>>
    BY <1>5, ItemsKeepCatalogue DEF stockVars
  <2>3. \A i \in Items :
          /\ items[i] # NoItem => items'[i] # NoItem /\ items'[i].origin = items[i].origin
          /\ items[i] = NoItem /\ items'[i] # NoItem =>
               items'[i].origin = User /\ <<"item", i>> \notin Held(Jobs)
    BY <1>2, <1>5, ItemsKeepCatalogue
  <2>4. \A p \in Parties :
          /\ Follows(parties[p], parties'[p])
          /\ parties[p].status = "NONE" /\ parties'[p].status # "NONE" =>
               <<"party", p>> \notin Held(Jobs)
    BY <1>4, <2>2
  <2> QED
    BY <2>1, <2>2, <2>3, <2>4 DEF ByUsers
<1>6. CASE PricesNext
  <2>1. StockLedger'
    BY <1>6, PricesKeepCatalogue DEF stockVars, StockLedger, BalanceIsLedgerSum
  <2> QED
    BY <1>2, <1>3, <1>4, <1>6, <2>1, PricesKeepCatalogue DEF ByUsers, stockVars
<1>7. CASE PartiesNext
  <2>1. StockLedger'
    BY <1>7, PartiesKeepCatalogue DEF stockVars, StockLedger, BalanceIsLedgerSum
  <2> QED
    BY <1>2, <1>3, <1>7, <2>1, PartiesKeepCatalogue DEF ByUsers, stockVars
<1>8. CASE NextDay
  <2>1. UNCHANGED <<balance, movements, items, lists, entries, parties>>
    BY <1>8 DEF NextDay, stockVars
  <2>2. StockLedger' /\ CatalogueOK'
    BY <2>1 DEF StockLedger, BalanceIsLedgerSum, CatalogueOK
  <2> QED
    BY <1>2, <1>3, <1>4, <2>1, <2>2 DEF ByUsers
<1>9. CASE StockNext /\ UNCHANGED catalogueVars
  <2>1. CatalogueOK'
    BY <1>9 DEF catalogueVars, CatalogueOK
  <2> QED
    BY <1>2, <1>3, <1>4, <1>9, <2>1, EnteringKeepsLedger DEF ByUsers, catalogueVars
<1> QED
  BY <1>5, <1>6, <1>7, <1>8, <1>9 DEF OtherRequests

-----------------------------------------------------------------------------
(* The papers: priced from the catalogue, and whole from then on.          *)

\* What is written of a priced document.
PaperOK(paper) ==
  /\ paper \in PaperRow
  /\ \A n \in DOMAIN paper.lines : Taxable(paper.lines[n])
  /\ paper.totals = Totals(paper.lines)

\* An order is of a quotation that is converted into it and whose paper it copied.
OfItsQuotation(o) ==
  LET q == quotations[orders[o].quotation]
  IN  q # NoPaper /\ q.status = "CONVERTED" /\ q.order = o /\ orders[o].paper = OrderPaper(q.paper)

PapersInv ==
  /\ quotations \in [Quotes -> Quotation \cup {NoPaper}]
  /\ orders \in [Orders -> Order \cup {NoPaper}]
  /\ draftSales \in [DraftSales -> PaperRow \cup {NoPaper}]
  /\ \A q \in Quotes : quotations[q] # NoPaper => PaperOK(quotations[q].paper)
  /\ \A o \in Orders : orders[o] # NoPaper => OfItsQuotation(o)
  /\ \A s \in DraftSales : draftSales[s] # NoPaper => PaperOK(draftSales[s])

\* The lines of a paper, as the sums take them.
LEMMA LinesAreFinite ==
  ASSUME NEW lines \in Seq(Line), \A n \in DOMAIN lines : Taxable(lines[n])
  PROVE  /\ PricedLines(lines, TaxRate)
         /\ TaxRate \in Nat
         /\ IsFiniteSet(DOMAIN lines)
         /\ Cardinality(DOMAIN lines) = Len(lines)
<1>1. DOMAIN lines = 1 .. Len(lines) /\ Len(lines) \in Nat
  BY LenProperties
<1>2. IsFiniteSet(DOMAIN lines) /\ Cardinality(DOMAIN lines) = Len(lines)
  BY <1>1, FS_Interval
<1>3. \A n \in DOMAIN lines : lines[n] \in Line
  BY <1>1, ElementOfSeq
<1>4. PricedLines(lines, TaxRate)
  BY <1>3 DEF PricedLines, Line
<1>5. TaxRate \in Nat
  BY QuotationsAssumption, PricingAssumption
<1> QED
  BY <1>2, <1>4, <1>5

\* A paper that is written of such lines is well-formed.
LEMMA PaperIsOK ==
  ASSUME NEW p \in Parties, NEW lines \in Seq(Line), \A n \in DOMAIN lines : Taxable(lines[n])
  PROVE  PaperOK(Paper(p, lines))
<1>1. Totals(lines) \in DocumentTotals
  BY LinesAreFinite, TotalsOfLines
<1> QED
  BY <1>1 DEF PaperOK, Paper, PaperRow

\* Whatever price a line of a request gets, the lines are of the type of papers
\* (resolvePrice of phase2.ts, priceLines of sales.service.ts).
LEMMA PricesAreInts ==
  ASSUME CatalogueOK, NEW line \in AskedLine, items[line.item] # NoItem, NEW p, NEW mayPrice,
         NEW c \in PricesOf(line, p, mayPrice)
  PROVE  c.price \in Int
<1> DEFINE Of(S) == {[price |-> e.price, limit |-> e.limit] : e \in ActivePrices(S, line.quantity, today)}
           C == CustomerEntries(line.item, p)
           D == DefaultEntries(line.item)
<1>1. ASSUME NEW S \in SUBSET entries, NEW x \in Of(S) PROVE x.price \in Int
  <2>1. PICK e \in S : x = [price |-> e.price, limit |-> e.limit]
    BY <1>1 DEF ActivePrices, InForce
  <2>2. e.price \in Int
    BY <1>1 DEF CatalogueOK, Entry
  <2> QED
    BY <2>1, <2>2
<1>2. C \in SUBSET entries /\ D \in SUBSET entries
  BY DEF CustomerEntries, DefaultEntries
<1>3. items[line.item].price \in Int
  BY DEF CatalogueOK, AskedLine, Item
<1>4. line.manual \subseteq Int
  BY DEF AskedLine
<1>5. c \in CASE Of(C) # {} -> Of(C)
             [] Of(C) = {} /\ Of(D) # {} -> Of(D)
             [] OTHER -> IF line.manual = {} THEN {[price |-> items[line.item].price, limit |-> 0]}
                         ELSE {[price |-> m, limit |-> One] : m \in {m \in line.manual : mayPrice}}
  BY DEF PricesOf, Resolved
<1> HIDE DEF Of, C, D
<1>6. \/ c \in Of(C) \/ c \in Of(D) \/ c = [price |-> items[line.item].price, limit |-> 0]
      \/ c \in {[price |-> m, limit |-> One] : m \in {m \in line.manual : mayPrice}}
  BY <1>5
<1> QED
  BY <1>1, <1>2, <1>3, <1>4, <1>6

LEMMA PricedAreLines ==
  ASSUME CatalogueOK, NEW asked \in Asked, NEW p, NEW mayPrice, NEW mayDiscount,
         NEW lines \in PriceLines(asked, p, mayPrice, mayDiscount)
  PROVE  lines \in Seq(Line) /\ \A n \in DOMAIN lines : Taxable(lines[n])
<1> DEFINE Options(n) == {PricedLine(asked[n], c.price) :
             c \in {c \in PricesOf(asked[n], p, mayPrice) :
                      asked[n].discount <= c.limit \/ mayDiscount}}
<1>1. asked \in Seq(AskedLine) /\ DOMAIN asked = 1 .. Len(asked) /\ Len(asked) \in Nat
  BY QuotationsAssumption, LenProperties
<1>2. /\ \A n \in DOMAIN asked : items[asked[n].item] # NoItem
      /\ lines \in [DOMAIN asked -> UNION {Options(n) : n \in DOMAIN asked}]
      /\ \A n \in DOMAIN asked : lines[n] \in Options(n) /\ Taxable(lines[n])
  BY DEF PriceLines
<1>3. ASSUME NEW n \in DOMAIN asked PROVE lines[n] \in Line
  <2>1. PICK c \in PricesOf(asked[n], p, mayPrice) : lines[n] = PricedLine(asked[n], c.price)
    BY <1>2
  <2> HIDE DEF Options
  <2>2. asked[n] \in AskedLine
    BY <1>1, ElementOfSeq
  <2>3. items[asked[n].item] # NoItem
    BY <1>2
  <2>4. c.price \in Int
    BY <2>1, <2>2, <2>3, PricesAreInts
  <2>5. items[asked[n].item].category \in TaxCategories
    BY <2>2, <2>3 DEF CatalogueOK, AskedLine, Item
  <2> QED
    BY <2>1, <2>2, <2>4, <2>5 DEF PricedLine, Line, AskedLine
<1> HIDE DEF Options
<1>4. lines \in [1 .. Len(asked) -> Line]
  BY <1>1, <1>2, <1>3
<1>5. lines \in Seq(Line)
  BY <1>1, <1>4, SeqDef
<1> QED
  BY <1>2, <1>5

\* The null is no row.
LEMMA RowsAreNoNull ==
  /\ \A q \in Quotation : q # NoPaper
  /\ \A o \in Order : o # NoPaper
  /\ \A paper \in PaperRow : paper # NoPaper
  BY QuotationsAssumption

\* A quotation that is not converted changes, or appears, with no order.
LEMMA WritingQuotation ==
  ASSUME PapersInv, NEW q \in Quotes, NEW row \in Quotation,
         quotations' = [quotations EXCEPT ![q] = row], UNCHANGED <<orders, draftSales>>,
         PaperOK(row.paper),
         quotations[q] = NoPaper \/ quotations[q].status # "CONVERTED"
  PROVE  PapersInv'
<1>1. \A k \in Quotes : quotations'[k] = IF k = q THEN row ELSE quotations[k]
  BY DEF PapersInv
<1>2. quotations' \in [Quotes -> Quotation \cup {NoPaper}]
  BY DEF PapersInv
<1>3. ASSUME NEW o \in Orders, orders[o] # NoPaper PROVE OfItsQuotation(o)'
  <2>1. orders[o] \in Order /\ orders'[o] = orders[o] /\ OfItsQuotation(o)
    BY <1>3 DEF PapersInv
  <2>2. orders[o].quotation \in Quotes /\ orders[o].quotation # q
    BY <2>1 DEF Order, OfItsQuotation
  <2> QED
    BY <1>1, <2>1, <2>2 DEF OfItsQuotation
<1>4. \A k \in Quotes : quotations'[k] # NoPaper => PaperOK(quotations'[k].paper)
  BY <1>1 DEF PapersInv
<1> QED
  BY <1>2, <1>3, <1>4 DEF PapersInv, PaperOK

LEMMA CreatingQuotationKeeps ==
  ASSUME CatalogueOK, PapersInv, NEW q \in Quotes, NEW p \in Parties, NEW asked \in Asked,
         NEW until \in 1 .. LastDay, NEW mayPrice, NEW mayDiscount,
         CreateQuotation(q, p, asked, until, mayPrice, mayDiscount)
  PROVE  PapersInv'
<1>1. PICK lines \in PriceLines(asked, p, mayPrice, mayDiscount) :
        quotations' = [quotations EXCEPT ![q] =
          [status |-> "DRAFT", until |-> until, order |-> NoOrder, paper |-> Paper(p, lines)]]
  BY DEF CreateQuotation
<1>2. PaperOK(Paper(p, lines))
  BY PricedAreLines, PaperIsOK
<1> DEFINE paper == Paper(p, lines)
           row == [status |-> "DRAFT", until |-> until, order |-> NoOrder, paper |-> paper]
<1> HIDE DEF paper
<1>3. row \in Quotation
  BY <1>2 DEF Quotation, QuotationStatus, Transitions, PaperOK, paper
<1>4. row.paper = paper
  OBVIOUS
<1>5. quotations' = [quotations EXCEPT ![q] = row]
  BY <1>1 DEF paper
<1>6. quotations[q] = NoPaper /\ UNCHANGED <<orders, draftSales>>
  BY DEF CreateQuotation
<1> HIDE DEF row
<1> QED
  BY <1>2, <1>3, <1>4, <1>5, <1>6, WritingQuotation DEF paper

\* A converted quotation goes nowhere else (nextQuotationStatus of phase2.ts).
LEMMA TransitionKeeps ==
  ASSUME PapersInv, NEW q \in Quotes, NEW target \in QuotationStatus,
         TransitionQuotation(q, target)
  PROVE  PapersInv'
<1> DEFINE x == quotations[q]
           row == [x EXCEPT !.status = target]
<1>1. x \in Quotation /\ PaperOK(x.paper) /\ quotations' = [quotations EXCEPT ![q] = row]
  BY DEF TransitionQuotation, PapersInv
<1>2. x.status # "CONVERTED"
  BY DEF TransitionQuotation, MayBecome, Transitions
<1>3. UNCHANGED <<orders, draftSales>>
  BY DEF TransitionQuotation
<1> HIDE DEF x
<1>4. row \in Quotation /\ row.paper = x.paper
  BY <1>1 DEF Quotation
<1> HIDE DEF row
<1> QED
  BY <1>1, <1>2, <1>3, <1>4, WritingQuotation DEF x

\* The conversion writes the order with the quotation's paper, and both point at each other.
LEMMA ConvertingKeeps ==
  ASSUME PapersInv, NEW q \in Quotes, NEW o \in Orders, ConvertQuotation(q, o)
  PROVE  PapersInv'
<1> DEFINE x == quotations[q]
           y == [x EXCEPT !.status = "CONVERTED"]
           row == [y EXCEPT !.order = o]
           new == [status |-> "DRAFT", quotation |-> q, paper |-> OrderPaper(x.paper)]
<1>1. /\ x \in Quotation /\ PaperOK(x.paper)
      /\ quotations' = [quotations EXCEPT ![q] = row]
      /\ orders' = [orders EXCEPT ![o] = new]
      /\ orders[o] = NoPaper /\ draftSales' = draftSales
  <2>1. /\ x \in Quotation /\ PaperOK(x.paper)
        /\ quotations' = [quotations EXCEPT ![q].status = "CONVERTED", ![q].order = o]
        /\ orders' = [orders EXCEPT ![o] = new]
        /\ orders[o] = NoPaper /\ draftSales' = draftSales
    BY DEF ConvertQuotation, PapersInv
  <2>2. [quotations EXCEPT ![q].status = "CONVERTED", ![q].order = o] = [quotations EXCEPT ![q] = row]
    <3>1. q \in DOMAIN quotations
      BY DEF PapersInv
    <3> QED
      BY <3>1
  <2> QED
    BY <2>1, <2>2
<1>2. x.status # "CONVERTED"
  BY DEF ConvertQuotation, MayBecome, Transitions
<1> HIDE DEF x
<1>3. y \in Quotation /\ y.paper = x.paper /\ y.status = "CONVERTED"
  BY <1>1 DEF Quotation, QuotationStatus, Transitions
<1> HIDE DEF y
<1>4. row \in Quotation /\ row.paper = x.paper /\ row.status = "CONVERTED" /\ row.order = o
  BY <1>3 DEF Quotation
<1>5. new \in Order /\ new.quotation = q /\ new.paper = OrderPaper(x.paper)
  <2>1. OrderPaper(x.paper) \in OrderRow
    BY <1>1 DEF PaperOK, PaperRow, OrderPaper, OrderRow, DocumentTotals
  <2> QED
    BY <2>1 DEF Order
<1> HIDE DEF row, new
<1>6. \A k \in Quotes : quotations'[k] = IF k = q THEN row ELSE quotations[k]
  BY <1>1 DEF PapersInv
<1>7. \A k \in Orders : orders'[k] = IF k = o THEN new ELSE orders[k]
  BY <1>1 DEF PapersInv
<1>8. /\ quotations' \in [Quotes -> Quotation \cup {NoPaper}]
      /\ orders' \in [Orders -> Order \cup {NoPaper}]
      /\ draftSales' \in [DraftSales -> PaperRow \cup {NoPaper}]
  BY <1>1, <1>4, <1>5 DEF PapersInv
<1>9. ASSUME NEW k \in Orders, orders'[k] # NoPaper PROVE OfItsQuotation(k)'
  <2>1. CASE k = o
    <3>1. row # NoPaper
      BY <1>4, RowsAreNoNull
    <3> QED
      BY <1>1, <1>4, <1>5, <1>6, <1>7, <2>1, <3>1 DEF OfItsQuotation
  <2>2. CASE k # o
    <3>1. /\ orders'[k] = orders[k] /\ orders[k] \in Order
          /\ OfItsQuotation(k)
      BY <1>7, <1>9, <2>2 DEF PapersInv
    <3>2. orders[k].quotation \in Quotes /\ orders[k].quotation # q
      BY <1>2, <3>1 DEF Order, OfItsQuotation, x
    <3> QED
      BY <1>6, <3>1, <3>2 DEF OfItsQuotation
  <2> QED
    BY <2>1, <2>2
<1>10. \A k \in Quotes : quotations'[k] # NoPaper => PaperOK(quotations'[k].paper)
  BY <1>1, <1>4, <1>6 DEF PapersInv
<1> QED
  BY <1>1, <1>8, <1>9, <1>10 DEF PapersInv, PaperOK

LEMMA ConfirmingOrderKeeps ==
  ASSUME PapersInv, NEW o \in Orders, ConfirmOrder(o)
  PROVE  PapersInv'
<1> DEFINE x == orders[o]
           row == [x EXCEPT !.status = "CONFIRMED"]
<1>1. /\ x \in Order /\ OfItsQuotation(o)
      /\ orders' = [orders EXCEPT ![o] = row]
      /\ UNCHANGED <<quotations, draftSales>>
  BY DEF ConfirmOrder, PapersInv
<1> HIDE DEF x
<1>2. row \in Order /\ row.paper = x.paper /\ row.quotation = x.quotation
  BY <1>1 DEF Order
<1> HIDE DEF row
<1>3. \A k \in Orders : orders'[k] = IF k = o THEN row ELSE orders[k]
  BY <1>1 DEF PapersInv
<1>4. orders' \in [Orders -> Order \cup {NoPaper}]
  BY <1>1, <1>2 DEF PapersInv
<1>5. ASSUME NEW k \in Orders, orders'[k] # NoPaper PROVE OfItsQuotation(k)'
  BY <1>1, <1>2, <1>3, <1>5 DEF PapersInv, OfItsQuotation, x
<1> QED
  BY <1>1, <1>4, <1>5 DEF PapersInv, PaperOK

LEMMA SellingDirectKeeps ==
  ASSUME CatalogueOK, PapersInv, NEW s \in DraftSales, NEW p \in Parties, NEW asked \in Asked,
         NEW mayPrice, NEW mayDiscount, CreateDirectSale(s, p, asked, mayPrice, mayDiscount)
  PROVE  PapersInv'
<1>1. PICK lines \in PriceLines(asked, p, mayPrice, mayDiscount) :
        draftSales' = [draftSales EXCEPT ![s] = Paper(p, lines)]
  BY DEF CreateDirectSale
<1> DEFINE paper == Paper(p, lines)
<1>2. PaperOK(paper)
  BY PricedAreLines, PaperIsOK
<1>3. UNCHANGED <<quotations, orders>> /\ draftSales' = [draftSales EXCEPT ![s] = paper]
  BY <1>1 DEF CreateDirectSale
<1> HIDE DEF paper
<1>4. draftSales' \in [DraftSales -> PaperRow \cup {NoPaper}]
  BY <1>2, <1>3 DEF PapersInv, PaperOK
<1>5. \A k \in DraftSales : draftSales'[k] # NoPaper => PaperOK(draftSales'[k])
  BY <1>2, <1>3 DEF PapersInv
<1> QED
  BY <1>3, <1>4, <1>5 DEF PapersInv, PaperOK, OfItsQuotation

\* Nobody else writes papers.
LEMMA PapersStay == PapersInv /\ UNCHANGED quotationVars => PapersInv'
  BY DEF PapersInv, quotationVars, PaperOK, OfItsQuotation

LEMMA QuotationsKeepPapers ==
  ASSUME CatalogueOK, PapersInv, QuotationsNext
  PROVE  PapersInv'
  BY CreatingQuotationKeeps, TransitionKeeps, ConvertingKeeps, ConfirmingOrderKeeps, SellingDirectKeeps
  DEF QuotationsNext

\* Whatever paper there is reconciles, and an order is as it was quoted.
LEMMA PapersReconcile == PapersInv => TotalsReconcile /\ OrderIsAsQuoted
<1> SUFFICES ASSUME PapersInv PROVE TotalsReconcile /\ OrderIsAsQuoted
  OBVIOUS
<1>1. ASSUME NEW paper \in Papers PROVE PaperOK(paper)
  BY DEF Papers, PapersInv
<1>2. TotalsReconcile
  <2> SUFFICES ASSUME NEW paper \in Papers
               PROVE  LET t == paper.totals
                          net == t.taxable + t.exempt + t.unaffected
                      IN  /\ t.total = net + t.igv
                          /\ t.subtotal - t.discount = net
                          /\ t.discount >= 0
                          /\ LET difference == 2 * (t.igv * One - t.taxable * TaxRate)
                             IN  difference \in -(One * Len(paper.lines)) .. One * Len(paper.lines)
    BY DEF TotalsReconcile
  <2>1. PaperOK(paper) /\ paper.lines \in Seq(Line)
    BY <1>1 DEF PaperOK, PaperRow
  <2> DEFINE lines == paper.lines
             t == paper.totals
  <2>2. t = Totals(lines) /\ lines \in Seq(Line) /\ \A n \in DOMAIN lines : Taxable(lines[n])
    BY <2>1 DEF PaperOK
  <2> HIDE DEF lines, t
  <2>3. /\ t.total = t.taxable + t.exempt + t.unaffected + t.igv
        /\ t.subtotal - t.discount = t.taxable + t.exempt + t.unaffected
        /\ t.discount >= 0
        /\ 2 * (t.igv * One - t.taxable * TaxRate) \in -(One * Len(lines)) .. One * Len(lines)
    BY <2>2, LinesAreFinite, TotalsOfLines
  <2> QED
    BY <2>3 DEF lines, t
<1>3. OrderIsAsQuoted
  <2> SUFFICES ASSUME NEW o \in Orders, orders[o] # NoPaper,
                      NEW q, q = quotations[orders[o].quotation],
                      NEW row, row = orders[o].paper
               PROVE  /\ q.status = "CONVERTED" /\ q.order = o
                      /\ row.customer = q.paper.customer /\ row.lines = q.paper.lines
                      /\ \A f \in DOMAIN row.totals :
                           row.totals[f] = q.paper.totals[f] /\ row.totals[f] = Totals(row.lines)[f]
    BY DEF OrderIsAsQuoted
  <2>1. /\ q.status = "CONVERTED" /\ q.order = o /\ row = OrderPaper(q.paper)
        /\ PaperOK(q.paper)
    BY DEF PapersInv, OfItsQuotation, Order
  <2>2. \A f \in DOMAIN row.totals : row.totals[f] = q.paper.totals[f]
    BY <2>1 DEF OrderPaper
  <2>3. q.paper.totals = Totals(row.lines)
    BY <2>1 DEF OrderPaper, PaperOK
  <2>4. row.customer = q.paper.customer /\ row.lines = q.paper.lines
    BY <2>1 DEF OrderPaper
  <2> QED
    BY <2>1, <2>2, <2>3, <2>4
<1> QED
  BY <1>2, <1>3

-----------------------------------------------------------------------------
(* The imports: what an execution has written is new to the tables, and    *)
(* what it holds nobody else takes.                                        *)

WrittenRow ==
  [kind : {"PARTY"}, party : Parties, customer : BOOLEAN]
  \cup [kind : {"ITEM"}, item : Items, offer : Offer]
  \cup [kind : {"STOCK"}, warehouse : Warehouses, item : Items, qty : Nat \ {0}]
  \cup [kind : {"PRICE"}, list : PriceLists, item : Items, minimum : Int, price : Int, limit : Int,
         from : Int, until : Int, newList : BOOLEAN, default : BOOLEAN]

Job == [status : {"NONE", "INVALID", "PREVIEWED", "EXECUTING", "COMPLETED"},
        file : Files \cup {NoFile}, written : Seq(WrittenRow)]

\* A job that may be executed has a valid file, and only an execution has written rows.
JobOK(job) ==
  /\ job \in Job
  /\ job.status # "NONE" => job.file \in Files
  /\ job.status \notin {"NONE", "INVALID"} => \A n \in DOMAIN job.file : Valid(job.file[n])
  /\ job.status \notin {"EXECUTING", "COMPLETED"} => job.written = <<>>

\* No item or party of the written rows W is in the tables, or is written twice.
WritesOK(W) ==
  /\ \A n \in DOMAIN W :
       /\ W[n].kind = "ITEM" => items[W[n].item] = NoItem
       /\ W[n].kind = "PARTY" => parties[W[n].party].status = "NONE"
  /\ \A m, n \in DOMAIN W :
       /\ W[m].kind = "ITEM" /\ W[n].kind = "ITEM" /\ W[m].item = W[n].item => m = n
       /\ W[m].kind = "PARTY" /\ W[n].kind = "PARTY" /\ W[m].party = W[n].party => m = n

\* Row n of job j is in the tables.
MadeBy(j, n) ==
  \/ \E i \in Existing : items[i].origin = <<j, n>>
  \/ \E p \in Parties : parties[p].origin = <<j, n>>
  \/ \E e \in entries : e.origin = <<j, n>>
  \/ \E m \in movements : m.key = <<"import", j, n>>

OriginsOK(j) ==
  /\ jobs[j].status = "COMPLETED" => \A n \in DOMAIN jobs[j].file : MadeBy(j, n)
  /\ jobs[j].status # "COMPLETED" => \A n : ~MadeBy(j, n)
  /\ \A i, k \in Existing : items[i].origin = items[k].origin /\ items[i].origin[1] = j => i = k

ImportsInv ==
  /\ jobs = [j \in Jobs |-> jobs[j]]
  /\ \A j \in Jobs : JobOK(jobs[j]) /\ OriginsOK(j)
  /\ \A p \in Parties : parties[p].status = "NONE" => parties[p].origin = User
  /\ \A j \in Running : WritesOK(jobs[j].written)
  /\ \A j, k \in Running : j # k => HeldBy(j) \cap HeldBy(k) = {}

LEMMA OfFile ==
  ASSUME NEW job, JobOK(job), job.status # "NONE"
  PROVE  /\ job.file \in Seq(FileRow)
         /\ DOMAIN job.file = 1 .. Len(job.file) /\ Len(job.file) \in Nat
         /\ \A n \in DOMAIN job.file : job.file[n] \in FileRow
<1>1. job.file \in Seq(FileRow)
  BY ImportsAssumption DEF JobOK
<1>2. DOMAIN job.file = 1 .. Len(job.file) /\ Len(job.file) \in Nat
  BY <1>1, LenProperties
<1>3. \A n \in 1 .. Len(job.file) : job.file[n] \in FileRow
  BY <1>1, ElementOfSeq
<1> QED
  BY <1>1, <1>2, <1>3

LEMMA OfWritten ==
  ASSUME NEW job, JobOK(job)
  PROVE  /\ job.written \in Seq(WrittenRow)
         /\ DOMAIN job.written = 1 .. Len(job.written) /\ Len(job.written) \in Nat
         /\ \A n \in DOMAIN job.written : job.written[n] \in WrittenRow
<1>1. job.written \in Seq(WrittenRow)
  BY DEF JobOK, Job
<1>2. DOMAIN job.written = 1 .. Len(job.written) /\ Len(job.written) \in Nat
  BY <1>1, LenProperties
<1>3. \A n \in 1 .. Len(job.written) : job.written[n] \in WrittenRow
  BY <1>1, ElementOfSeq
<1> QED
  BY <1>1, <1>2, <1>3

\* What the rows of a kind carry.
LEMMA KindOfRow ==
  ASSUME NEW w \in WrittenRow
  PROVE  /\ w.kind \in {"PARTY", "ITEM", "STOCK", "PRICE"}
         /\ w.kind = "PARTY" => w.party \in Parties /\ w.customer \in BOOLEAN
         /\ w.kind = "ITEM" => w.item \in Items /\ w.offer \in Offer
         /\ w.kind = "STOCK" => w.warehouse \in Warehouses /\ w.item \in Items /\ w.qty \in Nat \ {0}
         /\ w.kind = "PRICE" =>
              /\ w.list \in PriceLists /\ w.item \in Items /\ w.minimum \in Int /\ w.price \in Int
              /\ w.limit \in Int /\ w.from \in Int /\ w.until \in Int
  BY DEF WrittenRow

\* An item or a party that is written is held.
LEMMA RowHoldsItsOwn ==
  ASSUME NEW w
  PROVE  /\ w.kind = "ITEM" => <<"item", w.item>> \in Holds(w)
         /\ w.kind = "PARTY" => <<"party", w.party>> \in Holds(w)
<1>1. w.kind = "ITEM" => Holds(w) = {<<"item", w.item>>} \cup {<<"name", n>> : n \in w.offer.names}
  BY DEF Holds
<1>2. w.kind = "PARTY" => Holds(w) = {<<"party", w.party>>}
  BY DEF Holds
<1> QED
  BY <1>1, <1>2

LEMMA WrittenIsHeld ==
  ASSUME NEW j \in Running, NEW n \in DOMAIN jobs[j].written, NEW w, w = jobs[j].written[n]
  PROVE  /\ Holds(w) \subseteq HeldBy(j) /\ HeldBy(j) \subseteq Held(Jobs)
         /\ w.kind = "ITEM" => <<"item", w.item>> \in HeldBy(j)
         /\ w.kind = "PARTY" => <<"party", w.party>> \in HeldBy(j)
<1>1. Holds(w) \subseteq HeldBy(j)
  BY DEF HeldBy, Written
<1>2. HeldBy(j) \subseteq Held(Jobs)
  BY DEF Held, Running
<1> QED
  BY <1>1, <1>2, RowHoldsItsOwn

\* What users make is theirs, and what they change stays whose it is.
LEMMA UsersMakeTheirs ==
  ASSUME ImportsInv, ByUsers, UNCHANGED jobs
  PROVE  ImportsInv'
<1>1. ASSUME NEW i \in Items, items'[i] # NoItem, NEW j \in Jobs, items'[i].origin[1] = j
      PROVE  items[i] # NoItem /\ items'[i].origin = items[i].origin
  BY <1>1, OriginsDiffer DEF ByUsers
<1>2. ASSUME NEW j \in Jobs, NEW n PROVE MadeBy(j, n)' <=> MadeBy(j, n)
  <2>1. (\E i \in Existing' : items'[i].origin = <<j, n>>) <=>
          \E i \in Existing : items[i].origin = <<j, n>>
    <3>1. \A i \in Items : items'[i] # NoItem /\ items'[i].origin = <<j, n>> =>
                            items[i] # NoItem /\ items[i].origin = <<j, n>>
      BY OriginsDiffer DEF ByUsers
    <3>2. \A i \in Items : items[i] # NoItem /\ items[i].origin = <<j, n>> =>
                            items'[i] # NoItem /\ items'[i].origin = <<j, n>>
      BY DEF ByUsers
    <3> QED
      BY <3>1, <3>2 DEF Existing
  <2>2. (\E p \in Parties : parties'[p].origin = <<j, n>>) <=>
          \E p \in Parties : parties[p].origin = <<j, n>>
    <3>1. \A p \in Parties : parties'[p].origin = <<j, n>> <=> parties[p].origin = <<j, n>>
      BY OriginsDiffer DEF ByUsers, Follows, ImportsInv
    <3> QED
      BY <3>1
  <2>3. (\E e \in entries' : e.origin = <<j, n>>) <=> \E e \in entries : e.origin = <<j, n>>
    BY OriginsDiffer DEF ByUsers
  <2>4. (\E m \in movements' : m.key = <<"import", j, n>>) <=>
          \E m \in movements : m.key = <<"import", j, n>>
    BY OriginsDiffer DEF ByUsers
  <2> QED
    BY <2>1, <2>2, <2>3, <2>4 DEF MadeBy
<1>3. ASSUME NEW j \in Jobs PROVE OriginsOK(j)'
  <2>1. OriginsOK(j)
    BY DEF ImportsInv
  <2>2. \A i, k \in Existing' : items'[i].origin = items'[k].origin /\ items'[i].origin[1] = j => i = k
    BY <1>1, <2>1 DEF OriginsOK, Existing
  <2> QED
    BY <1>2, <2>1, <2>2 DEF OriginsOK
<1>4. ASSUME NEW j \in Running PROVE WritesOK(jobs[j].written)'
  <2> DEFINE W == jobs[j].written
  <2>1. j \in Jobs /\ WritesOK(W) /\ W' = W /\ \A n \in DOMAIN W : W[n] \in WrittenRow
    BY OfWritten DEF ImportsInv, Running
  <2>2. ASSUME NEW n \in DOMAIN W, W[n].kind = "ITEM" PROVE items'[W[n].item] = NoItem
    <3>1. W[n].item \in Items /\ items[W[n].item] = NoItem
      BY <2>1, <2>2, KindOfRow DEF WritesOK
    <3>2. <<"item", W[n].item>> \in Held(Jobs)
      BY <2>2, WrittenIsHeld
    <3> QED
      BY <3>1, <3>2 DEF ByUsers
  <2>3. ASSUME NEW n \in DOMAIN W, W[n].kind = "PARTY" PROVE parties'[W[n].party].status = "NONE"
    <3>1. W[n].party \in Parties /\ parties[W[n].party].status = "NONE"
      BY <2>1, <2>3, KindOfRow DEF WritesOK
    <3>2. <<"party", W[n].party>> \in Held(Jobs)
      BY <2>3, WrittenIsHeld
    <3> QED
      BY <3>1, <3>2 DEF ByUsers
  <2> HIDE DEF W
  <2> QED
    BY <2>1, <2>2, <2>3 DEF WritesOK, W
<1>5. \A p \in Parties : parties'[p].status = "NONE" => parties'[p].origin = User
  BY DEF ByUsers, Follows, ImportsInv
<1>6. Running' = Running /\ \A j : HeldBy(j)' = HeldBy(j)
  BY DEF Running, HeldBy, Written, Holds
<1>7. \A j \in Jobs : JobOK(jobs[j])'
  BY DEF ImportsInv, JobOK
<1> QED
  BY <1>3, <1>4, <1>5, <1>6, <1>7 DEF ImportsInv

-----------------------------------------------------------------------------
(* A step of one job that leaves the tables alone.                         *)

\* What a job holds is what its rows hold, before and after a step.
LEMMA HeldByRows ==
  ASSUME NEW j
  PROVE  /\ HeldBy(j) = UNION {Holds(w) : w \in {jobs[j].written[n] : n \in DOMAIN jobs[j].written}}
         /\ HeldBy(j)' = UNION {Holds(w) : w \in {jobs'[j].written[n] : n \in DOMAIN jobs'[j].written}}
  BY DEF HeldBy, Written

LEMMA ChangingJob ==
  ASSUME ImportsInv, NEW j \in Jobs, NEW job, jobs' = [jobs EXCEPT ![j] = job],
         UNCHANGED <<stockVars, catalogueVars>>, JobOK(job),
         jobs[j].status # "COMPLETED", job.status # "COMPLETED",
         job.status = "EXECUTING" => WritesOK(job.written),
         job.status = "EXECUTING" =>
           \A n \in DOMAIN job.written : Holds(job.written[n]) \cap Held(Jobs \ {j}) = {}
  PROVE  ImportsInv'
<1>1. \A k \in Jobs : jobs'[k] = IF k = j THEN job ELSE jobs[k]
  BY DEF ImportsInv
<1>2. jobs' = [k \in Jobs |-> jobs'[k]]
  BY DEF ImportsInv
<1>3. UNCHANGED <<balance, movements, items, lists, entries, parties, today>>
  BY DEF stockVars, catalogueVars
<1>4. \A k, n : MadeBy(k, n)' <=> MadeBy(k, n)
  BY <1>3 DEF MadeBy, Existing
<1>5. ASSUME NEW k \in Jobs PROVE JobOK(jobs[k])' /\ OriginsOK(k)'
  <2>1. JobOK(jobs[k])'
    BY <1>1 DEF ImportsInv, JobOK
  <2>2. OriginsOK(k)
    BY DEF ImportsInv
  <2>3. \A i, m \in Existing' : items'[i].origin = items'[m].origin /\ items'[i].origin[1] = k => i = m
    BY <1>3, <2>2 DEF OriginsOK, Existing
  <2>4. OriginsOK(k)'
    BY <1>1, <1>4, <2>2, <2>3 DEF OriginsOK
  <2> QED
    BY <2>1, <2>4
<1>6. \A W : WritesOK(W) => WritesOK(W)'
  BY <1>3 DEF WritesOK
<1>7. \A k \in Running' : IF k = j THEN job.status = "EXECUTING" ELSE k \in Running
  BY <1>1 DEF Running
<1>8. ASSUME NEW k \in Running' PROVE WritesOK(jobs[k].written)'
  <2>1. k \in Jobs
    BY <1>8 DEF Running
  <2>2. CASE k = j
    <3>1. WritesOK(job.written)'
      BY <1>6, <1>7, <2>2
    <3> QED
      BY <1>1, <2>1, <2>2, <3>1 DEF WritesOK
  <2>3. CASE k # j
    <3>1. WritesOK(jobs[k].written)
      BY <1>7, <2>3 DEF ImportsInv
    <3> QED
      BY <1>1, <1>3, <2>1, <2>3, <3>1 DEF WritesOK
  <2> QED
    BY <2>2, <2>3
<1>9. ASSUME NEW k \in Jobs, k # j PROVE HeldBy(k)' = HeldBy(k)
  <2>1. jobs'[k] = jobs[k]
    BY <1>1, <1>9
  <2> QED
    BY <2>1, HeldByRows
<1>10. ASSUME job.status = "EXECUTING", NEW k \in Running, k # j
       PROVE  HeldBy(j)' \cap HeldBy(k) = {}
  <2>1. HeldBy(j)' = UNION {Holds(w) : w \in {job.written[n] : n \in DOMAIN job.written}}
    BY <1>1, HeldByRows
  <2>2. HeldBy(k) \subseteq Held(Jobs \ {j})
    BY <1>10 DEF Held, Running
  <2>3. \A n \in DOMAIN job.written : Holds(job.written[n]) \cap HeldBy(k) = {}
    BY <1>10, <2>2
  <2> QED
    BY <2>1, <2>3
<1>11. \A k, m \in Running' : k # m => HeldBy(k)' \cap HeldBy(m)' = {}
  <2> SUFFICES ASSUME NEW k \in Running', NEW m \in Running', k # m
               PROVE  HeldBy(k)' \cap HeldBy(m)' = {}
    OBVIOUS
  <2>0. k \in Jobs /\ m \in Jobs
    BY DEF Running
  <2>1. CASE k = j
    BY <1>7, <1>9, <1>10, <2>0, <2>1
  <2>2. CASE m = j
    BY <1>7, <1>9, <1>10, <2>0, <2>2
  <2>3. CASE k # j /\ m # j
    BY <1>7, <1>9, <2>0, <2>3 DEF ImportsInv
  <2> QED
    BY <2>1, <2>2, <2>3
<1>12. \A p \in Parties : parties'[p].status = "NONE" => parties'[p].origin = User
  BY <1>3 DEF ImportsInv
<1> QED
  BY <1>2, <1>5, <1>8, <1>11, <1>12 DEF ImportsInv

\* A preview only writes the job.
LEMMA PreviewKeeps ==
  ASSUME ImportsInv, NEW j \in Jobs, NEW file \in Files, Preview(j, file)
  PROVE  ImportsInv'
<1> DEFINE job == [status |-> IF Clean(file) THEN "PREVIEWED" ELSE "INVALID", file |-> file, written |-> <<>>]
<1>1. /\ jobs' = [jobs EXCEPT ![j] = job] /\ UNCHANGED <<stockVars, catalogueVars>>
      /\ jobs[j].status = "NONE"
  BY DEF Preview
<1>2. <<>> \in Seq(WrittenRow)
  BY EmptySeq
<1>3. JobOK(job)
  BY <1>2 DEF JobOK, Job, Clean
<1>4. job.status \notin {"COMPLETED", "EXECUTING"}
  OBVIOUS
<1> HIDE DEF job
<1> QED
  BY <1>1, <1>3, <1>4, ChangingJob

\* An execution begins with nothing written, and ends so when it fails.
LEMMA BeginAndRollbackKeep ==
  ASSUME ImportsInv, NEW j \in Jobs, Begin(j) \/ Rollback(j)
  PROVE  ImportsInv'
<1> DEFINE x == jobs[j]
<1>1. JobOK(x) /\ <<>> \in Seq(WrittenRow) /\ x.status \in {"PREVIEWED", "EXECUTING"}
  BY EmptySeq DEF ImportsInv, Begin, Rollback
<1>2. WritesOK(<<>>)
  BY DEF WritesOK
<1>3. CASE Begin(j)
  <2> DEFINE job == [x EXCEPT !.status = "EXECUTING"]
  <2>1. jobs' = [jobs EXCEPT ![j] = job] /\ UNCHANGED <<stockVars, catalogueVars>> /\ x.status = "PREVIEWED"
    BY <1>3 DEF Begin, ImportsInv
  <2> HIDE DEF x
  <2>2. JobOK(job) /\ job.status = "EXECUTING" /\ job.written = <<>>
    BY <1>1, <2>1 DEF JobOK, Job
  <2> HIDE DEF job
  <2> QED
    <3>1. WritesOK(job.written) /\ DOMAIN job.written = {}
      BY <1>2, <2>2
    <3> QED
      BY <2>1, <2>2, <3>1, ChangingJob DEF x
<1>4. CASE Rollback(j)
  <2> DEFINE y == [x EXCEPT !.status = "PREVIEWED"]
             job == [y EXCEPT !.written = <<>>]
  <2>1. jobs' = [jobs EXCEPT ![j] = job] /\ UNCHANGED <<stockVars, catalogueVars>>
    <3>1. j \in DOMAIN jobs
      BY DEF ImportsInv
    <3>2. [jobs EXCEPT ![j].status = "PREVIEWED", ![j].written = <<>>] = [jobs EXCEPT ![j] = job]
      BY <3>1
    <3> QED
      BY <1>4, <3>2 DEF Rollback
  <2> HIDE DEF x
  <2>2. /\ y \in Job /\ y.status = "PREVIEWED" /\ y.file = x.file
        /\ y.file \in Files /\ \A n \in DOMAIN y.file : Valid(y.file[n])
    BY <1>1 DEF JobOK, Job
  <2> HIDE DEF y
  <2>3. job \in Job /\ job.status = "PREVIEWED" /\ job.file = y.file /\ job.written = <<>>
    BY <1>1, <2>2 DEF Job
  <2> HIDE DEF job
  <2>4. JobOK(job)
    BY <2>2, <2>3 DEF JobOK
  <2> QED
    BY <1>1, <2>1, <2>3, <2>4, ChangingJob DEF x
<1> QED
  BY <1>3, <1>4

\* An item that is found is one.
LEMMA FoundAreItems ==
  ASSUME ImportsInv, NEW j \in Jobs, NEW code
  PROVE  Found(j, code) \subseteq Items
<1>1. Coded(code) \subseteq Items
  BY DEF Coded, Existing
<1>2. \A w \in Written(j) : w \in WrittenRow
  BY OfWritten DEF ImportsInv, Written
<1>3. \A w \in Written(j) : w.kind = "ITEM" => w.item \in Items
  BY <1>2, KindOfRow
<1> QED
  BY <1>1, <1>3 DEF Found

\* What executeRow inserts of a valid row.
LEMMA InsertionsAreRows ==
  ASSUME ImportsInv, NEW j \in Jobs, NEW r \in FileRow, Valid(r), NEW w \in Insertions(j, r)
  PROVE  w \in WrittenRow
<1>1. CASE r \in [kind : {"PARTY"}, party : Parties, customer : BOOLEAN]
  <2>1. w = [kind |-> "PARTY", party |-> r.party, customer |-> r.customer]
    BY <1>1 DEF Insertions
  <2> QED
    BY <1>1, <2>1 DEF WrittenRow
<1>2. CASE r \in [kind : {"ITEM"}, code : Names, offer : Offer]
  <2>1. PICK i \in Items : w = [kind |-> "ITEM", item |-> i, offer |-> r.offer]
    BY <1>2 DEF Insertions
  <2> QED
    BY <1>2, <2>1 DEF WrittenRow
<1>3. CASE r \in [kind : {"STOCK"}, warehouse : Warehouses, code : Names, qty : Int]
  <2>1. PICK i \in Found(j, r.code) :
          w = [kind |-> "STOCK", warehouse |-> r.warehouse, item |-> i, qty |-> r.qty]
    BY <1>3 DEF Insertions
  <2>2. i \in Items /\ r.qty \in Nat \ {0}
    BY <1>3, FoundAreItems DEF Valid
  <2> QED
    BY <1>3, <2>1, <2>2 DEF WrittenRow
<1>4. CASE r \in [kind : {"PRICE"}, list : PriceLists, code : Names, minimum : Int, price : Int,
                  limit : Int, from : Int, until : Int, default : BOOLEAN]
  <2>1. PICK i \in Found(j, r.code) :
          w = [kind |-> "PRICE", list |-> r.list, item |-> i, minimum |-> r.minimum,
               price |-> r.price, limit |-> r.limit, from |-> r.from, until |-> r.until,
               newList |-> ~ListFound(j, r.list), default |-> r.default]
    BY <1>4 DEF Insertions
  <2>2. i \in Items /\ (~ListFound(j, r.list)) \in BOOLEAN
    BY FoundAreItems DEF ListFound
  <2> QED
    BY <1>4, <2>1, <2>2 DEF WrittenRow
<1> QED
  BY <1>1, <1>2, <1>3, <1>4 DEF FileRow

\* One row more is new to the tables, to the job and to every other job.
LEMMA WritingRowKeeps ==
  ASSUME ImportsInv, NEW j \in Jobs, ExecuteRow(j)
  PROVE  ImportsInv'
<1> DEFINE x == jobs[j]
           W == x.written
           r == x.file[Len(W) + 1]
<1>1. /\ x.status = "EXECUTING" /\ Len(W) + 1 \in DOMAIN x.file
      /\ UNCHANGED <<stockVars, catalogueVars>>
  BY DEF ExecuteRow
<1>2. PICK w \in Insertions(j, r) :
        /\ Holds(w) \cap (Committed \cup Held(Jobs \ {j})) = {}
        /\ w.kind # "STOCK" => Holds(w) \cap HeldBy(j) = {}
        /\ jobs' = [jobs EXCEPT ![j] = [x EXCEPT !.written = Append(W, w)]]
  <2>1. j \in DOMAIN jobs
    BY DEF ImportsInv
  <2> QED
    BY <2>1 DEF ExecuteRow
<1>3. JobOK(x) /\ j \in Running /\ WritesOK(W)
  BY <1>1 DEF ImportsInv, Running
<1>4. r \in FileRow /\ Valid(r)
  <2>1. \A n \in DOMAIN x.file : x.file[n] \in FileRow /\ Valid(x.file[n])
    BY <1>1, <1>3, OfFile DEF JobOK
  <2> QED
    BY <1>1, <2>1
<1>5. w \in WrittenRow
  BY <1>2, <1>4, InsertionsAreRows
<1>6. /\ W \in Seq(WrittenRow) /\ DOMAIN W = 1 .. Len(W) /\ Len(W) \in Nat
      /\ \A n \in DOMAIN W : W[n] \in WrittenRow
  BY <1>3, OfWritten
<1> DEFINE V == Append(W, w)
           job == [x EXCEPT !.written = V]
<1>7. /\ V \in Seq(WrittenRow) /\ DOMAIN V = 1 .. Len(W) + 1
      /\ V[Len(W) + 1] = w /\ \A n \in 1 .. Len(W) : V[n] = W[n]
  BY <1>5, <1>6, AppendProperties
<1>8. \A n \in DOMAIN W : Holds(W[n]) \subseteq HeldBy(j)
  BY <1>3, WrittenIsHeld
<1>9. \A n \in DOMAIN V : (n = Len(W) + 1 /\ V[n] = w) \/ (n \in DOMAIN W /\ V[n] = W[n])
  BY <1>6, <1>7
<1> HIDE DEF W, V, r
<1>10. WritesOK(V)
  <2>1. w.kind = "ITEM" =>
          /\ items[w.item] = NoItem
          /\ \A n \in DOMAIN W : W[n].kind = "ITEM" => W[n].item # w.item
    <3> SUFFICES ASSUME w.kind = "ITEM"
                 PROVE  /\ items[w.item] = NoItem
                        /\ \A n \in DOMAIN W : W[n].kind = "ITEM" => W[n].item # w.item
      OBVIOUS
    <3>1. <<"item", w.item>> \in Holds(w) /\ w.item \in Items
      BY <1>5, RowHoldsItsOwn, KindOfRow
    <3>2. items[w.item] = NoItem
      BY <1>2, <3>1, ItemIsCommitted
    <3>3. \A n \in DOMAIN W : W[n].kind = "ITEM" => <<"item", W[n].item>> \in HeldBy(j)
      BY <1>3, WrittenIsHeld DEF W
    <3>4. <<"item", w.item>> \notin HeldBy(j)
      BY <1>2, <3>1
    <3> QED
      BY <3>2, <3>3, <3>4
  <2>2. w.kind = "PARTY" =>
          /\ parties[w.party].status = "NONE"
          /\ \A n \in DOMAIN W : W[n].kind = "PARTY" => W[n].party # w.party
    <3> SUFFICES ASSUME w.kind = "PARTY"
                 PROVE  /\ parties[w.party].status = "NONE"
                        /\ \A n \in DOMAIN W : W[n].kind = "PARTY" => W[n].party # w.party
      OBVIOUS
    <3>1. <<"party", w.party>> \in Holds(w) /\ w.party \in Parties
      BY <1>5, RowHoldsItsOwn, KindOfRow
    <3>2. parties[w.party].status = "NONE"
      BY <1>2, <3>1, PartyIsCommitted
    <3>3. \A n \in DOMAIN W : W[n].kind = "PARTY" => <<"party", W[n].party>> \in HeldBy(j)
      BY <1>3, WrittenIsHeld DEF W
    <3>4. <<"party", w.party>> \notin HeldBy(j)
      BY <1>2, <3>1
    <3> QED
      BY <3>2, <3>3, <3>4
  <2> QED
    BY <1>3, <1>9, <2>1, <2>2 DEF WritesOK
<1>11. \A n \in DOMAIN V : Holds(V[n]) \cap Held(Jobs \ {j}) = {}
  <2>1. \A k \in Running \ {j} : HeldBy(j) \cap HeldBy(k) = {}
    BY <1>3 DEF ImportsInv
  <2>2. HeldBy(j) \cap Held(Jobs \ {j}) = {}
    BY <2>1 DEF Held
  <2> QED
    BY <1>2, <1>8, <1>9, <2>2
<1> HIDE DEF x
<1>12. /\ JobOK(job) /\ job.status = "EXECUTING" /\ job.written = V
  BY <1>1, <1>3, <1>7 DEF JobOK, Job
<1>13. jobs' = [jobs EXCEPT ![j] = job]
  BY <1>2 DEF V
<1> HIDE DEF job
<1> QED
  BY <1>1, <1>10, <1>11, <1>12, <1>13, ChangingJob DEF x
-----------------------------------------------------------------------------
(* What an execution writes comes into the tables when it commits.         *)

StockRow(j, w, n) ==
  [key |-> <<"import", j, n>>, warehouse |-> w.warehouse, direction |-> Receipt,
   lines |-> <<[item |-> w.item, qty |-> w.qty]>>]

OpeningRows(W, v, i) == {n \in Rows(W, "STOCK") : W[n].warehouse = v /\ W[n].item = i}

LEMMA OpeningIsSummed ==
  ASSUME NEW W, IsFiniteSet(DOMAIN W), NEW v, NEW i
  PROVE  OpeningQty(W, v, i) = SumOver(QtyOf(W), OpeningRows(W, v, i))
<1> DEFINE D == OpeningRows(W, v, i)
           Sums(g) == g = [T \in SUBSET D |->
             IF T = {} THEN 0 ELSE W[Chosen(T)].qty + g[T \ {Chosen(T)}]]
           k == CHOOSE g : Sums(g)
<1>1. OpeningQty(W, v, i) = k[D]
  BY DEF OpeningQty, MapThenSumSet, MapThenFoldSet, Chosen, OpeningRows
<1>2. D \subseteq DOMAIN W /\ IsFiniteSet(D)
  BY FS_Subset, D \in SUBSET DOMAIN W DEF OpeningRows, Rows
<1> HIDE DEF D
<1>3. ASSUME NEW g PROVE Sums(g) <=> SumsWithin(QtyOf(W), D, g)
  <2>1. \A T \in SUBSET D : T # {} => QtyOf(W)[Chosen(T)] = W[Chosen(T)].qty
    BY <1>2, ChosenIsIn DEF QtyOf
  <2> QED
    BY <2>1 DEF SumsWithin
<1>4. SumsWithin(QtyOf(W), D, k)
  BY <1>2, <1>3, SumsExist
<1> HIDE DEF k
<1> QED
  BY <1>1, <1>2, <1>4, SumsAreOver, D \in SUBSET D DEF D

\* The one line of an opening balance.
LEMMA StockRowMoves ==
  ASSUME NEW j, NEW n, NEW w, w.item \in Items, w.qty \in Nat \ {0}, NEW m, m = StockRow(j, w, n)
  PROVE  /\ m.lines \in Lines /\ m.direction = Receipt /\ m.key = <<"import", j, n>>
         /\ \A v, i : Moved(m, v, i) = IF w.warehouse = v /\ w.item = i THEN w.qty ELSE 0
<1> DEFINE line == [item |-> w.item, qty |-> w.qty]
           lines == <<line>>
<1>1. /\ m.lines = lines /\ m.direction = 1 /\ m.key = <<"import", j, n>>
      /\ m.warehouse = w.warehouse
  BY DEF StockRow, Receipt
<1>2. line \in [item : Items, qty : Nat \ {0}] /\ line.item = w.item /\ line.qty = w.qty
  OBVIOUS
<1> HIDE DEF line
<1>3. lines \in Lines
  BY <1>2 DEF Lines
<1>4. DOMAIN lines = {1} /\ lines[1] = line
  OBVIOUS
<1> HIDE DEF lines
<1>5. ASSUME NEW i PROVE LineQty(lines, i) = IF w.item = i THEN w.qty ELSE 0
  <2>1. IsFiniteSet(DOMAIN lines)
    <3>1. IsFiniteSet({1})
      BY FS_Singleton
    <3> QED
      BY <1>4, <3>1
  <2>2. LineQty(lines, i) = SumOver(QtyOf(lines), LinesOf(lines, i))
    BY <2>1, LineQtyIsSum
  <2>3. QtyOf(lines)[1] = w.qty
    BY <1>2, <1>4 DEF QtyOf
  <2>4. LinesOf(lines, i) = IF w.item = i THEN {1} ELSE {}
    BY <1>2, <1>4 DEF LinesOf
  <2>5. SumOver(QtyOf(lines), {1}) = w.qty
    BY <2>3, SumOfOne
  <2> QED
    BY <2>2, <2>4, <2>5, SumOfNone
<1>6. ASSUME NEW v, NEW i
      PROVE  Moved(m, v, i) = IF w.warehouse = v /\ w.item = i THEN w.qty ELSE 0
  <2>1. Moved(m, v, i) = IF w.warehouse = v THEN 1 * LineQty(lines, i) ELSE 0
    BY <1>1 DEF Moved
  <2>2. LineQty(lines, i) \in Int
    BY <1>5
  <2> QED
    BY <1>5, <2>1, <2>2
<1> QED
  BY <1>1, <1>3, <1>6 DEF Receipt

\* Opening balances are posted all at once, each movement with its balance.
LEMMA OpeningKeepsLedger ==
  ASSUME StockLedger, NEW j, NEW W \in Seq(WrittenRow), WriteStock(j, W),
         \A n : ~\E m \in movements : m.key = <<"import", j, n>>
  PROVE  /\ StockLedger'
         /\ movements \subseteq movements'
         /\ \A m \in movements' \ movements : \E n \in Rows(W, "STOCK") : m.key = <<"import", j, n>>
         /\ \A n \in Rows(W, "STOCK") : \E m \in movements' : m.key = <<"import", j, n>>
<1> DEFINE S == Rows(W, "STOCK")
           h == [n \in S |-> StockRow(j, W[n], n)]
           New == ImageOf(h, S)
<1>1. DOMAIN W = 1 .. Len(W) /\ Len(W) \in Nat /\ \A n \in 1 .. Len(W) : W[n] \in WrittenRow
  BY LenProperties, ElementOfSeq
<1>2. IsFiniteSet(DOMAIN W) /\ S \in SUBSET DOMAIN W /\ IsFiniteSet(S)
  <2>1. IsFiniteSet(1 .. Len(W))
    BY <1>1, FS_Interval
  <2>2. S \in SUBSET (1 .. Len(W))
    BY <1>1 DEF Rows
  <2> QED
    BY <1>1, <2>1, <2>2, FS_Subset
<1>3. \A n \in S : W[n].item \in Items /\ W[n].qty \in Nat \ {0}
  BY <1>1, KindOfRow DEF Rows
<1>4. ASSUME NEW n \in S
      PROVE  /\ h[n].lines \in Lines /\ h[n].direction = Receipt /\ h[n].key = <<"import", j, n>>
             /\ \A v, i : Moved(h[n], v, i) =
                            IF W[n].warehouse = v /\ W[n].item = i THEN W[n].qty ELSE 0
  <2>1. h[n] = StockRow(j, W[n], n)
    OBVIOUS
  <2> HIDE DEF S, h
  <2> QED
    BY <1>3, <2>1, StockRowMoves
<1>5. movements' = movements \cup New
  <2>1. New = {StockRow(j, W[n], n) : n \in S}
    BY DEF ImageOf
  <2> QED
    BY <2>1 DEF WriteStock, StockRow
<1>6. balance' = [v \in Warehouses |-> [i \in Items |-> balance[v][i] + OpeningQty(W, v, i)]]
  BY DEF WriteStock, AfterOpening
<1> HIDE DEF h
<1>7. \A x, y \in S : h[x] = h[y] => x = y
  BY <1>4
<1>8. New \cap movements = {} /\ (\A n \in S : h[n] \in New) /\ \A y \in New : \E n \in S : y = h[n]
  BY <1>4 DEF ImageOf
<1>9. \A m \in movements' : m.direction \in {Receipt, Issue} /\ m.lines \in Lines
  BY <1>4, <1>5, <1>8 DEF StockLedger
<1>10. IsFiniteSet(New) /\ IsFiniteSet(movements')
  <2>1. IsFiniteSet(New)
    BY <1>2, <1>7, SumOfImages
  <2> QED
    BY <1>5, <2>1, FS_Union DEF StockLedger
<1>11. ASSUME NEW v \in Warehouses, NEW i \in Items
       PROVE  /\ OpeningQty(W, v, i) \in Int
              /\ SumOver(MovedIn(movements', v, i), New) = OpeningQty(W, v, i)
  <2> DEFINE O == OpeningRows(W, v, i)
             f == MovedIn(movements', v, i)
             g == [n \in S |-> IF n \in O THEN W[n].qty ELSE 0]
             q == QtyOf(W)
  <2>1. O \in SUBSET S /\ O \cup (S \ O) = S /\ O \cap (S \ O) = {}
    BY DEF OpeningRows
  <2>2. ASSUME NEW n \in S PROVE f[h[n]] \in Int /\ g[n] = f[h[n]]
    <3>1. h[n] \in movements'
      BY <1>5, <1>8
    <3>2. f[h[n]] = Moved(h[n], v, i)
      BY <3>1 DEF MovedIn
    <3>3. n \in O <=> W[n].warehouse = v /\ W[n].item = i
      BY DEF OpeningRows
    <3>4. g[n] = IF n \in O THEN W[n].qty ELSE 0
      OBVIOUS
    <3> HIDE DEF S, O, f, g
    <3>5. Moved(h[n], v, i) = IF W[n].warehouse = v /\ W[n].item = i THEN W[n].qty ELSE 0
      BY <1>4
    <3>6. f[h[n]] = g[n]
      BY <3>2, <3>3, <3>4, <3>5
    <3> QED
      BY <1>3, <3>4, <3>6
  <2>3. (\A n \in O : q[n] = g[n]) /\ (\A n \in S \ O : g[n] = 0) /\ \A n \in S : g[n] \in Int
    <3>1. \A n \in S : q[n] = W[n].qty
      BY <1>2 DEF QtyOf
    <3> QED
      BY <1>3, <2>1, <3>1
  <2>4. OpeningQty(W, v, i) = SumOver(q, O)
    BY <1>2, OpeningIsSummed
  <2> HIDE DEF S, O, f, g, q
  <2>5. SumOver(f, New) = SumOver(g, S)
    BY <1>2, <1>7, <2>2, SumOfImages
  <2>6. IsFiniteSet(O) /\ IsFiniteSet(S \ O)
    BY <1>2, <2>1, FS_Subset
  <2>7. SumOver(q, O) = SumOver(g, O) /\ SumOver(g, O) \in Int
    <3>1. \A n \in O : g[n] \in Int
      BY <2>1, <2>3
    <3> QED
      BY <2>3, <2>6, <3>1, SumOfSame, SumIsInt
  <2>8. SumOver(g, S \ O) = 0
    BY <2>3, <2>6, SumOfZeros
  <2>9. SumOver(g, S) = SumOver(g, O)
    <3>1. SumOver(g, O \cup (S \ O)) = SumOver(g, O) + SumOver(g, S \ O)
      BY <2>1, <2>3, <2>6, SumOfUnion
    <3>2. SumOver(g, O) + 0 = SumOver(g, O)
      BY <2>7
    <3> QED
      BY <2>1, <2>8, <3>1, <3>2
  <2> HIDE DEF New
  <2>10. SumOver(f, New) = OpeningQty(W, v, i) /\ OpeningQty(W, v, i) \in Int
    BY <2>4, <2>5, <2>7, <2>9
  <2> QED
    BY <2>10 DEF f
<1>12. ASSUME NEW v \in Warehouses, NEW i \in Items
       PROVE  balance'[v][i] \in Int /\ balance'[v][i] = TotalMoved(movements', v, i)
  <2> DEFINE f == MovedIn(movements', v, i)
             old == MovedIn(movements, v, i)
  <2>1. TotalMoved(movements', v, i) = SumOver(f, movements')
    BY <1>10, LedgerSum
  <2>2. \A m \in movements' : f[m] = Moved(m, v, i) /\ f[m] \in Int
    BY <1>9, MovedIsInt DEF MovedIn
  <2>3. \A m \in movements : f[m] = old[m]
    BY <1>5, <2>2 DEF MovedIn
  <2>4. SumOver(old, movements) = balance[v][i] /\ balance[v][i] \in Int
    BY LedgerSum DEF StockLedger, BalanceIsLedgerSum
  <2>5. SumOver(f, New) = OpeningQty(W, v, i) /\ OpeningQty(W, v, i) \in Int
    BY <1>11
  <2> HIDE DEF f, old, New
  <2>6. SumOver(f, movements) = SumOver(old, movements)
    BY <2>3, SumOfSame DEF StockLedger
  <2>7. SumOver(f, movements \cup New) = SumOver(f, movements) + SumOver(f, New)
    <3>1. \A m \in movements \cup New : f[m] \in Int
      BY <1>5, <2>2
    <3> QED
      BY <1>8, <1>10, <3>1, SumOfUnion DEF StockLedger
  <2>8. balance'[v][i] = balance[v][i] + OpeningQty(W, v, i)
    BY <1>6
  <2> QED
    BY <1>5, <2>1, <2>4, <2>5, <2>6, <2>7, <2>8
<1>13. balance' \in [Warehouses -> [Items -> Int]]
  <2>1. balance' = [v \in Warehouses |-> [i \in Items |-> balance'[v][i]]]
    BY <1>6
  <2> QED
    BY <1>12, <2>1
<1>14. StockLedger'
  BY <1>9, <1>10, <1>12, <1>13 DEF StockLedger, BalanceIsLedgerSum
<1> HIDE DEF New
<1> QED
  BY <1>4, <1>5, <1>8, <1>14
\* The rows of items, each for an item that had none.
LEMMA ItemsComeIn ==
  ASSUME CatalogueOK, NEW j \in Jobs, NEW W \in Seq(WrittenRow), WritesOK(W), WriteItems(j, W)
  PROVE  /\ items' \in [Items -> Item(Origins) \cup {NoItem}]
         /\ \A i \in Items :
              \/ items'[i] = items[i] /\ \A n \in Rows(W, "ITEM") : W[n].item # i
              \/ \E n \in Rows(W, "ITEM") :
                   /\ W[n].item = i /\ items[i] = NoItem
                   /\ items'[i] # NoItem /\ items'[i].origin = <<j, n>>
         /\ \A n \in Rows(W, "ITEM") : LET i == W[n].item
                                       IN  i \in Items /\ items'[i] # NoItem /\ items'[i].origin = <<j, n>>
<1> DEFINE S == Rows(W, "ITEM")
           n0(i) == CHOOSE n \in S : W[n].item = i
<1>1. DOMAIN W = 1 .. Len(W) /\ Len(W) \in Nat /\ \A n \in 1 .. Len(W) : W[n] \in WrittenRow
  BY LenProperties, ElementOfSeq
<1>2. \A n \in S : n \in Nat /\ W[n].item \in Items /\ W[n].offer \in Offer /\ items[W[n].item] = NoItem
  BY <1>1, KindOfRow DEF Rows, WritesOK
<1>3. \A m, n \in S : W[m].item = W[n].item => m = n
  BY DEF Rows, WritesOK
<1>4. ASSUME NEW n \in S, NEW y, y = ItemRow(W[n].offer, <<j, n>>)
      PROVE  y \in Item(Origins) /\ y # NoItem /\ y.origin = <<j, n>>
  <2>1. <<j, n>> \in Origins
    BY <1>2, OriginsDiffer
  <2>2. y.origin = <<j, n>>
    BY <1>4 DEF ItemRow
  <2> QED
    BY <1>2, <1>4, <2>1, <2>2, ItemRowIsItem
<1>5. items' = [i \in Items |-> IF \E n \in S : W[n].item = i
                                THEN ItemRow(W[n0(i)].offer, <<j, n0(i)>>) ELSE items[i]]
  BY DEF WriteItems
<1> HIDE DEF S, n0
<1>6. ASSUME NEW i \in Items
      PROVE  /\ items'[i] \in Item(Origins) \cup {NoItem}
             /\ \/ items'[i] = items[i] /\ \A n \in S : W[n].item # i
                \/ \E n \in S : /\ W[n].item = i /\ items[i] = NoItem
                                /\ items'[i] # NoItem /\ items'[i].origin = <<j, n>>
  <2>1. CASE \E n \in S : W[n].item = i
    <3>1. n0(i) \in S /\ W[n0(i)].item = i
      BY <2>1 DEF n0
    <3>2. items'[i] = ItemRow(W[n0(i)].offer, <<j, n0(i)>>)
      BY <1>5, <2>1
    <3> QED
      BY <1>2, <1>4, <3>1, <3>2
  <2>2. CASE ~\E n \in S : W[n].item = i
    <3>1. items'[i] = items[i]
      BY <1>5, <2>2
    <3> QED
      BY <2>2, <3>1 DEF CatalogueOK
  <2> QED
    BY <2>1, <2>2
<1>7. items' \in [Items -> Item(Origins) \cup {NoItem}]
  <2>1. items' = [i \in Items |-> items'[i]]
    BY <1>5
  <2> QED
    BY <1>6, <2>1
<1>8. \A n \in S : LET i == W[n].item
                   IN  i \in Items /\ items'[i] # NoItem /\ items'[i].origin = <<j, n>>
  BY <1>2, <1>3, <1>6
<1> QED
  BY <1>6, <1>7, <1>8 DEF S

\* The rows of parties, each for a document that had none.
LEMMA PartiesComeIn ==
  ASSUME CatalogueOK, NEW j \in Jobs, NEW W \in Seq(WrittenRow), WritesOK(W), WriteParties(j, W)
  PROVE  /\ parties' \in [Parties -> Party(Origins)]
         /\ \A p \in Parties :
              \/ parties'[p] = parties[p] /\ \A n \in Rows(W, "PARTY") : W[n].party # p
              \/ \E n \in Rows(W, "PARTY") :
                   /\ W[n].party = p /\ parties[p].status = "NONE"
                   /\ parties'[p].status = "active" /\ parties'[p].origin = <<j, n>>
         /\ \A n \in Rows(W, "PARTY") : W[n].party \in Parties /\ parties'[W[n].party].origin = <<j, n>>
<1> DEFINE S == Rows(W, "PARTY")
           n0(p) == CHOOSE n \in S : W[n].party = p
           row(n) == [status |-> "active", customer |-> W[n].customer, version |-> 1, origin |-> <<j, n>>,
                      profile |-> IF W[n].customer THEN "PLAIN" ELSE "NONE"]
<1>1. DOMAIN W = 1 .. Len(W) /\ Len(W) \in Nat /\ \A n \in 1 .. Len(W) : W[n] \in WrittenRow
  BY LenProperties, ElementOfSeq
<1>2. \A n \in S : /\ n \in Nat /\ W[n].party \in Parties /\ W[n].customer \in BOOLEAN
                   /\ parties[W[n].party].status = "NONE"
  BY <1>1, KindOfRow DEF Rows, WritesOK
<1>3. \A m, n \in S : W[m].party = W[n].party => m = n
  BY DEF Rows, WritesOK
<1>4. ASSUME NEW n \in S, NEW y, y = row(n)
      PROVE  y \in Party(Origins) /\ y.status = "active" /\ y.origin = <<j, n>>
  <2>1. <<j, n>> \in Origins
    BY <1>2, OriginsDiffer
  <2> QED
    BY <1>2, <1>4, <2>1 DEF Party
<1>5. parties' = [p \in Parties |-> IF \E n \in S : W[n].party = p THEN row(n0(p)) ELSE parties[p]]
  BY DEF WriteParties
<1> HIDE DEF S, n0, row
<1>6. ASSUME NEW p \in Parties
      PROVE  /\ parties'[p] \in Party(Origins)
             /\ \/ parties'[p] = parties[p] /\ \A n \in S : W[n].party # p
                \/ \E n \in S : /\ W[n].party = p /\ parties[p].status = "NONE"
                                /\ parties'[p].status = "active" /\ parties'[p].origin = <<j, n>>
  <2>1. CASE \E n \in S : W[n].party = p
    <3>1. n0(p) \in S /\ W[n0(p)].party = p
      BY <2>1 DEF n0
    <3>2. parties'[p] = row(n0(p))
      BY <1>5, <2>1
    <3> QED
      BY <1>2, <1>4, <3>1, <3>2
  <2>2. CASE ~\E n \in S : W[n].party = p
    <3>1. parties'[p] = parties[p]
      BY <1>5, <2>2
    <3> QED
      BY <2>2, <3>1 DEF CatalogueOK
  <2> QED
    BY <2>1, <2>2
<1>7. parties' \in [Parties -> Party(Origins)]
  <2>1. parties' = [p \in Parties |-> parties'[p]]
    BY <1>5
  <2> QED
    BY <1>6, <2>1
<1>8. \A n \in S : W[n].party \in Parties /\ parties'[W[n].party].origin = <<j, n>>
  BY <1>2, <1>3, <1>6
<1> QED
  BY <1>6, <1>7, <1>8 DEF S

\* The rows of prices, with the lists they are the first of.
LEMMA PricesComeIn ==
  ASSUME CatalogueOK, NEW j \in Jobs, NEW W \in Seq(WrittenRow), WritePrices(j, W)
  PROVE  /\ lists' \in [PriceLists -> ListStatus]
         /\ entries \subseteq entries' /\ entries' \subseteq Entry(Origins)
         /\ \A e \in entries' \ entries : \E n \in Rows(W, "PRICE") : e.origin = <<j, n>>
         /\ \A n \in Rows(W, "PRICE") : \E e \in entries' : e.origin = <<j, n>>
<1> DEFINE S == Rows(W, "PRICE")
<1>1. DOMAIN W = 1 .. Len(W) /\ Len(W) \in Nat /\ \A n \in 1 .. Len(W) : W[n] \in WrittenRow
  BY LenProperties, ElementOfSeq
<1>2. ASSUME NEW n \in S
      PROVE  TierOf(W[n].list, W[n], <<j, n>>) \in Entry(Origins) /\
             TierOf(W[n].list, W[n], <<j, n>>).origin = <<j, n>>
  <2>1. W[n] \in WrittenRow /\ W[n].kind = "PRICE" /\ n \in Nat
    BY <1>1 DEF Rows
  <2>2. <<j, n>> \in Origins
    BY <2>1, OriginsDiffer
  <2>3. /\ W[n].list \in PriceLists /\ W[n].item \in Items /\ W[n].minimum \in Int
        /\ W[n].price \in Int /\ W[n].limit \in Int /\ W[n].from \in Int /\ W[n].until \in Int
    BY <2>1, KindOfRow
  <2> QED
    BY <2>2, <2>3 DEF TierOf, Entry
<1>3. entries' = entries \cup {TierOf(W[n].list, W[n], <<j, n>>) : n \in S}
  BY DEF WritePrices
<1>4. lists' \in [PriceLists -> ListStatus]
  BY DEF WritePrices, CatalogueOK, ListStatus
<1> HIDE DEF S
<1>5. entries' \subseteq Entry(Origins)
  BY <1>2, <1>3 DEF CatalogueOK
<1> QED
  BY <1>2, <1>3, <1>4, <1>5 DEF S

\* The row of the job that commits.
LEMMA CompletedJob ==
  ASSUME NEW x, JobOK(x), x.status = "EXECUTING", NEW y, y = [x EXCEPT !.status = "COMPLETED"]
  PROVE  JobOK(y) /\ y.status = "COMPLETED" /\ y.file = x.file /\ y.written = x.written
  BY DEF JobOK, Job

\* A commit writes every row of its file, and touches nothing another job holds.
LEMMA CommittingKeeps ==
  ASSUME CatalogueOK, StockLedger, ImportsInv, NEW j \in Jobs, Commit(j)
  PROVE  CatalogueOK' /\ StockLedger' /\ ImportsInv'
<1> DEFINE x == jobs[j]
           W == x.written
           y == [x EXCEPT !.status = "COMPLETED"]
<1>1. /\ x.status = "EXECUTING" /\ Len(W) = Len(x.file) /\ j \in Running
      /\ WriteItems(j, W) /\ WriteParties(j, W) /\ WritePrices(j, W) /\ WriteStock(j, W)
  BY DEF Commit, WriteTables, Running
<1>2. JobOK(x) /\ WritesOK(W) /\ \A n : ~MadeBy(j, n)
  BY <1>1 DEF ImportsInv, OriginsOK
<1>3. /\ W \in Seq(WrittenRow) /\ DOMAIN W = 1 .. Len(W) /\ DOMAIN x.file = DOMAIN W
      /\ \A n \in DOMAIN W : W[n].kind \in {"PARTY", "ITEM", "STOCK", "PRICE"}
  <2>1. /\ W \in Seq(WrittenRow) /\ DOMAIN W = 1 .. Len(W)
        /\ \A n \in DOMAIN W : W[n] \in WrittenRow
    BY <1>2, OfWritten
  <2>2. DOMAIN x.file = 1 .. Len(x.file)
    BY <1>1, <1>2, OfFile
  <2> QED
    BY <1>1, <2>1, <2>2, KindOfRow
<1>4. jobs' = [jobs EXCEPT ![j] = y]
  BY DEF Commit, ImportsInv
<1>5. JobOK(y) /\ y.status = "COMPLETED" /\ y.file = x.file /\ y.written = W
  BY <1>1, <1>2, CompletedJob
<1>6. \A k \in Jobs : jobs'[k] = IF k = j THEN y ELSE jobs[k]
  BY <1>4 DEF ImportsInv
<1> HIDE DEF y, W, x
<1>7. /\ items' \in [Items -> Item(Origins) \cup {NoItem}]
      /\ \A i \in Items :
           \/ items'[i] = items[i] /\ \A n \in Rows(W, "ITEM") : W[n].item # i
           \/ \E n \in Rows(W, "ITEM") :
                /\ W[n].item = i /\ items[i] = NoItem
                /\ items'[i] # NoItem /\ items'[i].origin = <<j, n>>
      /\ \A n \in Rows(W, "ITEM") : \E i \in Items : items'[i] # NoItem /\ items'[i].origin = <<j, n>>
  BY <1>1, <1>2, <1>3, ItemsComeIn
<1>8. /\ parties' \in [Parties -> Party(Origins)]
      /\ \A p \in Parties :
           \/ parties'[p] = parties[p] /\ \A n \in Rows(W, "PARTY") : W[n].party # p
           \/ \E n \in Rows(W, "PARTY") :
                /\ W[n].party = p /\ parties[p].status = "NONE"
                /\ parties'[p].status = "active" /\ parties'[p].origin = <<j, n>>
      /\ \A n \in Rows(W, "PARTY") : \E p \in Parties : parties'[p].origin = <<j, n>>
  BY <1>1, <1>2, <1>3, PartiesComeIn
<1>9. /\ lists' \in [PriceLists -> ListStatus]
      /\ entries \subseteq entries' /\ entries' \subseteq Entry(Origins)
      /\ \A e \in entries' \ entries : \E n \in Rows(W, "PRICE") : e.origin = <<j, n>>
      /\ \A n \in Rows(W, "PRICE") : \E e \in entries' : e.origin = <<j, n>>
  BY <1>1, <1>3, PricesComeIn
<1>10. /\ StockLedger'
       /\ movements \subseteq movements'
       /\ \A m \in movements' \ movements : \E n \in Rows(W, "STOCK") : m.key = <<"import", j, n>>
       /\ \A n \in Rows(W, "STOCK") : \E m \in movements' : m.key = <<"import", j, n>>
  <2>1. \A n : ~\E m \in movements : m.key = <<"import", j, n>>
    BY <1>2 DEF MadeBy
  <2> QED
    BY <1>1, <1>3, <2>1, OpeningKeepsLedger
<1>11. CatalogueOK'
  BY <1>7, <1>8, <1>9 DEF CatalogueOK
<1>12. ASSUME NEW n \in DOMAIN W PROVE MadeBy(j, n)'
  <2>1. n \in Rows(W, "PARTY") \cup Rows(W, "ITEM") \cup Rows(W, "STOCK") \cup Rows(W, "PRICE")
    BY <1>3, <1>12 DEF Rows
  <2>2. CASE n \in Rows(W, "ITEM")
    <3>1. \E i \in Existing' : items'[i].origin = <<j, n>>
      BY <1>7, <2>2 DEF Existing
    <3> QED
      BY <3>1 DEF MadeBy
  <2> QED
    BY <1>8, <1>9, <1>10, <2>1, <2>2 DEF MadeBy
<1>13. ASSUME NEW k \in Jobs, k # j, NEW n PROVE MadeBy(k, n)' <=> MadeBy(k, n)
  <2>1. \A m : <<k, n>> # <<j, m>> /\ <<"import", k, n>> # <<"import", j, m>>
    BY <1>13
  <2>2. (\E i \in Existing' : items'[i].origin = <<k, n>>) <=>
          \E i \in Existing : items[i].origin = <<k, n>>
    BY <1>7, <2>1 DEF Existing
  <2>3. (\E p \in Parties : parties'[p].origin = <<k, n>>) <=>
          \E p \in Parties : parties[p].origin = <<k, n>>
    <3>1. \A p \in Parties : parties[p].status = "NONE" => parties[p].origin # <<k, n>>
      BY OriginsDiffer DEF ImportsInv
    <3>2. \A p \in Parties : parties'[p].origin = <<k, n>> <=> parties[p].origin = <<k, n>>
      BY <1>8, <2>1, <3>1
    <3> QED
      BY <3>2
  <2>4. (\E e \in entries' : e.origin = <<k, n>>) <=> \E e \in entries : e.origin = <<k, n>>
    BY <1>9, <2>1
  <2>5. (\E m \in movements' : m.key = <<"import", k, n>>) <=>
          \E m \in movements : m.key = <<"import", k, n>>
    BY <1>10, <2>1
  <2> QED
    BY <2>2, <2>3, <2>4, <2>5 DEF MadeBy
<1>14. ASSUME NEW k \in Jobs, NEW i \in Existing', NEW m \in Existing',
              items'[i].origin = items'[m].origin, items'[i].origin[1] = k
       PROVE  i = m
  <2>1. i \in Items /\ m \in Items
    BY DEF Existing
  <2>2. ASSUME NEW a \in Items, items'[a] = items[a], items'[a] # NoItem, NEW n
        PROVE  items'[a].origin # <<j, n>>
    BY <1>2, <2>2 DEF MadeBy, Existing
  <2>3. CASE items'[i] = items[i] /\ items'[m] = items[m]
    BY <1>14, <2>1, <2>3 DEF ImportsInv, OriginsOK, Existing
  <2>4. CASE ~(items'[i] = items[i] /\ items'[m] = items[m])
    <3>1. PICK n \in Rows(W, "ITEM") : items'[i].origin = <<j, n>>
      BY <1>7, <1>14, <2>1, <2>4
    <3>2. items'[m].origin = <<j, n>> /\ items'[i] # NoItem /\ items'[m] # NoItem
      BY <1>14, <3>1 DEF Existing
    <3>3. \E a \in Rows(W, "ITEM") : W[a].item = i /\ items'[i].origin = <<j, a>>
      BY <1>7, <2>1, <2>2, <3>1, <3>2
    <3>4. \E a \in Rows(W, "ITEM") : W[a].item = m /\ items'[m].origin = <<j, a>>
      BY <1>7, <2>1, <2>2, <3>2
    <3>5. W[n].item = i
      BY <3>1, <3>3
    <3>6. W[n].item = m
      BY <3>2, <3>4
    <3> QED
      BY <3>5, <3>6
  <2> QED
    BY <2>3, <2>4
<1>15. ASSUME NEW k \in Jobs PROVE JobOK(jobs[k])' /\ OriginsOK(k)'
  <2>1. JobOK(jobs[k])'
    BY <1>5, <1>6 DEF ImportsInv, JobOK
  <2>2. CASE k = j
    <3>1. jobs'[k].status = "COMPLETED" /\ DOMAIN jobs'[k].file = DOMAIN W
      BY <1>3, <1>5, <1>6, <2>2
    <3> QED
      BY <1>12, <1>14, <2>1, <2>2, <3>1 DEF OriginsOK
  <2>3. CASE k # j
    <3>1. jobs'[k] = jobs[k] /\ OriginsOK(k)
      BY <1>6, <2>3 DEF ImportsInv
    <3> QED
      BY <1>13, <1>14, <2>1, <2>3, <3>1 DEF OriginsOK
  <2> QED
    BY <2>2, <2>3
<1>16. \A p \in Parties : parties'[p].status = "NONE" => parties'[p].origin = User
  BY <1>8 DEF ImportsInv
<1>17. ASSUME NEW k \in Running'
       PROVE  k \in Running /\ k # j /\ jobs'[k] = jobs[k] /\ HeldBy(k)' = HeldBy(k)
  <2>1. k \in Jobs /\ jobs'[k].status = "EXECUTING"
    BY DEF Running
  <2>2. k # j /\ jobs'[k] = jobs[k]
    BY <1>5, <1>6, <2>1
  <2>3. HeldBy(k)' = HeldBy(k)
    BY <2>2, HeldByRows
  <2>4. k \in Running
    BY <2>1, <2>2 DEF Running
  <2> QED
    BY <2>2, <2>3, <2>4
<1>18. ASSUME NEW k \in Running' PROVE WritesOK(jobs[k].written)'
  <2> DEFINE V == jobs[k].written
  <2>1. k \in Running /\ k # j /\ WritesOK(V) /\ V' = V /\ \A n \in DOMAIN V : V[n] \in WrittenRow
    BY <1>17, OfWritten DEF ImportsInv, Running
  <2>2. HeldBy(j) \cap HeldBy(k) = {}
    BY <1>1, <2>1 DEF ImportsInv
  <2>3. ASSUME NEW n \in DOMAIN V, V[n].kind = "ITEM" PROVE items'[V[n].item] = NoItem
    <3>1. V[n].item \in Items /\ items[V[n].item] = NoItem
      BY <2>1, <2>3, KindOfRow DEF WritesOK
    <3>2. <<"item", V[n].item>> \in HeldBy(k)
      BY <2>1, <2>3, WrittenIsHeld
    <3>3. \A m \in Rows(W, "ITEM") : <<"item", W[m].item>> \in HeldBy(j)
      BY <1>1, WrittenIsHeld DEF Rows, W, x
    <3> QED
      BY <1>7, <2>2, <3>1, <3>2, <3>3
  <2>4. ASSUME NEW n \in DOMAIN V, V[n].kind = "PARTY" PROVE parties'[V[n].party].status = "NONE"
    <3>1. V[n].party \in Parties /\ parties[V[n].party].status = "NONE"
      BY <2>1, <2>4, KindOfRow DEF WritesOK
    <3>2. <<"party", V[n].party>> \in HeldBy(k)
      BY <2>1, <2>4, WrittenIsHeld
    <3>3. \A m \in Rows(W, "PARTY") : <<"party", W[m].party>> \in HeldBy(j)
      BY <1>1, WrittenIsHeld DEF Rows, W, x
    <3> QED
      BY <1>8, <2>2, <3>1, <3>2, <3>3
  <2> HIDE DEF V
  <2> QED
    BY <2>1, <2>3, <2>4 DEF WritesOK, V
<1>19. \A k, m \in Running' : k # m => HeldBy(k)' \cap HeldBy(m)' = {}
  BY <1>17 DEF ImportsInv
<1>20. jobs' = [k \in Jobs |-> jobs'[k]]
  BY <1>4 DEF ImportsInv
<1> QED
  BY <1>10, <1>11, <1>15, <1>16, <1>18, <1>19, <1>20 DEF ImportsInv

-----------------------------------------------------------------------------
(* The four invariants together.                                           *)

CommerceInv == CatalogueOK /\ StockLedger /\ PapersInv /\ ImportsInv

LEMMA TablesStay ==
  CatalogueOK /\ StockLedger /\ UNCHANGED <<stockVars, catalogueVars>> => CatalogueOK' /\ StockLedger'
<1> SUFFICES ASSUME CatalogueOK, StockLedger, UNCHANGED <<stockVars, catalogueVars>>
             PROVE  CatalogueOK' /\ StockLedger'
  OBVIOUS
<1>1. UNCHANGED <<balance, movements, items, lists, entries, parties>>
  BY DEF stockVars, catalogueVars
<1> QED
  BY <1>1 DEF CatalogueOK, StockLedger, BalanceIsLedgerSum

LEMMA ImportsStay ==
  ImportsInv /\ UNCHANGED <<stockVars, catalogueVars, jobs>> => ImportsInv'
<1> SUFFICES ASSUME ImportsInv, UNCHANGED <<stockVars, catalogueVars, jobs>>
             PROVE  ImportsInv'
  OBVIOUS
<1>1. UNCHANGED <<movements, items, lists, entries, parties, jobs>>
  BY DEF stockVars, catalogueVars
<1>2. Running' = Running /\ \A k : HeldBy(k)' = HeldBy(k)
  <2>1. ASSUME NEW k PROVE HeldBy(k)' = HeldBy(k)
    BY <1>1, HeldByRows
  <2> QED
    BY <1>1, <2>1 DEF Running
<1>3. \A k, n : MadeBy(k, n)' <=> MadeBy(k, n)
  BY <1>1 DEF MadeBy, Existing
<1>4. \A k \in Jobs : JobOK(jobs[k])' /\ OriginsOK(k)'
  BY <1>1, <1>3 DEF ImportsInv, JobOK, OriginsOK, Existing
<1>5. \A k \in Running : WritesOK(jobs[k].written)'
  BY <1>1 DEF ImportsInv, WritesOK
<1> QED
  BY <1>1, <1>2, <1>4, <1>5 DEF ImportsInv

LEMMA ImportsKeep ==
  ASSUME CatalogueOK, StockLedger, ImportsInv, ImportsNext
  PROVE  CatalogueOK' /\ StockLedger' /\ ImportsInv'
<1>1. PICK j \in Jobs : \/ \E file \in Files : Preview(j, file)
                        \/ Begin(j) \/ ExecuteRow(j) \/ Commit(j) \/ Rollback(j)
  BY DEF ImportsNext
<1>2. CASE \E file \in Files : Preview(j, file)
  BY <1>2, PreviewKeeps, TablesStay DEF Preview
<1>3. CASE Begin(j) \/ Rollback(j)
  BY <1>3, BeginAndRollbackKeep, TablesStay DEF Begin, Rollback
<1>4. CASE ExecuteRow(j)
  BY <1>4, WritingRowKeeps, TablesStay DEF ExecuteRow
<1>5. CASE Commit(j)
  BY <1>5, CommittingKeeps
<1> QED
  BY <1>1, <1>2, <1>3, <1>4, <1>5

\* A company starts with a catalogue of its users, and no paper or job.
LEMMA CommerceInitInv == CommerceInit => CommerceInv
<1> SUFFICES ASSUME CommerceInit PROVE CommerceInv
  OBVIOUS
<1>1. /\ items \in [Items -> Item({User}) \cup {NoItem}]
      /\ lists \in [PriceLists -> ListStatus]
      /\ entries \subseteq Entry({User})
      /\ parties \in [Parties -> Party({User})]
  BY CommerceAssumption DEF CommerceInit
<1>2. /\ Item({User}) \subseteq Item(Origins)
      /\ Entry({User}) \subseteq Entry(Origins)
      /\ Party({User}) \subseteq Party(Origins)
  BY OriginsDiffer DEF Item, Entry, Party
<1>3. CatalogueOK
  BY <1>1, <1>2 DEF CatalogueOK
<1>4. StockLedger /\ movements = {}
  BY InitStockLedger DEF CommerceInit, StockInit
<1>5. PapersInv
  BY DEF CommerceInit, QuotationsInit, PapersInv, Papers
<1>6. ImportsInv
  <2>1. \A i \in Existing : items[i].origin = User
    BY <1>1 DEF Existing, Item
  <2>2. \A p \in Parties : parties[p].origin = User
    BY <1>1 DEF Party
  <2>3. \A e \in entries : e.origin = User
    BY <1>1 DEF Entry
  <2>4. jobs = [j \in Jobs |-> NoJob]
    BY DEF CommerceInit, ImportsInit
  <2>5. <<>> \in Seq(WrittenRow)
    BY EmptySeq
  <2>6. JobOK(NoJob) /\ NoJob.status = "NONE"
    BY <2>5 DEF JobOK, Job, NoJob
  <2>7. \A j \in Jobs : \A n : ~MadeBy(j, n)
    BY <1>4, <2>1, <2>2, <2>3, OriginsDiffer DEF MadeBy
  <2>8. \A j \in Jobs, i \in Existing : items[i].origin[1] # j
    BY <2>1, OriginsDiffer
  <2>9. \A j \in Jobs : OriginsOK(j)
    BY <2>4, <2>6, <2>7, <2>8 DEF OriginsOK
  <2>10. Running = {}
    BY <2>4, <2>6 DEF Running
  <2>11. \A j \in Jobs : JobOK(jobs[j])
    BY <2>4, <2>6
  <2>12. jobs = [j \in Jobs |-> jobs[j]]
    BY <2>4
  <2> QED
    BY <2>2, <2>9, <2>10, <2>11, <2>12 DEF ImportsInv
<1> QED
  BY <1>3, <1>4, <1>5, <1>6 DEF CommerceInv

LEMMA CommerceStep == CommerceInv /\ [CommerceNext]_commerceVars => CommerceInv'
<1> SUFFICES ASSUME CommerceInv, [CommerceNext]_commerceVars PROVE CommerceInv'
  OBVIOUS
<1>1. CatalogueOK /\ StockLedger /\ PapersInv /\ ImportsInv
  BY DEF CommerceInv
<1>2. CASE OtherRequests
  <2>1. CatalogueOK' /\ StockLedger' /\ ByUsers
    BY <1>1, <1>2, OthersAreUsers
  <2>2. UNCHANGED quotationVars /\ UNCHANGED jobs
    BY <1>2 DEF OtherRequests
  <2> QED
    BY <1>1, <2>1, <2>2, UsersMakeTheirs, PapersStay DEF CommerceInv
<1>3. CASE QuotationsNext /\ UNCHANGED <<jobs, mix>>
  <2>1. UNCHANGED <<stockVars, catalogueVars>>
    BY <1>3 DEF QuotationsNext
  <2> QED
    BY <1>1, <1>3, <2>1, TablesStay, ImportsStay, QuotationsKeepPapers DEF CommerceInv
<1>4. CASE ImportsNext /\ UNCHANGED <<quotationVars, mix>>
  BY <1>1, <1>4, ImportsKeep, PapersStay DEF CommerceInv
<1>5. CASE UNCHANGED commerceVars
  BY <1>1, <1>5, TablesStay, ImportsStay, PapersStay DEF CommerceInv, commerceVars
<1> QED
  BY <1>2, <1>3, <1>4, <1>5 DEF CommerceNext

LEMMA CommerceInvariant == CommerceSpec => []CommerceInv
  BY CommerceInitInv, CommerceStep, PTL DEF CommerceSpec

-----------------------------------------------------------------------------
(* The theorems.                                                           *)

\* The net, the tax and the total of every quotation, order and draft sale are
\* what its lines amount to, to the cent (calculateDocument of domain/phase2.ts).
THEOREM TotalsStayReconciled == CommerceSpec => []TotalsReconcile
<1>1. CommerceInv => TotalsReconcile
  BY PapersReconcile DEF CommerceInv
<1> QED
  BY <1>1, CommerceInvariant, PTL

\* An order has the lines and the amounts its quotation was accepted with, and a
\* quotation has one order (convertQuotation of quotations-orders.service.ts).
THEOREM OrdersStayAsQuoted == CommerceSpec => []OrderIsAsQuoted
<1>1. CommerceInv => OrderIsAsQuoted
  BY PapersReconcile DEF CommerceInv
<1> QED
  BY <1>1, CommerceInvariant, PTL

\* A completed import is in the tables row by row, any other has nothing there,
\* and an item is one row's (execute of imports.service.ts).
THEOREM ImportsStayWhole == CommerceSpec => []ImportsAreWhole
<1>1. CommerceInv => ImportsAreWhole
  <2> SUFFICES ASSUME ImportsInv PROVE ImportsAreWhole
    BY DEF CommerceInv
  <2> SUFFICES ASSUME NEW j \in Jobs
               PROVE  /\ jobs[j].status = "COMPLETED" => Made(j) = DOMAIN jobs[j].file
                      /\ jobs[j].status \notin {"NONE", "COMPLETED"} => Made(j) = {}
                      /\ \A i, k \in Existing :
                           items[i].origin = items[k].origin /\ items[i].origin[1] = j => i = k
    BY DEF ImportsAreWhole
  <2>1. OriginsOK(j) /\ JobOK(jobs[j])
    BY DEF ImportsInv
  <2>2. Made(j) = {n \in 1 .. Len(jobs[j].file) : MadeBy(j, n)}
    BY DEF Made, MadeBy
  <2>3. jobs[j].status = "COMPLETED" => Made(j) = DOMAIN jobs[j].file
    BY <2>1, <2>2, OfFile DEF OriginsOK
  <2>4. jobs[j].status # "COMPLETED" => Made(j) = {}
    BY <2>1, <2>2 DEF OriginsOK
  <2> QED
    BY <2>1, <2>3, <2>4 DEF OriginsOK
<1> QED
  BY <1>1, CommerceInvariant, PTL

\* With imports beside the movements users enter, every balance is the sum of
\* the lines posted to it (inventory.service.ts, executeRow of imports.service.ts).
THEOREM CommerceBalanceIsLedgerSum == CommerceSpec => []BalanceIsLedgerSum
<1>1. CommerceInv => BalanceIsLedgerSum
  BY DEF CommerceInv, StockLedger
<1> QED
  BY <1>1, CommerceInvariant, PTL
=============================================================================
