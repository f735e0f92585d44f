---------------------------- MODULE Stock_proofs ----------------------------
(***************************************************************************)
(* What posting a movement does to the sums of the stock ledger, for those *)
(* who post: sales, purchases and imports.                                 *)
(***************************************************************************)
EXTENDS Stock, Sums_proofs, SequenceTheorems

-----------------------------------------------------------------------------
(* The quantities of lines and the sum of what was ever posted.            *)

QtyOf(lines) == [n \in DOMAIN lines |-> lines[n].qty]

LinesOf(lines, i) == {n \in DOMAIN lines : lines[n].item = i}

LEMMA LineQtyIsSum ==
  ASSUME NEW lines, IsFiniteSet(DOMAIN lines), NEW i
  PROVE  LineQty(lines, i) = SumOver(QtyOf(lines), LinesOf(lines, i))
<1> DEFINE D == LinesOf(lines, i)
           Sums(g) == g = [T \in SUBSET D |->
             IF T = {} THEN 0 ELSE lines[Chosen(T)].qty + g[T \ {Chosen(T)}]]
           k == CHOOSE g : Sums(g)
<1>1. LineQty(lines, i) = k[D]
  BY DEF LineQty, MapThenSumSet, MapThenFoldSet, Chosen, LinesOf
<1>2. D \subseteq DOMAIN lines /\ IsFiniteSet(D)
  BY FS_Subset, D \in SUBSET DOMAIN lines DEF LinesOf
<1> HIDE DEF D
<1>3. ASSUME NEW g PROVE Sums(g) <=> SumsWithin(QtyOf(lines), D, g)
  <2>1. \A T \in SUBSET D : T # {} => QtyOf(lines)[Chosen(T)] = lines[Chosen(T)].qty
    BY <1>2, ChosenIsIn DEF QtyOf
  <2> QED
    BY <2>1 DEF SumsWithin
<1>4. \E g : Sums(g)
  BY <1>2, <1>3, SumsExist
<1>5. SumsWithin(QtyOf(lines), D, k)
  BY <1>3, <1>4
<1> HIDE DEF k
<1> QED
  BY <1>1, <1>2, <1>5, SumsAreOver, D \in SUBSET D DEF D

\* Quantities are positive, so what lines carry of an item is a natural.
LEMMA LineQtyIsNat ==
  ASSUME NEW lines \in Lines, NEW i
  PROVE  LineQty(lines, i) \in Nat
<1>1. IsFiniteSet(DOMAIN lines) /\ \A n \in DOMAIN lines : lines[n].qty \in Nat
  <2>1. DOMAIN lines = 1 .. Len(lines) /\ Len(lines) \in Nat
    BY LenProperties DEF Lines
  <2>2. IsFiniteSet(1 .. Len(lines))
    BY <2>1, FS_Interval
  <2>3. \A n \in 1 .. Len(lines) : lines[n] \in [item : Items, qty : Nat \ {0}]
    BY ElementOfSeq DEF Lines
  <2> QED
    BY <2>1, <2>2, <2>3
<1>2. IsFiniteSet(LinesOf(lines, i))
  BY <1>1, FS_Subset, LinesOf(lines, i) \in SUBSET DOMAIN lines DEF LinesOf
<1>3. \A n \in LinesOf(lines, i) : QtyOf(lines)[n] \in Nat
  BY <1>1 DEF LinesOf, QtyOf
<1>4. SumOver(QtyOf(lines), LinesOf(lines, i)) \in Nat
  BY <1>2, <1>3, SumIsNat
<1> QED
  BY <1>1, <1>4, LineQtyIsSum

MovedIn(M, w, i) == [m \in M |-> Moved(m, w, i)]

LEMMA LedgerSum ==
  ASSUME NEW M, IsFiniteSet(M), NEW w, NEW i
  PROVE  TotalMoved(M, w, i) = SumOver(MovedIn(M, w, i), M)
<1> DEFINE Sums(g) == g = [T \in SUBSET M |->
             IF T = {} THEN 0 ELSE Moved(Chosen(T), w, i) + g[T \ {Chosen(T)}]]
           k == CHOOSE g : Sums(g)
<1>1. TotalMoved(M, w, i) = k[M]
  BY DEF TotalMoved, MapThenSumSet, MapThenFoldSet, Chosen
<1>2. ASSUME NEW g PROVE Sums(g) <=> SumsWithin(MovedIn(M, w, i), M, g)
  <2>1. \A T \in SUBSET M : T # {} => MovedIn(M, w, i)[Chosen(T)] = Moved(Chosen(T), w, i)
    BY ChosenIsIn DEF MovedIn
  <2> QED
    BY <2>1 DEF SumsWithin
<1>3. SumsWithin(MovedIn(M, w, i), M, k)
  BY <1>2, SumsExist
<1> HIDE DEF k
<1> QED
  BY <1>1, <1>3, SumsAreOver, M \in SUBSET M

\* The ledger is a finite set of movements, each of them well-formed, and every
\* balance is their sum.
StockLedger ==
  /\ balance \in [Warehouses -> [Items -> Int]]
  /\ IsFiniteSet(movements)
  /\ \A m \in movements : m.direction \in {Receipt, Issue} /\ m.lines \in Lines
  /\ BalanceIsLedgerSum

\* What a movement moves is an integer.
LEMMA MovedIsInt ==
  ASSUME NEW m, m.direction \in {Receipt, Issue}, m.lines \in Lines, NEW w, NEW i
  PROVE  Moved(m, w, i) \in Int
<1>1. LineQty(m.lines, i) \in Nat
  BY LineQtyIsNat
<1> QED
  BY <1>1 DEF Moved, Receipt, Issue

\* A movement is posted with its balances, all of them and once (postMovement
\* of inventory.service.ts and the handlers of sales and purchases that do it).
LEMMA PostingKeepsLedger ==
  ASSUME StockLedger, NEW key, NEW w \in Warehouses, NEW direction \in {Receipt, Issue},
         NEW lines \in Lines, PostMovement(key, w, direction, lines)
  PROVE  StockLedger'
<1> DEFINE p == [key |-> key, warehouse |-> w, direction |-> direction, lines |-> lines]
<1>1. movements' = movements \cup {p} /\ p \notin movements
  BY DEF PostMovement, Posted
<1>2. IsFiniteSet(movements')
  BY <1>1, FS_AddElement DEF StockLedger
<1>3. \A m \in movements' : m.direction \in {Receipt, Issue} /\ m.lines \in Lines
  BY <1>1 DEF StockLedger
<1>4. \A i \in Items : LineQty(lines, i) \in Nat
  BY LineQtyIsNat
<1>5. balance' = [balance EXCEPT ![w] = [i \in Items |-> balance[w][i] + direction * LineQty(lines, i)]]
  BY DEF PostMovement
<1>6. balance' \in [Warehouses -> [Items -> Int]]
  <2>1. \A i \in Items : balance[w][i] + direction * LineQty(lines, i) \in Int
    BY <1>4 DEF StockLedger, Receipt, Issue
  <2>2. [i \in Items |-> balance[w][i] + direction * LineQty(lines, i)] \in [Items -> Int]
    BY <2>1
  <2> QED
    BY <1>5, <2>2 DEF StockLedger
<1>7. ASSUME NEW v \in Warehouses, NEW i \in Items
      PROVE  balance'[v][i] = TotalMoved(movements', v, i)
  <2> DEFINE f == MovedIn(movements', v, i)
             old == MovedIn(movements, v, i)
  <2>1. TotalMoved(movements', v, i) = SumOver(f, movements')
    BY <1>2, LedgerSum
  <2>2. \A m \in movements' : f[m] = Moved(m, v, i) /\ f[m] \in Int
    BY <1>3, MovedIsInt DEF MovedIn
  <2>3. \A m \in movements : f[m] = old[m]
    BY <1>1, <2>2 DEF MovedIn
  <2>4. SumOver(old, movements) = balance[v][i] /\ balance[v][i] \in Int
    BY LedgerSum DEF StockLedger, BalanceIsLedgerSum
  <2> HIDE DEF f, old
  <2>5. p \in movements' /\ movements' \ {p} = movements
    BY <1>1
  <2>6. f[p] = (IF w = v THEN direction * LineQty(lines, i) ELSE 0) /\ f[p] \in Int
    BY <2>2, <2>5 DEF Moved
  <2> HIDE DEF p
  <2>7. SumOver(f, movements') = f[p] + SumOver(f, movements' \ {p})
    BY <1>2, <2>2, <2>5, SumWithout
  <2>8. SumOver(f, movements) = SumOver(old, movements)
    BY <2>3, SumOfSame DEF StockLedger
  <2>9. balance'[v][i] = balance[v][i] + f[p]
    BY <1>4, <1>5, <2>4, <2>6 DEF StockLedger, Receipt, Issue
  <2>10. TotalMoved(movements', v, i) = f[p] + balance[v][i]
    BY <2>1, <2>4, <2>5, <2>7, <2>8
  <2>11. f[p] \in Int /\ balance[v][i] \in Int
    BY <2>4, <2>6
  <2> QED
    BY <2>9, <2>10, <2>11
<1>8. BalanceIsLedgerSum'
  BY <1>7 DEF BalanceIsLedgerSum
<1> QED
  BY <1>2, <1>3, <1>6, <1>8 DEF StockLedger

\* An empty warehouse is the sum of no movement.
LEMMA InitStockLedger == StockInit => StockLedger
<1> SUFFICES ASSUME StockInit PROVE StockLedger
  OBVIOUS
<1>1. movements = {} /\ IsFiniteSet(movements)
  BY FS_EmptySet DEF StockInit
<1>2. \A w \in Warehouses, i \in Items : TotalMoved({}, w, i) = 0
  BY LedgerSum, SumOfNone, FS_EmptySet
<1>3. BalanceIsLedgerSum
  BY <1>1, <1>2 DEF StockInit, BalanceIsLedgerSum
<1> QED
  BY <1>1, <1>3 DEF StockInit, StockLedger
=============================================================================
