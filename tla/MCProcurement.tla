--------------------------- MODULE MCProcurement ---------------------------
(***************************************************************************)
(* Procurement on a small instance: two purchases and an expense beside a  *)
(* movement, entered by a user, that takes what the purchases receive.     *)
(***************************************************************************)
EXTENDS Procurement, TLC

CONSTANTS a, strict

Line(i, q) == [item |-> i, qty |-> q]
Goods(condition, total, lines) ==
  [condition |-> condition, total |-> total, warehouse |-> strict, lines |-> lines]

MCManualLines == {<<Line(a, 1)>>}

\* Goods on credit, a gift on credit, and goods in cash whose lines name the item twice.
MCPurchaseDrafts ==
  {Goods("CREDIT", 2, <<Line(a, 1)>>), Goods("CREDIT", 0, <<Line(a, 1)>>),
   Goods("CASH", 1, <<Line(a, 1), Line(a, 1)>>)}

MCExpenseDrafts == {[condition |-> "CREDIT", total |-> t] : t \in {0, 1}}

PurchaseSymmetry == Permutations(Purchases)
=============================================================================
