--------------------------- MODULE MCSalesLedger ---------------------------
(***************************************************************************)
(* SalesLedger on small instances: two sales, a warehouse that must not go *)
(* negative and one that may, items a and b.                               *)
(***************************************************************************)
EXTENDS SalesLedger, TLC

CONSTANTS a, b, strict, lax

Line(i, q) == [item |-> i, qty |-> q]

\* A service paid at once, goods on credit, goods named on two lines, goods of
\* the warehouse that may go negative, and a gift on credit.
MCDrafts ==
  {[condition |-> "CASH",   total |-> 1, warehouse |-> NoWarehouse, lines |-> <<>>],
   [condition |-> "CREDIT", total |-> 2, warehouse |-> strict, lines |-> <<Line(a, 1), Line(b, 1)>>],
   [condition |-> "CASH",   total |-> 2, warehouse |-> strict, lines |-> <<Line(a, 1), Line(a, 1)>>],
   [condition |-> "CREDIT", total |-> 0, warehouse |-> lax,    lines |-> <<Line(a, 1)>>]}

\* Where documents are issued: a service paid at once, one on credit, and a gift.
MCDocumentDrafts ==
  {[condition |-> "CASH",   total |-> 1, warehouse |-> NoWarehouse, lines |-> <<>>],
   [condition |-> "CREDIT", total |-> 1, warehouse |-> NoWarehouse, lines |-> <<>>],
   [condition |-> "CREDIT", total |-> 0, warehouse |-> lax, lines |-> <<Line(a, 1)>>]}

MCManualLines == {<<Line(a, 1), Line(b, 1)>>, <<Line(a, 1), Line(a, 1)>>}

\* Two sales are told apart by nothing but what they are created with.
SaleSymmetry == Permutations(Sales)
=============================================================================
