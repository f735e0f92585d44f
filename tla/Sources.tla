------------------------------ MODULE Sources ------------------------------
(***************************************************************************)
(* What money is owed for: the rows of sales, purchases and expenses, here *)
(* the identities a behaviour may create them under.                       *)
(***************************************************************************)
CONSTANTS Sales, Purchases, Expenses,
          NoSource   \* stands where a payment is applied to nothing

Sources == Sales \cup Purchases \cup Expenses

ASSUME SourcesAssumption ==
  /\ Sales \cap Purchases = {}
  /\ (Sales \cup Purchases) \cap Expenses = {}
  /\ NoSource \notin Sources
=============================================================================
