------------------------------- MODULE Stock -------------------------------
(***************************************************************************)
(* The stock ledger of one company: stock_balances, the row of each        *)
(* (warehouse, item) with its running quantity, and stock_movements with   *)
(* their lines, an append-only history.  A movement and the balances it    *)
(* changes are always written in one transaction.                          *)
(*                                                                         *)
(* apps/api/src/inventory.service.ts writes the movements a user enters;   *)
(* sales and purchases write their own through PostMovement below.         *)
(***************************************************************************)
EXTENDS Integers, Sequences, FiniteSets, FiniteSetsExt

CONSTANTS
  Warehouses,
  Items,            \* the items that manage stock
  NegativeAllowed,  \* the warehouses whose allow_negative_stock is set
  ManualKeys,       \* the idempotency keys of the movements users enter
  ManualLines       \* the line sequences those movements may carry

\* The quantity the lines carry of item i, over every line that names it.
LineQty(lines, i) ==
  MapThenSumSet(LAMBDA n : lines[n].qty, {n \in DOMAIN lines : lines[n].item = i})

ItemsOf(lines) == {lines[n].item : n \in DOMAIN lines}

Lines == Seq([item : Items, qty : Nat \ {0}])

ASSUME StockAssumption ==
  /\ NegativeAllowed \subseteq Warehouses
  /\ ManualLines \subseteq Lines

VARIABLES
  balance,   \* balance[w][i], the quantity column of the balance row
  movements  \* the posted movements

stockVars == <<balance, movements>>

Receipt == 1
Issue   == -1

StockInit ==
  /\ balance = [w \in Warehouses |-> [i \in Items |-> 0]]
  /\ movements = {}

Posted(key) == \E m \in movements : m.key = key

\* Mutant: lines collected by item, so that a second line of an item replaces it.
PostByItem(key, w, direction, lines) ==
  /\ ~Posted(key)
  /\ movements' = movements \cup
       {[key |-> key, warehouse |-> w, direction |-> direction, lines |-> lines]}
  /\ balance' = [balance EXCEPT ![w] = [i \in Items |->
       IF i \in ItemsOf(lines)
       THEN @[i] + direction * (CHOOSE l \in {lines[n] : n \in DOMAIN lines} : l.item = i).qty
       ELSE @[i]]]

\* The unique key of stock_movements makes a second insertion fail.
PostMovement(key, w, direction, lines) ==
  /\ ~Posted(key)
  /\ movements' = movements \cup
       {[key |-> key, warehouse |-> w, direction |-> direction, lines |-> lines]}
  /\ balance' = [balance EXCEPT ![w] =
       [i \in Items |-> @[i] + direction * LineQty(lines, i)]]

\* calculateStock refuses a line whose own quantity would leave the balance
\* negative; each line is compared with the balance as it was read, and a
\* receipt that leaves a negative balance negative is refused as well.
Calculable(w, direction, lines, allowNegative) ==
  \A n \in DOMAIN lines :
    \/ allowNegative
    \/ balance[w][lines[n].item] + direction * lines[n].qty >= 0

\* A movement entered by a user, who may hold inventory.allow-negative.
CreateMovement(k, w, direction, lines, permitted) ==
  /\ Calculable(w, direction, lines, permitted /\ w \in NegativeAllowed)
  /\ PostMovement(<<"manual", k>>, w, direction, lines)

StockNext ==
  \E k \in ManualKeys, w \in Warehouses, direction \in {Receipt, Issue},
     lines \in ManualLines, permitted \in BOOLEAN :
    CreateMovement(k, w, direction, lines, permitted)

-----------------------------------------------------------------------------
\* The signed quantity of item i that movement m moved in warehouse w.
Moved(m, w, i) ==
  IF m.warehouse = w THEN m.direction * LineQty(m.lines, i) ELSE 0

TotalMoved(M, w, i) == MapThenSumSet(LAMBDA m : Moved(m, w, i), M)

\* Every balance row is the sum of the lines ever posted to it: a movement
\* that is not posted with its balances, or posted twice, would break this.
BalanceIsLedgerSum ==
  \A w \in Warehouses, i \in Items :
    balance[w][i] = TotalMoved(movements, w, i)
=============================================================================
