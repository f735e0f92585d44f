---------------------------- MODULE SalesLedger ----------------------------
(***************************************************************************)
(* The life of a sale (apps/api/src/sales.service.ts) on top of the stock, *)
(* the accounts and the documents it moves.  Every action is one committed *)
(* request; SalesTransactions shows that the requests, run statement by    *)
(* statement and side by side, do nothing but these steps.                 *)
(***************************************************************************)
EXTENDS Stock, Finance, Documents

CONSTANTS
  Drafts,   \* what a sale may be created with
  NoDraft,
  NoWarehouse  \* the warehouse of a draft that names none

\* The lines of a draft are those of its items that manage stock.
Draft == [condition : {"CASH", "CREDIT"}, total : Nat,
          warehouse : Warehouses \cup {NoWarehouse}, lines : Lines]

ASSUME SalesAssumption ==
  /\ Drafts \subseteq Draft
  /\ NoDraft \notin Drafts
  /\ NoWarehouse \notin Warehouses

VARIABLES
  draft,       \* what each sale was created with
  saleNumber   \* the number confirmation gave it, 0 before

salesVars == <<draft, saleNumber>>
vars == <<stockVars, financeVars, documentVars, salesVars>>

Init ==
  /\ StockInit
  /\ FinanceInit
  /\ DocumentsInit
  /\ draft = [s \in Sales |-> NoDraft]
  /\ saleNumber = [s \in Sales |-> 0]

-----------------------------------------------------------------------------
\* The lines a sale moves: those that manage stock.
MovesStock(d) == d.lines # <<>>

CreateSale(s, d) ==
  /\ header[s].status = "NONE"
  /\ header' = [header EXCEPT ![s].status = "DRAFT"]
  /\ draft' = [draft EXCEPT ![s] = d]
  /\ UNCHANGED <<stockVars, account, payments, sessions, documentVars, saleNumber>>

\* Mutant: the last unit is taken to be available twice.
AvailableButOne(d) ==
  \A n \in DOMAIN d.lines :
    \/ balance[d.warehouse][d.lines[n].item] >= d.lines[n].qty - 1
    \/ d.warehouse \in NegativeAllowed

\* Each line is compared with the balance as it was read before the first one
\* was taken: two lines of one item are each compared with all of it.
Available(d) ==
  \A n \in DOMAIN d.lines :
    \/ balance[d.warehouse][d.lines[n].item] >= d.lines[n].qty
    \/ d.warehouse \in NegativeAllowed

\* What the handler looks at before it writes anything.
Confirmable(s) == header[s].status = "DRAFT"
Deliverable(d) == MovesStock(d) => d.warehouse # NoWarehouse

IssueStock(s, d) ==
  IF MovesStock(d)
  THEN PostMovement(<<"sale", s>>, d.warehouse, Issue, d.lines)
  ELSE UNCHANGED stockVars

WriteConfirmation(s, d) ==
  /\ IssueStock(s, d)
  /\ account' = IF d.condition = "CREDIT"
                THEN [account EXCEPT ![s] = OpenedAccount(d.total)] ELSE account
  /\ TakeNumber("INTERNAL_SALE")
  /\ saleNumber' = [saleNumber EXCEPT ![s] = NextNumber("INTERNAL_SALE")]
  /\ header' = [header EXCEPT ![s].status = "CONFIRMED"]
  /\ UNCHANGED <<draft, payments, sessions, documents>>

ConfirmSale(s) ==
  /\ Confirmable(s)
  /\ Deliverable(draft[s])
  /\ Available(draft[s])
  /\ WriteConfirmation(s, draft[s])

Sold == {"CONFIRMED", "PARTIALLY_PAID", "PAID"}
Documentable(s) == header[s].status \in Sold /\ ~Issued(s)

WriteDocument(s, t) ==
  /\ AppendDocument(s, t)
  /\ TakeNumber(t)
  /\ UNCHANGED <<stockVars, financeVars, salesVars>>

IssueDocument(s, t) == Documentable(s) /\ WriteDocument(s, t)

Cancellable(s) == header[s].status \in {"DRAFT", "CONFIRMED"}

\* Mutant: a draft returns what it never took.
ReturnsAlways(s, d) == d.warehouse # NoWarehouse /\ MovesStock(d)

Returns(s, d) == header[s].status = "CONFIRMED" /\ d.warehouse # NoWarehouse /\ MovesStock(d)

ReturnStock(s, d) ==
  IF Returns(s, d)
  THEN PostMovement(<<"sale-cancel", s>>, d.warehouse, Receipt, d.lines)
  ELSE UNCHANGED stockVars

\* The update of the account of a cancelled sale, if it has one, and the CHECK of
\* the table that its balances add up to its principal: only 0 passes it.
HasAccount(s) == account[s].status # "NONE"
CancelledAccount(a) ==
  [status |-> "CANCELLED", principal |-> a.principal, applied |-> a.applied, outstanding |-> 0]
AddsUp(a) == a.applied + a.outstanding = a.principal

WriteCancellation(s, d) ==
  /\ ReturnStock(s, d)
  /\ account' = IF HasAccount(s) THEN [account EXCEPT ![s] = CancelledAccount(@)] ELSE account
  /\ header' = [header EXCEPT ![s].status = "CANCELLED"]
  /\ UNCHANGED <<salesVars, payments, sessions, documentVars>>

CancelSale(s) ==
  /\ Cancellable(s)
  /\ ~Alive(s)
  /\ account[s].applied = 0
  /\ HasAccount(s) => AddsUp(CancelledAccount(account[s]))
  /\ WriteCancellation(s, draft[s])

SalesNext ==
  \E s \in Sales :
    \/ \E d \in Drafts : CreateSale(s, d)
    \/ ConfirmSale(s)
    \/ \E t \in DocumentTypes : IssueDocument(s, t)
    \/ CancelSale(s)

Next ==
  \/ SalesNext
  \/ StockNext /\ UNCHANGED <<financeVars, documentVars, salesVars>>
  \/ FinanceNext /\ UNCHANGED <<stockVars, documentVars, salesVars>>
  \/ DocumentsNext /\ UNCHANGED <<stockVars, financeVars, salesVars>>

Spec == Init /\ [][Next]_vars

-----------------------------------------------------------------------------
TypeOK ==
  /\ balance \in [Warehouses -> [Items -> Int]]
  /\ FinanceTypeOK
  /\ DocumentsTypeOK
  /\ draft \in [Sales -> Drafts \cup {NoDraft}]
  /\ saleNumber \in [Sales -> Nat]
  /\ \A s \in Sales : header[s].status = "NONE" <=> draft[s] = NoDraft

\* Confirmation issues the stock of a sale and cancellation returns it, each
\* under its own key.  While a sale is confirmed, paid or not, its issue stands
\* alone in the ledger; a cancelled sale has both or neither; a draft neither.
SaleMovesItsStockOnce ==
  \A s \in Sales :
    LET issued   == Posted(<<"sale", s>>)
        returned == Posted(<<"sale-cancel", s>>)
    IN  /\ header[s].status \in {"NONE", "DRAFT"} => ~issued /\ ~returned
        /\ header[s].status \in Sold => (issued <=> MovesStock(draft[s])) /\ ~returned
        /\ header[s].status = "CANCELLED" => (issued <=> returned)

\* A cancelled sale leaves nothing behind: no document that stands, no account
\* that somebody still owes, no money that is still applied to it.
CancelledSaleIsUnwound ==
  \A s \in Sales : header[s].status = "CANCELLED" =>
    /\ \A n \in DocumentsOf(s) : documents[n].status \in Dead
    /\ account[s].status \in {"NONE", "CANCELLED"}
    /\ \A n \in DOMAIN payments : ~(payments[n].source = s /\ Standing(n))

\* The internal sale series numbers both the sales and their internal notes.
\* Whatever series, the numbers handed out are all in use and each is used once.
NumbersInUse(t) ==
  [on : {"document"}, id : {n \in DOMAIN documents : documents[n].type = t}]
    \cup [on : {"sale"}, id : {s \in Sales : t = "INTERNAL_SALE" /\ saleNumber[s] # 0}]

NumberOf(u) == IF u.on = "sale" THEN saleNumber[u.id] ELSE documents[u.id].number

NumbersUsedOnce ==
  \A t \in DocumentTypes :
    /\ {NumberOf(u) : u \in NumbersInUse(t)} = 1 .. lastNumber[t]
    /\ Cardinality(NumbersInUse(t)) = lastNumber[t]

\* A sale whose lines name an item twice.
Repeats(d) ==
  \E m, n \in DOMAIN d.lines : m # n /\ d.lines[m].item = d.lines[n].item

\* A warehouse that does not allow it goes negative only through a movement or a
\* sale whose lines name one item twice, which the check by line lets through.
NegativeOnlyByRepetition ==
  \A w \in Warehouses \ NegativeAllowed, i \in Items : balance[w][i] < 0 =>
    \E m \in movements : m.direction = Issue /\ m.warehouse = w /\ Repeats(m)
=============================================================================
