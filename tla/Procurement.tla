---------------------------- MODULE Procurement ----------------------------
(***************************************************************************)
(* What a company buys (apps/api/src/purchases.service.ts), on the stock   *)
(* and the accounts its sales use: purchases receive stock and open what   *)
(* is payable, expenses only the latter.  A purchase may be entered with   *)
(* the document of its supplier, which must not be entered twice unless    *)
(* somebody says why.                                                      *)
(*                                                                         *)
(* The requests are committed steps as in SalesLedger, but for the entry   *)
(* of a purchase: it looks for the supplier's document without locking     *)
(* anything and inserts it later.                                          *)
(***************************************************************************)
EXTENDS SalesLedger

CONSTANTS
  PurchaseDrafts,     \* what a purchase may be entered with
  ExpenseDrafts,      \* what an expense may be entered with
  SupplierDocuments,  \* supplier, type, series and number of a document
  NoDocument,         \* a purchase entered without one
  NoEntry

ExpenseDraft == [condition : {"CASH", "CREDIT"}, total : Nat]

ASSUME ProcurementAssumption ==
  /\ PurchaseDrafts \subseteq Draft
  /\ ExpenseDrafts \subseteq ExpenseDraft
  /\ NoDraft \notin PurchaseDrafts \cup ExpenseDrafts
  /\ NoDocument \notin SupplierDocuments

\* A purchase between the look at the supplier's documents and the insertion;
\* reason says whether the request gives one for a document that is there already.
Entry == [draft : PurchaseDrafts, document : SupplierDocuments \cup {NoDocument}, reason : BOOLEAN]

ASSUME EntryAssumption == NoEntry \notin Entry

VARIABLES
  entering,       \* the entries of purchases that are under way
  bought,         \* what each purchase was entered with
  spent,          \* what each expense was entered with
  supplierPapers  \* the documents of suppliers: of which purchase, with a reason or not

buyingVars == <<entering, bought, spent, supplierPapers>>
companyVars == <<vars, buyingVars>>

Paper == [purchase : Purchases, document : SupplierDocuments, reason : BOOLEAN]

ProcurementInit ==
  /\ Init
  /\ entering = [p \in Purchases |-> NoEntry]
  /\ bought = [p \in Purchases |-> NoDraft]
  /\ spent = [e \in Expenses |-> NoDraft]
  /\ supplierPapers = {}

-----------------------------------------------------------------------------
SetStatus(x, status) == header' = [header EXCEPT ![x].status = status]

Entered(document) == \E q \in supplierPapers : q.document = document

\* The first half of create: a document that is there needs a reason, and a user
\* with the permission to give one.  It is looked for as it was typed and stored
\* trimmed, so one that was typed with spaces around it is not found.
BeginPurchase(p, d, document, padded, reason, permitted) ==
  /\ header[p].status = "NONE"
  /\ entering[p] = NoEntry
  /\ document = NoDocument => ~reason
  /\ Entered(document) /\ ~padded => reason /\ permitted
  /\ entering' = [entering EXCEPT ![p] = [draft |-> d, document |-> document, reason |-> reason]]
  /\ UNCHANGED <<vars, bought, spent, supplierPapers>>

\* Mutant: the token makes every document unique.
CollidesNever(entry) == FALSE

\* The unique key of supplier_documents includes a token, empty without a reason
\* and a new one with each reason.
Collides(entry) ==
  \E q \in supplierPapers : q.document = entry.document /\ ~q.reason /\ ~entry.reason

Papers(p, entry) ==
  IF entry.document = NoDocument THEN {}
  ELSE {[purchase |-> p, document |-> entry.document, reason |-> entry.reason]}

\* Mutant: what was entered stays pending.
InsertAgain(p) ==
  LET entry == entering[p] IN
  /\ entry # NoEntry
  /\ ~Collides(entry)
  /\ SetStatus(p, "DRAFT")
  /\ bought' = [bought EXCEPT ![p] = entry.draft]
  /\ supplierPapers' = supplierPapers \cup Papers(p, entry)
  /\ UNCHANGED <<stockVars, account, payments, sessions, documentVars, salesVars, spent, entering>>

\* The second half, and the commit.
InsertPurchase(p) ==
  LET entry == entering[p] IN
  /\ entry # NoEntry
  /\ ~Collides(entry)
  /\ SetStatus(p, "DRAFT")
  /\ bought' = [bought EXCEPT ![p] = entry.draft]
  /\ supplierPapers' = supplierPapers \cup Papers(p, entry)
  /\ entering' = [entering EXCEPT ![p] = NoEntry]
  /\ UNCHANGED <<stockVars, account, payments, sessions, documentVars, salesVars, spent>>

\* The insertion breaks the unique key and everything is rolled back.
AbandonPurchase(p) ==
  /\ entering[p] # NoEntry
  /\ Collides(entering[p])
  /\ entering' = [entering EXCEPT ![p] = NoEntry]
  /\ UNCHANGED <<vars, bought, spent, supplierPapers>>

-----------------------------------------------------------------------------
ReceiveStock(p, d) ==
  IF MovesStock(d)
  THEN PostMovement(<<"purchase", p>>, d.warehouse, Receipt, d.lines)
  ELSE UNCHANGED stockVars

OpenPayable(x, d) ==
  account' = IF d.condition = "CREDIT"
             THEN [account EXCEPT ![x] = OpenedAccount(d.total)] ELSE account

ConfirmPurchase(p) ==
  /\ Confirmable(p)
  /\ Deliverable(bought[p])
  /\ ReceiveStock(p, bought[p])
  /\ OpenPayable(p, bought[p])
  /\ SetStatus(p, "CONFIRMED")
  /\ UNCHANGED <<payments, sessions, documentVars, salesVars, buyingVars>>

\* Mutant: what was received is taken to be there still.
ReturnableAlways(d) == TRUE

\* What goes back must be there, in any warehouse; line by line, as for a sale.
Returnable(d) ==
  \A n \in DOMAIN d.lines : balance[d.warehouse][d.lines[n].item] >= d.lines[n].qty

\* Mutant: the goods stay.
TakeBackNothing(p, d) == UNCHANGED stockVars

TakeBack(p, d) ==
  IF Returns(p, d)
  THEN PostMovement(<<"purchase-cancel", p>>, d.warehouse, Issue, d.lines)
  ELSE UNCHANGED stockVars

\* Mutant: the account is left as it is.
LeavePayable(x) ==
  /\ account[x].applied = 0
  /\ UNCHANGED account

\* Nothing is paid, and the CHECK of the table lets the account be closed.
ClosePayable(x) ==
  /\ account[x].applied = 0
  /\ HasAccount(x) => AddsUp(CancelledAccount(account[x]))
  /\ account' = IF HasAccount(x) THEN [account EXCEPT ![x] = CancelledAccount(@)] ELSE account

CancelPurchase(p) ==
  /\ Cancellable(p)
  /\ Returns(p, bought[p]) => Returnable(bought[p])
  /\ TakeBack(p, bought[p])
  /\ ClosePayable(p)
  /\ SetStatus(p, "CANCELLED")
  /\ UNCHANGED <<payments, sessions, documentVars, salesVars, buyingVars>>

-----------------------------------------------------------------------------
CreateExpense(e, d) ==
  /\ header[e].status = "NONE"
  /\ SetStatus(e, "DRAFT")
  /\ spent' = [spent EXCEPT ![e] = d]
  /\ UNCHANGED <<stockVars, account, payments, sessions, documentVars, salesVars,
                 entering, bought, supplierPapers>>

RegisterExpense(e) ==
  /\ header[e].status = "DRAFT"
  /\ OpenPayable(e, spent[e])
  /\ SetStatus(e, "CONFIRMED")
  /\ UNCHANGED <<stockVars, payments, sessions, documentVars, salesVars, buyingVars>>

CancelExpense(e) ==
  /\ Cancellable(e)
  /\ ClosePayable(e)
  /\ SetStatus(e, "CANCELLED")
  /\ UNCHANGED <<stockVars, payments, sessions, documentVars, salesVars, buyingVars>>

PurchasesNext ==
  \E p \in Purchases :
    \/ \E d \in PurchaseDrafts, document \in SupplierDocuments \cup {NoDocument},
          padded \in BOOLEAN, reason \in BOOLEAN, permitted \in BOOLEAN :
         BeginPurchase(p, d, document, padded, reason, permitted)
    \/ InsertPurchase(p)
    \/ AbandonPurchase(p)
    \/ ConfirmPurchase(p)
    \/ CancelPurchase(p)

ExpensesNext ==
  \E e \in Expenses :
    \/ \E d \in ExpenseDrafts : CreateExpense(e, d)
    \/ RegisterExpense(e)
    \/ CancelExpense(e)

ProcurementNext ==
  \/ PurchasesNext
  \/ ExpensesNext
  \/ Next /\ UNCHANGED buyingVars

ProcurementSpec == ProcurementInit /\ [][ProcurementNext]_companyVars

-----------------------------------------------------------------------------
BuyingTypeOK ==
  /\ TypeOK
  /\ entering \in [Purchases -> Entry \cup {NoEntry}]
  /\ bought \in [Purchases -> PurchaseDrafts \cup {NoDraft}]
  /\ spent \in [Expenses -> ExpenseDrafts \cup {NoDraft}]
  /\ supplierPapers \subseteq Paper
  /\ \A p \in Purchases : header[p].status = "NONE" <=> bought[p] = NoDraft
  /\ \A e \in Expenses : header[e].status = "NONE" <=> spent[e] = NoDraft
  /\ \A p \in Purchases : entering[p] # NoEntry => header[p].status = "NONE"

\* A purchase is received once when it is confirmed and goes back once when it is
\* cancelled, each movement under its own key, and never for a draft.
PurchaseMovesItsStockOnce ==
  \A p \in Purchases :
    LET received == Posted(<<"purchase", p>>)
        returned == Posted(<<"purchase-cancel", p>>)
    IN  /\ header[p].status \in {"NONE", "DRAFT"} => ~received /\ ~returned
        /\ header[p].status \in Sold => (received <=> MovesStock(bought[p])) /\ ~returned
        /\ header[p].status = "CANCELLED" => (received <=> returned)

\* A cancelled purchase or expense owes nothing and holds no money.
CancelledBuyingIsUnwound ==
  \A x \in Purchases \cup Expenses : header[x].status = "CANCELLED" =>
    /\ account[x].status \in {"NONE", "CANCELLED"}
    /\ \A n \in DOMAIN payments : ~(payments[n].source = x /\ Standing(n))

\* Of the entries of one document of a supplier, however many requests enter it at
\* once, all but one say why it is entered again.
DuplicatesHaveReason ==
  \A q, r \in supplierPapers :
    q.document = r.document /\ ~q.reason /\ ~r.reason => q = r
=============================================================================
