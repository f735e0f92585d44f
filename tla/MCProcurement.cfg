SPECIFICATION ProcurementSpec
CONSTANTS
  a = a
  strict = strict
  Warehouses = {strict}
  Items = {a}
  NegativeAllowed = {}
  ManualKeys = {k}
  ManualLines <- MCManualLines
  Sales = {}
  Purchases = {p1, p2}
  Expenses = {e1}
  NoSource = NoSource
  Tills = {}
  Amounts = {1}
  ReversalRuns = TRUE
  MaxPayments = 2
  MaxSessions = 0
  DocumentTypes = {"INTERNAL_SALE"}
  MaxDocuments = 0
  MaxAttempts = 0
  MockAllowed = FALSE
  Drafts = {}
  NoDraft = NoDraft
  NoWarehouse = NoWarehouse
  PurchaseDrafts <- MCPurchaseDrafts
  ExpenseDrafts <- MCExpenseDrafts
  SupplierDocuments = {F1}
  NoDocument = NoDocument
  NoEntry = NoEntry
SYMMETRY PurchaseSymmetry
INVARIANTS
  BuyingTypeOK
  AccountAgreesWithSource
  PurchaseMovesItsStockOnce
  CancelledBuyingIsUnwound
  NegativeOnlyByRepetition
  DuplicatesHaveReason
CHECK_DEADLOCK FALSE
