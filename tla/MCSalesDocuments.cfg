SPECIFICATION Spec
CONSTANTS
  a = a
  b = b
  strict = strict
  lax = lax
  Warehouses = {strict, lax}
  Items = {a, b}
  NegativeAllowed = {lax}
  ManualKeys = {}
  ManualLines <- MCManualLines
  Sales = {s1, s2}
  Purchases = {}
  Expenses = {}
  NoSource = NoSource
  Tills = {}
  Amounts = {1}
  ReversalRuns = FALSE
  MaxPayments = 1
  MaxSessions = 0
  DocumentTypes = {"INVOICE", "INTERNAL_SALE"}
  MaxDocuments = 2
  MaxAttempts = 1
  MockAllowed = TRUE
  Drafts <- MCDocumentDrafts
  NoDraft = NoDraft
  NoWarehouse = NoWarehouse
SYMMETRY SaleSymmetry
INVARIANTS
  CancelledSaleIsUnwound
  OneStandingDocument
  NumbersUsedOnce
CHECK_DEADLOCK FALSE
