SPECIFICATION Spec
CONSTANTS
  a = a
  b = b
  strict = strict
  lax = lax
  Warehouses = {strict, lax}
  Items = {a, b}
  NegativeAllowed = {lax}
  ManualKeys = {k1}
  ManualLines <- MCManualLines
  Sales = {s1, s2}
  Purchases = {}
  Expenses = {}
  NoSource = NoSource
  Tills = {}
  Amounts = {1}
  ReversalRuns = TRUE
  MaxPayments = 3
  MaxSessions = 0
  DocumentTypes = {"INTERNAL_SALE"}
  MaxDocuments = 0
  MaxAttempts = 0
  MockAllowed = FALSE
  Drafts <- MCDrafts
  NoDraft = NoDraft
  NoWarehouse = NoWarehouse
SYMMETRY SaleSymmetry
INVARIANTS
  TypeOK
  AccountAgreesWithSource
  AppliedIsWhatStands
  BalanceIsLedgerSum
  SaleMovesItsStockOnce
  NegativeOnlyByRepetition
CHECK_DEADLOCK FALSE
