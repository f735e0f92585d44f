SPECIFICATION MCSpec
CONSTANTS
  a = a
  b = b
  strict = strict
  s1 = s1
  s2 = s2
  s3 = s3
  Warehouses = {strict}
  Items = {a, b}
  NegativeAllowed = {}
  ManualKeys = {"k"}
  ManualLines <- MCManualLines
  Sales = {s1, s2, s3}
  Purchases = {}
  Expenses = {}
  NoSource = NoSource
  Tills = {"till"}
  Amounts = {1, 2}
  ReversalRuns = FALSE
  MaxPayments = 3
  MaxSessions = 3
  DocumentTypes = {"INTERNAL_SALE"}
  MaxDocuments = 3
  MaxAttempts = 0
  MockAllowed = FALSE
  Drafts <- MCDrafts
  NoDraft = NoDraft
  NoWarehouse = NoWarehouse
  MaxRequests = 1
  Asks <- MCAsks
  NoAsk = NoAsk
  Keys <- MCKeys
  ItemOrder <- MCItemOrder
  NoResult = NoResult
INVARIANT
  CancellationIsAnswered
CHECK_DEADLOCK FALSE
