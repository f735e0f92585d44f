SPECIFICATION CommerceSpec
CONSTANTS
  i1 = i1
  i2 = i2
  red = red
  blue = blue
  bar = bar
  general = general
  special = special
  ana = ana
  store = store
  Warehouses = {store}
  Items = {i1, i2}
  NegativeAllowed = {}
  ManualKeys = {k1}
  ManualLines <- MCManualLines
  Names = {red, blue, bar}
  Offers <- MCOffers
  PriceLists = {general, special}
  Tiers <- MCTiers
  Parties = {ana}
  Assigned <- MCAssigned
  NoItem = NoItem
  MaxVersion = 2
  LastDay = 2
  Quotes = {q1}
  Orders = {o1, o2}
  DraftSales = {d1}
  Asked <- MCAsked
  TaxRate = 4
  One = 20
  Cent = 4
  NoOrder = NoOrder
  NoPaper = NoPaper
  Jobs = {j1, j2}
  Files <- MCFiles
  NoFile = NoFile
  Mixes <- MCMixes
INVARIANTS
  OrderIsAsQuoted
  TotalsReconcile
  ImportsAreWhole
  BalanceIsLedgerSum
CHECK_DEADLOCK FALSE
