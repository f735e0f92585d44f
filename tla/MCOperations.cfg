SPECIFICATION OperationsSpec
CONSTANTS
  p1 = p1
  p2 = p2
  q1 = q1
  q2 = q2
  w1 = w1
  none = none
  all = all
  s1 = s1
  s2 = s2
  s3 = s3
  u = u
  v = v
  terms = terms
  notice = notice
  consent = consent
  number = number
  bill = bill
  card = card
  other = other
  key = key
  r1 = r1
  r2 = r2
  memo = memo
  chart = chart
  l1 = l1
  here = here
  there = there
  c1 = c1
  c2 = c2
  c3 = c3
  a = a
  b = b
  Pages = {p1, p2}
  Requests = {q1, q2}
  WasteRecords = {w1}
  Closure = 4
  Permissions <- MCPermissions
  None = none
  MaxExceptions = 1
  Sessions = {s1, s2}
  UserOf <- MCUserOf
  LegalCodes = {terms, notice}
  PublishedCodes = {terms}
  Consents = {consent}
  Numbers = {number}
  MaxGiven = 2
  Companies = {a, b}
  Providers <- MCProviders
  All = all
  Categories = {"AI", "OCR"}
  Default <- MCDefault
  Threshold = 2
  Stored <- MCStored
  Keys = {key}
  Readers = {r1, r2}
  CompanyOf <- MCCompanyOf
  MayReadIdentities = {r1}
  MaxJobs = 2
  MaxCalls = 2
  Policies <- MCPolicies
  Sources <- MCSources
  Tool <- MCTool
  Questions = {q1, q2}
  Askers = {u}
  AskerCompany <- MCAskerCompany
  Leads = {l1}
  Stages <- MCStages
  MaxMoves = 3
  Locations = {here, there}
  Clock = 3
  MaxAssignments = 4
  Clients = {c1, c2, c3}
  CompanyAt <- MCCompanyAt
  Kinds <- MCKinds
  ParentOf <- MCParentOf
  NoKind = none
  Coded <- MCKinds
  Checked = {"task"}
  Codes = {1}
  Evidence <- MCEvidence
  MaxRecords = 3
  Browsers = {p1, p2}
  Firms = {a}
  CompanyFields = {"legalName"}
  CompanyValues = {1, 2}
  Founded <- MCFounded
  NoForm = none
  MaxUpdates = 2
  MaxKeystrokes <- MCKeystrokes
  Tables <- MCTables
  Preserved = {"legal_acceptances", "legal_document_versions"}
  Verified = {"legal_acceptances"}
  ParentTable <- MCParentTable
  NoTable = none
  SeedRows <- MCSeedRows
  Opening = 2
  Writers = {q1}
  MaxRows = 2
  MaxCommands = 2
  Callers = {c1, c2}
  WindowLength = 2
  MaximumRequests = 2
  MaxWindows = 1
  MaxNow = 4
  MaxAsked = 3
  Areas <- MCAreas
INVARIANTS
  LifecycleIsItsHistory
  AcceptancesAreFinal
  AnswersAreOfTheirDocument
  UseIsBounded
  HistoriesAreUnbroken
CHECK_DEADLOCK FALSE
