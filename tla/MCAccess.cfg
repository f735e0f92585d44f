SPECIFICATION AccessSpec
CONSTANTS
  ana = ana
  bea = bea
  cai = cai
  dan = dan
  A = A
  B = B
  r1 = r1
  r2 = r2
  r3 = r3
  Requests = {r1, r2, r3}
  Clients = {c1, c2}
  Companies = {A, B}
  NoClient = NoClient
  NoCompany = NoCompany
  Users <- MCUsers
  CompanyOf <- MCCompanyOf
  AdminsIn <- MCAdminsIn
  Seeded <- MCSeeded
  Mixes <- MCMixes
  MaxAttempts = 2
  MaxSessions = 2
  MaxTokens = 1
  MaxPasswords = 2
INVARIANTS
  ScopeIsOwn
  SessionsMatchAccounts
  AdministratorRemains
  FailuresAreCounted
PROPERTIES
  RequestsAnswered
CHECK_DEADLOCK FALSE
