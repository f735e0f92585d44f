# TLA+ specifications of ERP Express Perú

ERP Express Perú is a modular ERP for small companies: a NestJS API over
PostgreSQL (`src/apps/api`), a worker (`src/apps/worker`), a React client
(`src/apps/web`), domain rules (`src/packages/domain`) and SQL migrations
(`src/migrations`). These specifications say what it does with what it keeps:

- its transactional core, the sale and what it moves (stock, accounts, payments,
  cash, documents, numbers), first as committed requests, then statement by
  statement with row locks, retries and lost connections; purchases and expenses;
  quotations and orders priced from the catalogue; imports;
- who may use it: log in, passwords, sessions, the guard, administrators, over the
  pool of database clients, and the registry of modules;
- the worker that reads the outbox and writes notifications, as the implementation of
  an abstract promise;
- what works beside it: waste, governance, OCR, the assistant and its providers,
  CRM, projects, people, assets, the company's data, demonstrations, rate limits.

TLC checks them on small instances and TLAPS proves the main results for every value
of the constants.

Run a model with `tlc -config X.cfg M.tla`, a proof with `tlapm M_proofs.tla`.

Contents: 1 the system; 2 the modules; 3 the runs; 4 fairness; 5 the proofs;
6 abstractions and bounds; 7 where code and documents disagree; 8 what is not
modelled; 9 the plan.

## 1. The system

All state that lasts is in PostgreSQL. A request of an authenticated user gets one
client of the pool (`database.service.ts`), its handler runs a few transactions at
READ COMMITTED, and components interact only through the rows they lock, read and
write and through the helper functions of the services. Every table row belongs to
a tenant and a company; one company is modelled.

| Component | State it keeps | Operations | What is hard | What makes it correct |
|---|---|---|---|---|
| Stock ledger (`inventory.service.ts`, `calculateStock`) | `stock_balances`, `stock_movements` and lines (append-only) | post a movement, transfer between warehouses | lines of one item in one movement; many writers of one balance; a movement keyed once | a balance is the sum of its lines; it is negative only where that is allowed |
| Sales (`sales.service.ts`) | `sales`, quotations, orders, their lines | quote, order, create, confirm, document, cancel | each operation touches four other components; order of operations; races between them | stock issued and returned once; a cancelled sale leaves nothing behind |
| Finance (`finance.service.ts`) | receivables, payables, payments and their applications, cash sessions and movements | pay, reverse, open and close a session | the account is computed in the application from a read; two rows say the same thing; closing races with paying | an account counts exactly its payments and agrees with its source; a closed session counts its cash |
| Documents and SUNAT (`sunat.service.ts`, `invoicing.providers.ts`) | `commercial_documents`, their events, `document_series` | issue, record an answer, submit to the demonstration provider, attach evidence | the checks of a sale read documents without locking them; one series for sales and notes | one document stands for a sale; no number is lost or used twice |
| Idempotency, audit, outbox (`operations.ts`) | `idempotency_keys`, `audit_events`, `outbox_events` | begin and complete a keyed operation, append | a retry meets the first attempt while it runs, after it committed or after it failed | a key is carried out once, and its replay answers what was done |
| Database service (`database.service.ts`, `packages/database`) | the pool, the open transactions, the tenant setting of each client | transaction, scoped transaction, request context | locks in different orders, lost connections, a pool that is used up | all or nothing; every request ends; the setting never leaks to another request |
| Module registry (`modules.service.ts`, `packages/domain/src/index.ts`) | `company_modules`, history | enable, disable | what was checked may no longer hold at the write; several managers at once | what is enabled has its dependencies, but where decisions crossed |
| Module enforcement (`auth.guard.ts`, `module-ownership.ts`, `module-verification.ts`) | none | decide on a request, verify at start | the order of the checks | every route is owned by a module or by the core |
| Purchases and expenses (`purchases.service.ts`) | `purchases`, `expenses`, payables, `supplier_documents` | create, confirm, register, cancel | the mirror image of sales, with receipts of stock; the document of a supplier is looked for before it is inserted | as for sales; no document is entered twice without a reason |
| Imports (`imports.service.ts`) | jobs, their rows, and what they write into the catalogue and the stock | preview, execute | a row fails and the whole transaction is rolled back; two executions, one of them twice; names taken meanwhile | a job that completed has every row in the tables once, any other has none |
| Waste management (`waste.service.ts`, `waste-management.ts`, `WasteWorkspacePage.tsx`) | records with version and events; the page with what it last saw | create, advance, raise an exception, fetch, press again | the answer is lost after the commit and every press has a fresh key; two pages advance one record | the phase of a record is the end of its history, which has no gap |
| Catalogue and prices (`catalog.service.ts`, `phase2.ts`) | items, price lists, entries | create, update, deactivate, resolve a price | names unique, one default list; validity and tiers; rounding line by line | an order asks what its quotation promised; totals reconcile with lines |
| Parties (`parties.service.ts`) | customers, suppliers, their roles and credit | create, update, deactivate, roles, credit | versions | plain; a quotation goes by the role it read |
| Authentication (`auth.service.ts`, `auth.guard.ts`) | counters and blocks of accounts, sessions, reset tokens | log in, log out, forget, reset and change a password, guard | each query is a transaction of its own; a user deactivated or a password changed between two of them | a session goes with an active account and its password; failures are counted |
| Users, roles, organization (`users.service.ts`, `organization.service.ts`, `CompanyPage.tsx`) | users, the company and its version, drafts in the browser | create, deactivate, edit and save | the last administrator is counted before the write; a recovered draft meets a newer version | a company keeps an administrator; nobody is overwritten unknowingly |
| Worker (`apps/worker/src/main.ts`) | outbox rows, notifications | claim and mark, generate | several workers, crashes between two transactions, rollbacks | every event is processed, once; every situation is notified in the end |
| Governance (`phase3/governance`) | legal versions, acceptances, consents, requests | publish, accept, revoke, consent, withdraw, ask | one user in two sessions; tables that only grow | a document is accepted once, and what was revoked is not in effect again |
| Phase 3 operations (`phase3/operations`, `packages/domain/src/phase3`) | opportunities, projects, employees, inspections, assets, work orders | create, transition, assign, complete | life cycles with evidence; two requests complete one work order | no closure without what it must show; each write has its audit |
| OCR, AI, maps, providers (`phase3/*`) | jobs and keys, counters, policy, choices, breakers, all in memory | extract, confirm, ask, test, activate | looked up before an await and written after it; providers that fail; restarts | an answer is of the document asked about; budget and calls are bounded |
| Schema (`migrations`) | constraints, triggers, policies | – | they are the last line of defence of the handlers | – |
| Migrations and seeds (`migrate.ts`, `demo-seed.ts`, `phase2-seed.ts`) | `schema_migrations`, the rows of a demonstration | seed, reset | the reset deletes with foreign keys off while the API writes; the seed runs at each start | a reset loses nothing it must preserve |
| Reports, PDF, storage, dashboard | files | read, render, store | – | – |
| Requests of the API (`http.ts`) | a window per caller | limit, intercept | the window is fixed, not sliding | a burst is bounded |
| Web, contracts, security helpers, scripts | drafts and pages (see Waste and Company) | – | – | – |

`PROJECT.json` lists the same components with what is modelled of each, and under
`hazards` every place found in the code where something may go wrong that a test
would hardly reach, with the property that watches it.

## 2. The modules

    Sources        the identities of sales, purchases and expenses
    Stock          balances and movements
    Finance        accounts, payments, cash sessions         (EXTENDS Sources)
    Documents      commercial documents and series           (EXTENDS Sources)
    SalesLedger    the life of a sale, one action per request
                                          (EXTENDS Stock, Finance, Documents)
    SalesTransactions   the same requests, statement by statement
                                          (EXTENDS SalesLedger)
    Procurement         purchases and expenses    (EXTENDS SalesLedger)
    ModuleRegistry      enabling and disabling modules

    Pool           the database clients of one API process
    Access         accounts, sessions, the guard and its handlers   (EXTENDS Pool)
    Outbox         what the outbox promises
    Worker         the workers, which implement Outbox      (INSTANCE Outbox WITH)

    Pricing        lines, totals and the choice of a price
    Catalogue      items, price lists, parties      (EXTENDS Stock, Pricing)
    Quotations     quotations, orders, drafts            (EXTENDS Catalogue)
    Imports        previews and executions                   (EXTENDS Catalogue)
    Commerce       the four together     (EXTENDS Quotations, Imports)

    Waste, Governance, Providers, Ocr, Assistant, Crm, Lifecycles, Assets,
    Records, Company, Demo, RateLimit             the parts beside the core
    Operations     all of them, one area per behaviour

    MC*            instances for TLC
    Sums_proofs    sums over finite sets
    Stock_proofs   what posting does to the ledger         (EXTENDS Stock, Sums_proofs)
    Ledger_proofs  theorems of SalesLedger and Procurement
    SalesTransactions_proofs, Commerce_proofs, Operations_proofs, Worker_proofs
    Platform_proofs   theorems of Access and ModuleRegistry

**Stock.** `balance[w][i]` is `stock_balances.quantity`, `movements` the posted rows
of `stock_movements` with their lines; the unique key of the table is the guard of
`PostMovement`. `CreateMovement` is `InventoryService.createMovement`: every line is
compared with the balance read before the first one is taken (`Calculable`), which
is why two lines of one item are let through.

**Finance.** `header[x]` is the status and paid amount of a sale, purchase or
expense, `account[x]` its receivable or payable, `payments` the sequence of
payments, each with its one application and the cash movement it is `booked` as,
`sessions` the cash sessions. `RegisterPayment`, `ReversePayment`,
`OpenCashSession` and `CloseCashSession` are the four handlers. What `applyBalance`,
the update of the account and the update of the source compute are operators of
their own (`ApplyBalance`, `HeaderAfterPayment`, `UnapplyBalance`,
`HeaderAfterReversal`), because the code writes them in different statements with
different expressions, and that they agree is what has to be shown.

**Documents.** The statuses and transitions of a document, the demonstration
provider, and the series. `Issued` and `Alive` are the two different conditions
under which a document stands in the way of another one and of a cancellation.

**SalesLedger.** `CreateSale`, `ConfirmSale`, `IssueDocument`, `CancelSale`, each one
committed request. A handler is split into what it looks at (`Confirmable`,
`Deliverable`, `Available`, `Documentable`, `Cancellable`, ...) and what it writes
(`WriteConfirmation`, `WriteDocument`, `WriteCancellation`), so that
SalesTransactions can take them apart. `Next` adds the steps of the other components.

**SalesTransactions.** A request is a row of `asks` and a position `at` in its
`Script`. A statement takes the row locks it needs in the order of their turns, the one
that is `Due` once nobody is in its way
(`TakeLock`, with PostgreSQL's lock modes in `Conflict`); with the last of them the
handler looks at the rows and goes on or answers (`Proceed`), and after the last one the transaction
commits (`Commit`). The connection may be lost at any point (`Lose`), and a
transaction that waits for itself through others is aborted (`Abort`). The first
statement inserts the idempotency key; a second request with that key waits for the
first one to end and then replays, conflicts, or runs. The statement `"papers"`, in which a
cancellation looks for documents, takes no lock: that none comes after it rests on the sale,
which is locked. What a handler computes from
a row and writes back later is kept in `read`, as the code keeps it in a variable:
`registerPayment` writes back an absolute applied amount. A payment in cash locks its
session first; any other only refers to it when it is inserted, last.

**Procurement.** Its own variables are what purchases and expenses were entered with
(`bought`, `spent`), the documents of suppliers and the entries under way; status,
account, payments and stock are those of Finance and Stock, which know every kind of
source. `ConfirmPurchase`, `CancelPurchase`, `CreateExpense`, `RegisterExpense` and
`CancelExpense` are committed requests. `create` is two steps: `BeginPurchase` looks
for the document, `InsertPurchase` inserts it or `AbandonPurchase` meets the unique
key, and other entries may commit in between. `ProcurementNext` adds the whole of
`SalesLedger!Next`: a sale or a movement may take what a purchase received before it is
cancelled.

**ModuleRegistry.** The request of a manager decides on what is enabled (`DecideEnable`,
`DecideDisable`) outside the transaction that writes (`WriteEnable`, `WriteDisable`);
`approved` is what it has decided on and not written. `crossing` notes the pairs of a
module and a dependency whose enabling and disabling were decided on against each other.

**Pool and Access.** A public request (login, forgotten password, reset) borrows a
client of the pool for each query; a guarded one is looked at by the guard query by
query and then keeps one client, with the company fixed in it, until its handler
ends. `waiting` is the line in front of the pool, `holds` and `scope` say whose client
is fixed to what. Each query or transaction is one action (`LoginRead`, `LoginFail`,
`LoginEnter`, `Guard`, `GuardModule`, `Begin`, `Change`, `Deactivate`, ...), so that
everything may happen between two of them, `Fail` and `Restart` included. What a
login read and writes back later is kept in its `request`. `crossed` names the users
whose logins overlapped and the companies whose administrators were deactivated by
decisions that did not see each other, where the code promises less.

**Worker and Outbox.** A cycle is two transactions: `Claim` and `CommitClaim` take
pending events under locks that other workers skip, `Generate` and `CommitGenerate`
insert the notifications that are missing. `Fail`, `Signal` and `Crash` interrupt
them, `Start` starts a worker again. `Outbox` says only that an appended event is
processed, once; its instance in `Worker` maps `pending` to the rows not yet marked
and `processings` to their attempts.

**Pricing, Catalogue, Quotations, Imports, Commerce.** `LineAmounts`, `Totals` and
`Resolved` are the arithmetic of `phase2.ts` with its truncations and half-up
roundings; its scales are the constants `One` and `Cent`. A quotation is priced when
it is created from the lists then in force, goes through its transitions, and is
converted into an order that copies its lines and four of its totals (`OrderPaper`: the
amounts by category are not kept in an order). A price list comes with all its entries. An import checks its file (`Preview`),
then writes row by row in one transaction (`Begin`, `ExecuteRow`, `Commit`,
`Rollback`); `written` are its rows nobody else sees, and a unique name or balance it
holds makes others wait (`WaitsForImports`). `Commerce` lets users, imports and
quotations change the same catalogue and the same stock.

**Waste.** Server and page: `Submit...` sends what the page last saw with a fresh key,
`ReadUnlocked`, `ReadForUpdate`, `Advance`, `Create`, `CreateException` are the
handler, `Answer` and `Lose` its end. Events, version and phase of a record are one row.

**Governance.** Each session writes one row in a transaction that conflicts with, or
waits for, what another has written (`Conflict`), and then commits or not. `Fits` is
the CHECK of migration 0010, which no publication passes.

**Providers, Ocr, Assistant.** The memory of one process. `Extract` and `Extracted`,
`Ask`, `AfterTool` and `Answered` are the two sides of an await; anything may happen
between them. `Admits`, `Succeeded`, `Failed` and `Cool` are the circuit breaker.

**Crm, Lifecycles, Assets.** The functions of the domain package, with the caller
their tests are: it keeps what they return and hands it back. **Records** is what the
API does with the tables of these areas: transactions that write a row and its
audit, under unique keys, parents of the same company and states asked for in the update.

**Company.** The form of a browser with its draft (`OpenForm`, `Type`, `LeaveForm`,
`Save`) and the handler behind it (`ReadBefore`, `WriteCompany`, `Saved`, `NotSaved`).
**Demo.** `Seed` and a reset table by table (`StartReset`, `BeginDelete`, `DeleteRows`,
`CommitReset`, `FailReset`) beside a writer whose rows have parents. A statement that
deletes has two steps: it picks what is committed when it begins, and waits for the
parents a writer has locked; a row committed meanwhile is not among them.
**RateLimit.** A window per caller, purged now and then.

## 3. The runs

| Run | Instance | What it shows |
|---|---|---|
| `sales_ledger` | two sales out of four drafts (a service, goods on credit, goods named on two lines, a gift on credit from the warehouse that may go negative), one movement entered by a user, three payments or reversals | `TypeOK`; `AccountAgreesWithSource`: source and account agree after every order of payments, reversals and cancellations; `AppliedIsWhatStands`: an account counts exactly the payments that stand; `BalanceIsLedgerSum`; `SaleMovesItsStockOnce`; `NegativeOnlyByRepetition`: a strict warehouse goes below zero only through lines that repeat an item |
| `sales_documents` | two sales, two documents, two series, one submission each, one payment | `OneStandingDocument`; `CancelledSaleIsUnwound`; `NumbersUsedOnce`: the numbers of a series are 1 to its last one, each in use once |
| `sales_transactions` | three requests out of twelve asks (confirm, cancel, pay, document, open and close a session, record an answer), over two drafts or over a confirmed sale on credit and an open session | `LedgerSteps`: the interleaved statements do nothing but atomic steps of `SalesLedger`; `KeyRunsOnce`; `ClosedSessionHasItsCash`; `RequestsEnd` |
| `procurement` | two purchases (goods on credit, a gift on credit, or goods in cash that name an item twice), one expense, one document of a supplier, two payments or reversals, one movement a user enters for the same item | `BuyingTypeOK`; `AccountAgreesWithSource` for payables; `PurchaseMovesItsStockOnce`; `CancelledBuyingIsUnwound`; `NegativeOnlyByRepetition` where stock also goes back to suppliers; `DuplicatesHaveReason` |
| `module_registry` | nine modules and their dependencies, two managers | `LacksOnlyWhatCrossed`: an enabled module lacks a dependency only if its enabling and the disabling of that very dependency were decided on against each other |
| `access` | two clients and two requests, or three where two companies work, four users of two companies, one of whom is to be created; in each behaviour one of five mixes of requests (attempts with right and wrong passwords; logins and deactivations of two administrators; work in two companies; an account opened and its password changed; a password forgotten, reset and changed); two sessions, one token | `ScopeIsOwn`: no client keeps the company of another request; `SessionsMatchAccounts`; `AdministratorRemains` and `FailuresAreCounted`, but where requests crossed; `RequestsAnswered`: every request ends |
| `worker` | two workers that claim one event each, two events, two rows short in stock under one notification, a module that may be disabled, one crash, signal or failure | `OutboxIsKept`: `Worker` implements `Outbox`, its liveness included; `SituationsAreNotified`; `NotificationsAreFew`: no more unread than rows that call for one or, where two workers inserted at once, than that many from each |
| `commerce` | two items, two lists of up to two tiers, one party, one quotation, two orders, a draft sale, two imports of four files (party, items, opening stock, prices); five mixes of requests that change the same catalogue | `OrderIsAsQuoted`: lines and totals; `TotalsReconcile`; `ImportsAreWhole`; `BalanceIsLedgerSum`, here with imports and users posting to one balance |
| `operations` | eleven areas, each behaviour about one of them (the constants of each are in `MCOperations`) | `LifecycleIsItsHistory` (waste); `AcceptancesAreFinal` (governance); `AnswersAreOfTheirDocument` (OCR); `UseIsBounded`: the budget of the assistant, what may be sent to it, and bursts of requests; `HistoriesAreUnbroken`: opportunities, closures, assignments, audits, the company and the demonstration |
| `credit_cancellation` | the same as `sales_transactions`, one request | violated: see 7 |
| `module_race` | two managers | violated: see 7 |
| `last_administrator` | as `access`, with the mix of logins and deactivations | violated: see 7 |

`LedgerSteps` is the refinement of `SalesLedger` by `SalesTransactions`: the
variables of the abstract specification are variables of the detailed one, so the
refinement mapping is the identity and every step must be a `Next` step or leave
them alone. A check that no longer holds when the transaction commits, or a value
written back over a newer one, would be no such step. Section 5 proves it for every
number of requests.

**Why the bounds are enough.** Two sales are the least that compete for a balance, a
number or a session. Three payments give two partial payments and the reversal of
one of them, or a reversal and a payment after it; the two of `procurement` are
enough for what differs there, the source that takes over the account and gives it
back. The third request of `sales_transactions` is what a deadlock between two needs
to be seen by a bystander, and a retry needs two. Amounts of one cent against totals of 0, 1 and 2 reach an
account that is partly paid, paid, and paid in full at once. `MaxPayments`,
`MaxSessions`, `MaxDocuments`, `MaxAttempts` and `MaxRequests` are the only bounds
on counters and are guards named in the modules. `SaleSymmetry` permutes the two
sales and `PurchaseSymmetry` the two purchases, which nothing but their drafts tells
apart; they are used with invariants only. So is the `MCSymmetry` of
`module_registry`, of managers.

In `procurement` a movement a user enters takes what the purchases receive: to them it
does what a sale would, with fewer states; the proofs of section 5 have both.

In `access` two requests have a client each, so that their handlers overlap, and where there
are three, one waits for a client. The two sessions are the least a change of password has to tell apart; every pair of
requests that write one account is in a mix. In `worker` one event per cycle leaves
one behind for the other worker, and one interruption falls between any two steps.
In `commerce` a unit is 20 parts, a cent 4 and the tax rate one in five, so that the quantities and
prices used fall on both sides of a half cent; two orders and two imports are what
competes for a quotation, a name or a balance. In `operations` two requests, pages,
sessions or callers are what races; `MaxMoves`, `MaxAssignments`, `MaxRecords`,
`MaxJobs`, `MaxCalls`, `MaxGiven`, `MaxUpdates`, `MaxKeystrokes`, `MaxRows`,
`MaxCommands` and `MaxNow` are named bounds in guards, long enough for a record to
go through its life cycle and for one change to meet another.

A behaviour of `operations` keeps to one area, since the areas share no table and no
memory but the providers, which are part of the two areas that use them.

`CHECK_DEADLOCK FALSE` stands in the runs where a behaviour may use up its bounds
and where nobody is obliged to send a request.

## 4. Fairness

**SalesTransactions**: `WF_allVars(\E r \in Requests : Step(r))`. As
long as some request can take a lock, go on, commit or be chosen as the victim of a
deadlock, one of them eventually does. It is what the event loop and the database
give: they do not stand still while there is work. It is weaker than fairness for each
request; nothing is assumed about who gets a lock first. Clients (`Send`) and lost
connections (`Lose`) have no fairness: nobody is obliged to send, and nothing is
bound to be lost. PostgreSQL's deadlock detector is `Abort`, which is enabled
exactly for the transactions that wait in a cycle.

**Access**: `WF_allVars(Step(r))` for each request. The pool serves its line first come
first served and a handler runs on a client it already has, so the event loop brings
each request forward once it is at its turn; nothing else takes its turn away.
Arrivals, failures, restarts and expirations have no fairness. It is enough because
every request that holds a client runs to its end without asking for another.

**Worker**: `WF_workerVars(Cycle(w))` for each worker. The loop of `main.ts` does not end
but by a signal, and the container starts it again
(`restart: unless-stopped`, `deployment/demo/docker-compose.demo.yml`). Crashes, signals and failed
transactions are bounded by `MaxInterruptions` and not fair: with endlessly many,
nothing could be promised. What the API does has no fairness.

**Outbox**: `WF` of the processing of each event, which is what `OutboxIsKept` shows
to follow.

The other specifications state safety only.

## 5. The proofs

All proofs are checked by TLAPS for every set of sales, purchases, expenses, warehouses,
items, drafts, tills and amounts, of price lists, parties, quotations and import files,
of users, sessions, requests, keys, clients, workers, events, pages, records, questions
and callers, and every bound.

| Theorem | Module | Supposing |
|---|---|---|
| `TypeCorrect`: `Spec => []TypeOK` | `Ledger_proofs` | – |
| `AccountsAgree`: `Spec => []AccountAgreesWithSource` | `Ledger_proofs` | – |
| `AppliedIsTheSum`: `Spec => []AppliedIsWhatStands` | `Ledger_proofs` | – |
| `BalancesAreTheSum`: `Spec => []BalanceIsLedgerSum` | `Ledger_proofs` | – |
| `StockMovesOnce`: `Spec => []SaleMovesItsStockOnce` | `Ledger_proofs` | – |
| `DocumentStandsAlone`: `Spec => []OneStandingDocument` | `Ledger_proofs` | – |
| `CancelledIsUnwound`: `Spec => []CancelledSaleIsUnwound` | `Ledger_proofs` | – |
| `NegativeNeedsRepetition`: `Spec => []NegativeOnlyByRepetition` | `Ledger_proofs` | – |
| `NumbersStayUnique`: `Spec => []NumbersUsedOnce` | `Ledger_proofs` | – |
| `RequestsAreAtomic`: `SideBySide => LedgerSteps` | `SalesTransactions_proofs` | – |
| `KeysRunOnce`: `SideBySide => []KeyRunsOnce` | `SalesTransactions_proofs` | – |
| `ClosingCountsTheCash`: `SideBySide => []ClosedSessionHasItsCash` | `SalesTransactions_proofs` | – |
| `BuyingTypeCorrect`: `ProcurementSpec => []BuyingTypeOK` | `Ledger_proofs` | – |
| `BuyingAccountsAgree`: `ProcurementSpec => []AccountAgreesWithSource` | `Ledger_proofs` | – |
| `BuyingAppliedIsTheSum`: `ProcurementSpec => []AppliedIsWhatStands` | `Ledger_proofs` | – |
| `BuyingBalancesAreTheSum`: `ProcurementSpec => []BalanceIsLedgerSum` | `Ledger_proofs` | – |
| `ReceivedOnce`: `ProcurementSpec => []PurchaseMovesItsStockOnce` | `Ledger_proofs` | – |
| `CancelledBuyingUnwinds`: `ProcurementSpec => []CancelledBuyingIsUnwound` | `Ledger_proofs` | – |
| `BuyingNegativeNeedsRepetition`: `ProcurementSpec => []NegativeOnlyByRepetition` | `Ledger_proofs` | – |
| `DuplicatesAreExplained`: `ProcurementSpec => []DuplicatesHaveReason` | `Ledger_proofs` | – |
| `TotalsStayReconciled`: `CommerceSpec => []TotalsReconcile` | `Commerce_proofs` | – |
| `OrdersStayAsQuoted`: `CommerceSpec => []OrderIsAsQuoted` | `Commerce_proofs` | – |
| `ImportsStayWhole`: `CommerceSpec => []ImportsAreWhole` | `Commerce_proofs` | – |
| `CommerceBalanceIsLedgerSum`: `CommerceSpec => []BalanceIsLedgerSum` | `Commerce_proofs` | – |
| `OnlyCrossedIsLacking`: `RegistrySpec => []LacksOnlyWhatCrossed` | `Platform_proofs` | – |
| `ScopeStaysOwn`: `AccessSpec => []ScopeIsOwn` | `Platform_proofs` | – |
| `SessionsStayMatched`: `AccessSpec => []SessionsMatchAccounts` | `Platform_proofs` | – |
| `FailuresStayCounted`: `AccessSpec => []FailuresAreCounted` | `Platform_proofs` | – |
| `AdministratorStays`: `AccessSpec => []AdministratorRemains` | `Platform_proofs` | – |
| `OutboxIsSafe`: `WorkerSpec` implements the initial state and the steps of `Outbox` | `Worker_proofs` | – |
| `NotificationsStayFew`: `WorkerSpec => []NotificationsAreFew` | `Worker_proofs` | – |
| `LifecycleIsKept`: `OperationsSpec => []LifecycleIsItsHistory` | `Operations_proofs` | – |
| `AcceptancesStayFinal`: `OperationsSpec => []AcceptancesAreFinal` | `Operations_proofs` | – |
| `HistoriesStayUnbroken`: `OperationsSpec => []HistoriesAreUnbroken` | `Operations_proofs` | – |
| `AnswersStayOfTheirDocument`: `OperationsSpec => []AnswersAreOfTheirDocument` | `Operations_proofs` | – |
| `UseStaysBounded`: `OperationsSpec => []UseIsBounded` | `Operations_proofs` | – |

Reversals are covered: the theorems hold whether `ReversalRuns` or not, for the deployed
code and for the one whose reversals commit (see 7). `SideBySide` is a `LedgerInv` state
in which a closed session has its cash and no request was sent yet, and any steps of the
requests from there; a new ledger is such a state (`NewLedgerIsOne`), and so are those
the run starts in. Fairness is of no use to safety.

**Assumptions.** The modules name what they assume of their constants, and TLC evaluates
it in the runs. Most say that a constant has its type or that a null is none of the
values. The others are what the code or its configuration gives: the catalogue has every
warehouse that may go negative (`StockAssumption`); a tax rate is between 0 and 1, as
the table requires (`QuotationsAssumption`); a behaviour of `Commerce` starts with a
catalogue only users made (`CommerceAssumption`); an ask carries the fields its
endpoint validates, and a payment in cash a cash account and a session
(`finance.service.ts:87`), and items have an order, that of their identifiers
(`sales.service.ts:454`; both in `TransactionsAssumption`); a record that is checked
against a parent is of a kind that has one (`RecordsAssumption`); a demonstration's seed
brings the parents of its rows, since it is first run with foreign keys on, and what is
preserved belongs to what is preserved (`DemoAssumption`); readers belong to companies (`OcrAssumption`); the default provider
of a category is there for all companies (`ProvidersAssumption`); there are finitely
many questions at once and a greatest limit among the policies (`AssistantAssumption`), and
finitely many workers and rows to notify of (`WorkerAssumption`);
a window has a length (`RateLimitAssumption`).

*Sums.* What is applied, a balance and the requests of a window are sums over sets,
written with `MapThenSumSet`. `Sums_proofs` says what a sum is by a function over the
subsets of the set (`SumsWithin`), shows that there is just one (`SumsExist`,
`SumsAgree`), and proves by induction over subsets (`SubsetInduction`, from the
well-foundedness of the strict subset ordering) that one element may be taken out,
whichever it is (`SumWithout`), that sums of disjoint sets add up (`SumOfUnion`), and
that they depend on the terms only (`SumOfSame`). `SumsAreOver` leads from the fold of
the library to it.

*The ledger.* `TypeOK` is not inductive: that the outstanding part of an account stays a
natural number needs that applied and outstanding add up to the principal, that the
source was still CONFIRMED when it is cancelled needs that its status follows the
account's, and that a reversal takes away no more than is applied needs that what is
applied is the sum of the payments that stand. `LedgerInv` is therefore `TypeOK`,
`AccountAgreesWithSource`, `MoneyStands` (the sum) and `StockLedger` (balances are the
sums of finitely many movements). The lemmas `SettlingAgrees`, `ConfirmingAgrees`,
`CancellingAgrees` and `CreatingAgrees` show for one source that what a handler writes
agrees again; `ReplacingOne` lifts them to all sources; one lemma per action concludes
for the invariant.

*The stock of a sale.* `StockInv` says by the status of a sale which of its two
movements are posted. It is inductive next to `LedgerInv`, whose part is that paying
never takes a sale out of CONFIRMED, PARTIALLY_PAID and PAID. For
`NegativeOnlyByRepetition`, one movement whose lines name an item once takes no more
than the balance it was compared with, line by line, and a movement with a repetition
stays posted.

*Documents and numbers.* `DocumentsStep` says that one step adds at most one document,
only where none stands, and that a document that was cancelled stays so; both document
theorems follow from it and from `CancelledBy`, by which a cancelled sale was cancelled
before, or is cancelled in this step, which its documents allowed. `NumbersInv` adds
that a sale has no number before it is confirmed, so that whoever takes the next number
of a series had none (`TakingOneNumber`), whether it is a sale or a document.

*Requests side by side.* `TransactionsInv` says of each request what it knows: whatever
a statement it has behind it found (the status of its sale, the balances, the account it
will write back, the session, the till, the document) is still so, because it holds that
row locked (`KnowsSale`, `KnowsBalances`, `KnowsAccount`, ...), or, for the documents of a sale that
is cancelled, because the sale they would be issued for is (`KnowsPapers`). It is inductive because
a commit writes only rows its request holds in a mode that conflicts with those who read
them (`WritesItsRows`, `LocksOK`), and leaves the others' alone. Then a commit is an
action of `SalesLedger` with its guard (`CommitIsStep`), the refinement follows, and
`LedgerInv` itself comes along. `KeysOK` says that the idempotency row of a key is there
exactly when one request with it was carried out: the lock on the key is held until
then. That a closing counts all the cash needs that a payment shares the session's row
until it commits.

*Purchases and expenses.* `BuyingInv` is `LedgerInv` and `BuyingTypeOK`. The steps of
the sales keep it by the lemmas above; a handler of this module replaces one source and
its account by two that agree, for which `BuyingKeepsLedger` concludes once, from the
same lemmas about one source. That a cancelled purchase owes nothing and no payment of
it stands is a consequence: positive payments that add up to 0 are none. `ReceiptInv` is
to purchases what `StockInv` is to sales: it needs that nobody else posts under their
keys (`OthersPostNoPurchase`). `DuplicatesHaveReason` is inductive by itself: the unique
key is all there is to it, whatever the look-up found.

*Commerce.* `CommerceInv` is `CatalogueOK` (the rows have their types), `StockLedger`,
`PapersInv` and `ImportsInv`. For the totals, `Division` and `Rounding` say what half-up
rounding is for every numerator, which is beyond TLC's integers at the scales of the code;
`LineReconciles` what the cents of a line are to each other, and `LinesReconcile` sums
that up, each category being a sum over all lines with the others put to 0
(`NetIsSummed`). `PapersInv` says of every paper that its lines were taxable and its
totals are theirs, and of an order that its quotation is converted into it and has the
lines and totals it copied (`OfItsQuotation`): no transition leaves CONVERTED, which gives
`OrderIsAsQuoted`. `ImportsInv` says of a running execution that the items and parties
it has written are in no table and not twice in its rows (`WritesOK`), that no two
executions hold the same (`Holds`), and by `OriginsOK` that a job has all its rows in
the tables or none. Users keep it because they wait for what is held (`OthersAreUsers`,
`UsersMakeTheirs`), a row because it is written only where no unique key is taken
(`WritingRowKeeps`), and a commit because it then writes what nobody else holds
(`CommittingKeeps`). It posts all opening stock at once: `OpeningKeepsLedger` needs that
the sum over the new movements is the sum over the rows (`SumOfImages`).

*The registry.* That every enabled module has its dependencies is false, as `module_race`
shows; what is proved is how far it can go, for any number of managers. `WaitingOK` says of
a change that waits to be written that what it was decided on still holds but for what is
`crossing`, and that whoever is about to be enabled, or is, and depends on what is about to
be disabled is noted there. Both decisions add what they find in work, and a disabling that
is written forgets its module only when nobody is about to enable it again.

*Access.* `AccessInv` is about three things. `BooksOK`: the rows have their types and
sessions match accounts. `RequestsOK`: a request has the form of its kind, and the
session or token it names exists (`Grown`: they are added and keep their user).
`PoolOK`: a request stands once in the line, and only before its handler; it has a
client only while its handler runs; no two have the same one; and `ScopeIsOwn`. Six
lemmas say what happens to requests and pool (`TurnEnds`, `AsksAgain`, `Arrives`,
`Begins`, `Handles`, `Ends`), from how the line moves (`LineMoves`); each action is one
of them and a change of rows. `CountsOK` says for who is not in `crossed` that at most
one login has read the account and that it holds the count the row still has; `AdminsOK`
that some administrator is active whom no decided deactivation is about.

*Worker.* `WorkerInv` adds to the types that what a worker has claimed and not committed
is still pending and claimed by nobody else (`ClaimsHold`), which SKIP LOCKED gives.
With it `CommitClaim` maps to `Process` of the claimed events and every other step but
`AppendEvent` to a stutter. `NotificationsInv` says that a transaction which inserted
notifications of a key and has not committed them found nothing unread there, and is the
only one, but for the keys where two overlapped: what it commits adds to nothing. For
these, `CopiesInv` counts the workers that are `Busy` with a key: what is unread was
committed by the others, one set of rows from each at most, since whoever inserts found
nothing unread.

*Operations* has an invariant per area, and a step of one area leaves the others' alone.
`WasteInv` says, besides the property, that pages and requests name only records that
were made (`KnownExist`) and that a request which has locked a record holds the row as
it is (`LockedIsRead`): the version it compares is then the version it writes.
`GovernanceInv` adds that rows written and not committed have keys of their own
(`WritesAreFree`), which is what the unique keys and the waiting for them give.
`HistoriesInv` joins the areas of `HistoriesAreUnbroken`: `CrmInv`, `LifecyclesInv`,
`AssetsInv` (only the last assignment is open), `RecordsInv` (uncommitted work does not
meet, `WorkIsSound`), `CompanyInv` (a form whose version is the company's shows the
company, `UpToDate`, but for what was kept from a draft) and `DemoInv` (what a reset has
begun with holds only what it deletes and what slipped in, and what lost its parent is of a
table that is still to come or comes before its parent's, `ResetIsSound`). `OcrInv` says that job,
call and answer are each of the document that was asked about, and `ProvidersInv` that
who was chosen is visible. For `UseIsBounded`, `AssistantInv` counts the questions at
work with those answered (`WithinBudgets`), `BreakersInv` goes along, and `RateInv` says
of a window with its counter how much can have been admitted since when (`Paced`), which
is what makes two windows the bound of any span.

**Only model-checked.** `RequestsEnd`, `RequestsAnswered`, `SituationsAreNotified` and
the liveness of `OutboxIsKept` need fairness and are out of the prover's reach. The
three properties of runs that expect a violation are false.
Every other property of a run is proved.

## 6. Abstractions

- Tenants and companies: the core has one company. Where it matters whose a row is
  (Access, Ocr, Assistant, Records, Company) there are two; row-level security is the scope
  fixed in a client, not the filtering of rows.
- A draft stands for the request that creates a sale: condition, total, warehouse
  and the lines that manage stock. Prices and taxes are computed in Pricing.
- Quantities and amounts of the ledger are integers: cents and whole units, which the code
  rounds to before they get there. In Pricing the scales (a million parts to a unit, ten thousand
  to a cent) are constants, since their products are beyond TLC's integers.
- `REGISTERED`, the status of a registered expense, is written CONFIRMED. OVERDUE
  and the like are never stored by the code and are not statuses here.
- A balance row is taken to exist with quantity 0; the code inserts it on demand
  before it locks it.
- The expected balance of a closed session is represented by the set of payments it
  counts (`counted`): a sum could be right by accident, the set cannot. The balance
  a person counts and the reason of a difference are left out.
- A till is a cash account with its user, the pair the unique index
  `cash_sessions_one_open` is about.
- The three spaces of keys (idempotency rows, movements, payments) are separate;
  the hazards say where the code lets them meet.
- A person may record any transition for a document at any time; permissions are
  checked before the handlers and are left out.
- `ReversalRuns` is a constant: FALSE is the deployed code. TRUE stands for the same
  code with its lock clause narrowed to the applications, so that the arithmetic of
  reversals is checked, not only shown to be unreachable.
- A transaction's writes are invisible until it commits and its reads see what is
  committed; a statement that waited looks again at the row it waited for, as READ
  COMMITTED does. The foreign key shares that conflict with nothing a modelled
  request takes are left out.
- Creating a sale only inserts rows of its own, waits for nobody and is in
  `SalesLedger` only; so are reversals, which do not commit, and submissions to the
  demonstration provider, which lock the document as `ManualTransition` does.
- Taking the last lock of a statement and what the handler does with the rows it then
  has are one step (`Proceed`): nothing else touches those rows in between. What a
  statement reads without locking it, it reads in that step, and others may change it
  before the next one.
- The handlers of purchases and expenses are committed steps, but for the two halves
  of an entry: they lock their row, account and balances as the sales do.
- Of the module registry, nine modules that depend on each other are instantiated;
  the specification takes any registry.
- Passwords are numbers that grow with each change; whether the one given is right is a
  property of the request. Expirations may happen at any time.
- In Access a transaction is one step: those that write an account or its sessions
  update the row of the account first, whose lock puts them in order.
- `crossed` (Access), `overlapped` (Worker) and `crossing` (ModuleRegistry) are history
  variables: they name where requests crossed, so that the properties say what the code
  promises everywhere else. So are the `source` of an event of Crm and `slipped` in Demo.
- The rows a notification is about are constants; reading one is always possible.
- A day of prices is a number up to `LastDay`; all prices are in one currency, and the
  assignment of a list to a customer is always valid. Names of items (code, barcode) are
  members of one set, two of them if a code and a barcode read alike; what else an item or
  party carries is left out.
- What Crm, Lifecycles and Assets translate are functions of the domain package whose only
  callers are its tests: their properties are about the functions, not about requests.
- Waste: the API writes no record as CLOSED, so that the check for it is left out.
- A page of Waste waits for one answer at a time. A document of governance, a source of
  the assistant and a policy are members of small sets.
- A provider is tested by one request at a time. Nothing in the source but its tests
  registers providers or sets a policy; the instances do as the tests do.
- Company: one firm, one of its fields, two browsers; the cache of queries in the browser is
  left out. Demo: seven tables, one writer, one command at a time; the
  seed's replacement of role permissions is left out.
- RateLimit: time is a number that grows by one; the purge follows the number of windows.

## 7. Where code and documents disagree

1. *Cancelling a sale on credit* (`credit_cancellation`). `cancelSale` sets the
   outstanding amount of the receivable to 0 and leaves its principal
   (`sales.service.ts:648`); the table requires applied + outstanding = principal
   (`0002_phase2_operations.up.sql:819`). The cancellation of an unpaid credit sale
   ends in a database error and rolls everything back, stock included. Only a sale
   of total 0 passes. `docs/PHASE-2-REPORT.md:93` lists cancellations as done.
2. *Enabling against disabling* (`module_race`). What is enabled is read outside the
   transaction that writes (`modules.service.ts:28`), so a module can be enabled
   while its dependency is being disabled. `docs/MODULE-SYSTEM.md:23` says the API
   prevents enabling with pending dependencies.
3. *The last administrator* (`last_administrator`). `deactivate` counts the active
   administrators before its transaction (`users.service.ts:67`), which does not count
   again: two that deactivate each other leave none. `users.service.ts:78` refuses to
   deactivate the last one. `AdministratorRemains` holds where decisions did not cross.

Met while modelling, and stated by no run:

- `reversePayment` locks the nullable side of outer joins, which PostgreSQL refuses
  (`finance.service.ts:228`); `docs/PHASE-2-REPORT.md:96` lists reversals as done.
  `transfer` updates a posted movement, which the append-only trigger refuses
  (`inventory.service.ts:209`; same report, line 98).
- Publishing a legal version writes a status the table does not allow
  (`governance.service.ts:92`, `0010` line 9): no publication commits, and what users
  accept are the versions the seeds published. An acceptance that was revoked can never
  be given again.
- Payables needs purchases or expenses to be enabled, but disabling looks only at the
  dependencies column (`modules.service.ts:59`): both can be disabled under it, one after the
  other. `docs/stabilization/S2-MODULE-ENFORCEMENT.md:114` says disabling is refused when there
  are dependents.
- A notification is inserted where none is unread, which sees only what is committed
  (`main.ts:61` of the worker), and no unique key stands behind it: two workers both insert.
  `docs/WORKFLOW-RULES.md:7` calls notifications idempotent. `NotificationsAreFew` bounds the
  copies.
- The deactivation of an administrator of two companies is decided by the count of one of them.
- `docs/SECURITY.md:5` says an account is blocked after failed attempts; attempts that run
  side by side count once, and a late success resets the count (`auth.service.ts:53`).
- A quotation can be set to CONVERTED by the endpoint of its status, without an order. A price
  written by hand is ignored when a list has one. The credit limit is read by nothing.
- A draft recovered by `CompanyPage.tsx:45` is sent with the version just read, so that the
  version does not notice what another user wrote meanwhile. `CompanyIsNotOverwritten`
  excludes exactly the recovered drafts.
- The reset of a demonstration looks at four relations only, where
  `docs/phase3/AGENT-TASK-MATRIX.md:42` calls it isolated; rows written behind
  it may be left without a parent, where their table comes before their parent's. The seed, run at each start, enters the opening stock
  again. `DemoIsWhole` says how far each goes.
- Every press on the waste page draws a fresh key (`apps/web/src/api.ts:39`), so that a creation whose
  answer was lost is repeated; an advance is not, thanks to its version.
- A provider can be activated although its last test said UNAVAILABLE
  (`provider-management.service.ts:175`), and deactivating one removes whatever is active
  in its category.
- `transitionEmployee` lets an employee leave without the checklist
  `completeEmployeeExit` asks for; a time entry may be approved by who entered it, an expense
  may not; work orders of the API skip verification and required tasks, which the domain asks for.

## 8. What is not modelled, and why

- *Reports, PDF, storage, dashboard*: queries, formatting and files; they change no state
  that another part relies on.
- *Contracts* are types; the helpers of `packages/security` are pure predicates over
  strings and dates; *scripts, deployment and the site* build and package.
- *Database schema*: the constraints the handlers rely on are in the modules of those
  handlers. Row-level security is seen as the scope of a client.
- *Web application*: the waste page and the form of the company are modelled; the other pages
  are the environment, what they send is what the models let a client send.
- *Transfers* between warehouses cannot commit (see 7).
- *Catalogue*: units, categories and brands; *parties*: what nothing modelled reads.
- *Imports*: the parsing of CSV text and the exports. *Governance*: retention policies,
  legal holds and the health report. *OCR*: the review page and the marking of duplicates.
  *Assistant*: feedback and the summary of use. *Maps*: input and output of a provider.
- *Phase 3*: budgets, the weighted progress of projects, approvals and versions of contracts.
- *Users*: the creation of roles and the list of branches. *Module enforcement*: the
  verification at start, a static look-up.
- *Migrations*: `migrate.ts` is run by hand, one at a time.

## 9. The plan

1. **Done**: the core (stock, finance, documents, sales as requests and as statements,
   purchases and expenses, the registry of modules) with its proofs, reversals included.
2. **Done**: access over the pool, the worker against its outbox, commerce, the areas of
   `Operations`, and the proofs about access, worker and every area.
3. **Done**: sums, the refinement of the ledger by requests side by side, keys and cash.
4. **Done**: commerce: totals, orders, imports, and the balances imports post to.
5. **Next models**: transfers and reversals, once their statements can commit; the
   parts of the areas named in 8 when they are given callers outside their tests.
