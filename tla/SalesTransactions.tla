------------------------- MODULE SalesTransactions -------------------------
(***************************************************************************)
(* The requests that confirm, cancel, charge and document sales, run side  *)
(* by side, each a database transaction at READ COMMITTED that goes from   *)
(* one statement to the next.  A statement waits for the row locks it      *)
(* needs, reads the rows, and the handler then goes on or gives up; what   *)
(* the transaction writes becomes visible when it commits.                 *)
(*                                                                         *)
(* A request carries an idempotency key, which the first statement inserts *)
(* (apps/api/src/operations.ts): a client that got no answer sends it again.*)
(* A client sends again whether its answer was lost or not; the connection *)
(* may be lost at any statement, which rolls the transaction back.         *)
(*                                                                         *)
(* The request that only inserts rows of its own (createDirectSale) waits  *)
(* for nobody; it is left to SalesLedger.                                  *)
(***************************************************************************)
EXTENDS SalesLedger

CONSTANTS
  MaxRequests, \* bound: the requests clients send, numbered as they arrive
  Asks,        \* what they may ask for
  NoAsk,
  Keys,        \* the idempotency keys, each of one user and operation
  ItemOrder,   \* the items in the order of their identifiers
  NoResult

Requests == 1 .. MaxRequests

\* What a client may ask for.  A payment in cash names a cash account with its session:
\* any other is refused before a row is looked at.
Ask ==
  [op : {"ConfirmSale", "CancelSale"}, key : Keys, sale : Sales]
  \cup [op : {"IssueDocument"}, key : Keys, sale : Sales, type : DocumentTypes]
  \cup {ask \in [op : {"RegisterPayment"}, key : Keys, sale : Sales, amount : Amounts,
                 method : {"CASH", "OTHER"}, session : Nat \ {0}, booked : BOOLEAN] :
         ask.method = "CASH" => ask.booked}
  \cup [op : {"OpenCashSession"}, key : Keys, till : Tills]
  \cup [op : {"CloseCashSession"}, key : Keys, session : Nat \ {0}]
  \cup [op : {"ManualTransition"}, document : Nat \ {0}, target : DocumentStatus]

Content(ask) == [f \in DOMAIN ask \ {"key"} |-> ask[f]]

ASSUME TransactionsAssumption ==
  /\ MaxRequests \in Nat
  /\ Asks \subseteq Ask
  /\ NoAsk \notin Asks
  /\ NoResult \notin [content : {Content(ask) : ask \in Asks}, response : Nat]
  /\ ItemOrder \in Seq(Items)
  /\ \A i \in Items : \E n \in DOMAIN ItemOrder : ItemOrder[n] = i

VARIABLES
  asks,      \* what each request asks for, once it is sent
  at,        \* the statement each request is at, 0 while it is not running
  locks,     \* the row locks that are held
  read,      \* what a request read that it writes back later
  results,   \* the idempotency row of each key, once committed
  outcome    \* how each request ended

requestVars == <<asks, at, locks, read, results, outcome>>
allVars == <<vars, requestVars>>

Unread == [account |-> NoAccount, counted |-> {}]

\* No request has been sent; the company is in a state its ledger can be in.
RequestsInit ==
  /\ asks = [r \in Requests |-> NoAsk]
  /\ at = [r \in Requests |-> 0]
  /\ locks = {}
  /\ read = [r \in Requests |-> Unread]
  /\ results = [k \in Keys |-> NoResult]
  /\ outcome = [r \in Requests |-> "none"]

-----------------------------------------------------------------------------
(* The statements of each operation, and the locks each of them takes.     *)

\* A payment in cash begins with its session; any other refers to it at the end.
Script(ask) ==
  CASE ask.op = "ConfirmSale"      -> <<"key", "sale", "balances", "number">>
    [] ask.op = "CancelSale"       -> <<"key", "sale", "papers", "account", "return">>
    [] ask.op = "RegisterPayment"  -> IF ask.method = "CASH"
                                      THEN <<"key", "session", "account", "sale">>
                                      ELSE <<"key", "account", "sale", "session">>
    [] ask.op = "IssueDocument"    -> <<"key", "sale", "number">>
    [] ask.op = "OpenCashSession"  -> <<"key", "till">>
    [] ask.op = "CloseCashSession" -> <<"key", "session", "till">>
    [] ask.op = "ManualTransition" -> <<"document">>

Statement(r) == Script(asks[r])[at[r]]
AtCommit(r)  == at[r] = Len(Script(asks[r])) + 1
Running(r)   == at[r] # 0

\* A statement takes its locks one by one, those with the least turn first.
Lock(row, mode, turn) == [row |-> row, mode |-> mode, turn |-> turn]
Only(row, mode) == {Lock(row, mode, 0)}

\* SELECT FOR UPDATE, UPDATE of columns that are no key, and a foreign key check.
Conflict(m, n) ==
  \/ "UPDATE" \in {m, n}
  \/ m = "NO KEY UPDATE" /\ n = "NO KEY UPDATE"

\* The balances of the lines, in the order of the items.
BalanceTurns(d) == {n \in DOMAIN ItemOrder : ItemOrder[n] \in ItemsOf(d.lines)}

BalanceRows(d, mode) ==
  {Lock(<<"balance", d.warehouse, ItemOrder[n]>>, mode, 2 * n) : n \in BalanceTurns(d)}

\* The join with warehouses locks the warehouse row with the first balance.
BalanceLocks(d) ==
  IF MovesStock(d)
  THEN BalanceRows(d, "UPDATE") \cup
       {Lock(<<"warehouse", d.warehouse>>, "UPDATE", 2 * Min(BalanceTurns(d)) + 1)}
  ELSE {}

\* The movement refers to the warehouse, then each balance is updated.
ReturnLocks(s, d) ==
  IF Returns(s, d)
  THEN Only(<<"warehouse", d.warehouse>>, "KEY SHARE") \cup BalanceRows(d, "NO KEY UPDATE")
  ELSE {}

\* Mutant: only the closing locks the session, a payment just refers to it.
SessionLockOfClosing(ask) ==
  IF ask.op = "CloseCashSession" THEN "UPDATE" ELSE "KEY SHARE"

\* A payment in cash locks its session; any other only refers to it.
SessionLock(ask) ==
  IF ask.op = "CloseCashSession" \/ ask.method = "CASH" THEN "UPDATE" ELSE "KEY SHARE"

\* Mutant: the sale is read without locking it against the others.
NoSaleLock(ask) == "KEY SHARE"

SaleLock(ask) == IF ask.op = "RegisterPayment" THEN "NO KEY UPDATE" ELSE "UPDATE"

\* The unique index of open sessions: an insertion waits for another one and for an
\* update that closes the session in its way.
TillOf(ask) == IF ask.op = "OpenCashSession" THEN ask.till ELSE sessions[ask.session].till

SeriesOf(ask) == IF ask.op = "ConfirmSale" THEN "INTERNAL_SALE" ELSE ask.type

LocksOf(r) ==
  LET ask == asks[r] IN
  CASE Statement(r) = "key"      -> Only(<<"key", ask.key>>, "UPDATE")
    [] Statement(r) = "sale"     -> Only(<<"sale", ask.sale>>, SaleLock(ask))
    [] Statement(r) = "balances" -> BalanceLocks(draft[ask.sale])
    [] Statement(r) = "number"   -> Only(<<"series", SeriesOf(ask)>>, "UPDATE")
    [] Statement(r) = "account"  -> IF HasAccount(ask.sale)
                                    THEN Only(<<"account", ask.sale>>, "UPDATE") ELSE {}
    [] Statement(r) = "return"   -> ReturnLocks(ask.sale, draft[ask.sale])
    [] Statement(r) = "session"  -> Only(<<"session", ask.session>>, SessionLock(ask))
    [] Statement(r) = "till"     -> Only(<<"till", TillOf(ask)>>, "UPDATE")
    [] Statement(r) = "document" -> Only(<<"document", ask.document>>, "UPDATE")
    [] Statement(r) = "papers"   -> {}

\* The locks its statement still needs, the one whose turn it is, who is in the way.
Holds(r, row) == \E h \in locks : h.by = r /\ h.row = row
Missing(r)    == {l \in LocksOf(r) : ~Holds(r, l.row)}
Due(r)        == {l \in Missing(r) : \A m \in Missing(r) : l.turn <= m.turn}

InTheWay(r, h) == h.by # r /\ \E l \in Due(r) : l.row = h.row /\ Conflict(l.mode, h.mode)

Blockers(r) ==
  IF Running(r) /\ ~AtCommit(r) THEN {h.by : h \in {g \in locks : InTheWay(r, g)}} ELSE {}

\* A request that waits for itself through others.
Deadlocked(r) ==
  \E p \in Blockers(r) :
    \A C \in SUBSET Requests :
      p \in C /\ (\A q \in C : Blockers(q) \subseteq C) => r \in C

-----------------------------------------------------------------------------
(* What the handler decides once a statement has its rows.                 *)

\* Mutant: the hash of the content is not compared.
KeyVerdictByKey(ask) == IF results[ask.key] = NoResult THEN "go on" ELSE "replay"

KeyVerdict(ask) ==
  CASE results[ask.key] = NoResult -> "go on"
    [] results[ask.key] # NoResult /\ results[ask.key].content = Content(ask) -> "replay"
    [] OTHER -> "conflict"

GoOnIf(condition) == IF condition THEN "go on" ELSE "conflict"

SaleVerdict(ask) ==
  CASE ask.op = "ConfirmSale" ->
         GoOnIf(Confirmable(ask.sale) /\ Deliverable(draft[ask.sale]))
    [] ask.op = "CancelSale"      -> GoOnIf(Cancellable(ask.sale))
    [] ask.op = "IssueDocument"   -> GoOnIf(Documentable(ask.sale))
    [] ask.op = "RegisterPayment" -> "go on"

AccountVerdict(ask) ==
  LET owed == account[ask.sale] IN
  CASE ask.op = "CancelSale" -> GoOnIf(owed.applied = 0)
    [] ask.op = "RegisterPayment" -> GoOnIf(Payable(owed) /\ Appliable(owed, ask.amount))

\* The update of the account follows the return of the stock; it may break the
\* CHECK of the table, which no handler expects.
ReturnVerdict(ask) ==
  IF HasAccount(ask.sale) /\ ~AddsUp(CancelledAccount(account[ask.sale]))
  THEN "error" ELSE "go on"

SessionVerdict(ask) ==
  GoOnIf(SessionLock(ask) = "UPDATE" => sessions[ask.session].status = "OPEN")

TillVerdict(ask) == GoOnIf(ask.op = "OpenCashSession" => TillFree(ask.till))

Verdict(r) ==
  LET ask == asks[r] IN
  CASE Statement(r) = "key"      -> KeyVerdict(ask)
    [] Statement(r) = "sale"     -> SaleVerdict(ask)
    [] Statement(r) = "balances" -> GoOnIf(Available(draft[ask.sale]))
    [] Statement(r) = "papers"   -> GoOnIf(~Alive(ask.sale))
    [] Statement(r) = "account"  -> AccountVerdict(ask)
    [] Statement(r) = "return"   -> ReturnVerdict(ask)
    [] Statement(r) = "session"  -> SessionVerdict(ask)
    [] Statement(r) = "till"     -> TillVerdict(ask)
    [] Statement(r) = "document" ->
         GoOnIf(ask.target \in Transitions[documents[ask.document].status])
    [] Statement(r) = "number"   -> "go on"

\* What the later statements write back as it was read here.
Reading(r) ==
  CASE Statement(r) = "account" -> [read[r] EXCEPT !.account = account[asks[r].sale]]
    [] Statement(r) = "session" -> [read[r] EXCEPT !.counted = MovementsOf(asks[r].session)]
    [] OTHER -> read[r]

-----------------------------------------------------------------------------
(* The steps of a request.                                                 *)

\* The rows a request names are rows it was shown: they exist.
Sendable(ask) ==
  CASE ask.op \in {"ConfirmSale", "CancelSale", "IssueDocument"} -> draft[ask.sale] # NoDraft
    [] ask.op = "RegisterPayment" -> HasAccount(ask.sale) /\ ask.session \in DOMAIN sessions
    [] ask.op = "OpenCashSession"  -> TRUE
    [] ask.op = "CloseCashSession" -> ask.session \in DOMAIN sessions
    [] ask.op = "ManualTransition" -> ask.document \in DOMAIN documents

Send(r, ask) ==
  /\ asks[r] = NoAsk
  /\ r > 1 => asks[r - 1] # NoAsk
  /\ Sendable(ask)
  /\ asks' = [asks EXCEPT ![r] = ask]
  /\ at' = [at EXCEPT ![r] = 1]
  /\ UNCHANGED <<vars, locks, read, results, outcome>>

\* The locks once r has the one whose turn it is, if any is left.
WithDueLock(r) ==
  locks \cup {[row |-> l.row, mode |-> l.mode, by |-> r] : l \in Due(r)}

\* The row is free, or its holder has just ended, and it is not the statement's last.
TakeLock(r) ==
  /\ Running(r) /\ ~AtCommit(r)
  /\ Missing(r) # Due(r)
  /\ Blockers(r) = {}
  /\ locks' = WithDueLock(r)
  /\ UNCHANGED <<vars, asks, at, read, results, outcome>>

\* Mutant: the transaction is left open.
ReleaseNothing(r) == UNCHANGED locks

Release(r) == locks' = {h \in locks : h.by # r}

End(r, how) ==
  /\ outcome' = [outcome EXCEPT ![r] = how]
  /\ at' = [at EXCEPT ![r] = 0]
  /\ read' = [read EXCEPT ![r] = Unread]
  /\ Release(r)
  /\ UNCHANGED asks

\* The statement has its last lock, reads what is committed by then, and the handler
\* goes on, or answers and rolls back.
Proceed(r) ==
  /\ Running(r) /\ ~AtCommit(r)
  /\ Missing(r) = Due(r)
  /\ Blockers(r) = {}
  /\ \/ /\ Verdict(r) = "go on"
        /\ at' = [at EXCEPT ![r] = @ + 1]
        /\ read' = [read EXCEPT ![r] = Reading(r)]
        /\ locks' = WithDueLock(r)
        /\ UNCHANGED <<asks, outcome>>
     \/ /\ Verdict(r) # "go on"
        /\ End(r, Verdict(r))
  /\ UNCHANGED <<vars, results>>

\* The bounds of the ledger also bound what is written.
Write(r) ==
  LET ask == asks[r] IN
  CASE ask.op = "ConfirmSale"   -> WriteConfirmation(ask.sale, draft[ask.sale])
    [] ask.op = "CancelSale"    -> WriteCancellation(ask.sale, draft[ask.sale])
    [] ask.op = "IssueDocument" -> WriteDocument(ask.sale, ask.type)
    [] ask.op = "RegisterPayment" ->
         /\ Settle(ask.sale, read[r].account, ask.amount)
         /\ PostPayment(ask.sale, DirectionOf(ask.sale), ask.method, ask.amount,
                        ask.session, ask.booked)
         /\ UNCHANGED <<sessions, stockVars, documentVars, salesVars>>
    [] ask.op = "OpenCashSession" ->
         /\ AppendSession(ask.till)
         /\ UNCHANGED <<header, account, payments, stockVars, documentVars, salesVars>>
    [] ask.op = "CloseCashSession" ->
         /\ CloseSession(ask.session, read[r].counted)
         /\ UNCHANGED <<header, account, payments, stockVars, documentVars, salesVars>>
    [] ask.op = "ManualTransition" ->
         /\ documents' = [documents EXCEPT ![ask.document].status = ask.target]
         /\ UNCHANGED <<lastNumber, stockVars, financeVars, salesVars>>

\* What the answer tells the client of the row it made.
Response(ask) ==
  CASE ask.op = "ConfirmSale"     -> saleNumber'[ask.sale]
    [] ask.op = "RegisterPayment" -> Len(payments')
    [] ask.op = "OpenCashSession" -> Len(sessions')
    [] OTHER -> 0

\* The writes become visible and the locks are gone; whether or not the answer
\* reaches its client, the client may send the same again.
Commit(r) ==
  /\ Running(r) /\ AtCommit(r)
  /\ Write(r)
  /\ results' = IF Script(asks[r])[1] = "key"
                THEN [results EXCEPT ![asks[r].key] =
                       [content |-> Content(asks[r]), response |-> Response(asks[r])]]
                ELSE results
  /\ End(r, "done")

\* The connection is lost before the commit: the transaction is rolled back.
Lose(r) ==
  /\ Running(r)
  /\ End(r, "aborted")
  /\ UNCHANGED <<vars, results>>

\* PostgreSQL aborts one of the transactions that wait for each other.
Abort(r) ==
  /\ Deadlocked(r)
  /\ End(r, "aborted")
  /\ UNCHANGED <<vars, results>>

Step(r) == TakeLock(r) \/ Proceed(r) \/ Commit(r) \/ Abort(r)

TransactionNext ==
  \E r \in Requests : (\E ask \in Asks : Send(r, ask)) \/ Step(r) \/ Lose(r)

\* The server and the database go on while some request can: no more is assumed,
\* not even that each request gets its turn.  Nobody is obliged to send anything,
\* and nothing is bound to be lost.
Behaviour ==
  /\ [][TransactionNext]_allVars
  /\ WF_allVars(\E r \in Requests : Step(r))

-----------------------------------------------------------------------------
\* Side by side and statement by statement, the requests do nothing to the
\* company but the atomic steps of SalesLedger: a stale read that is written
\* back, or a check that no longer holds at the commit, would be another step.
LedgerSteps == [][UNCHANGED vars \/ Next]_vars

Executed(r) == outcome[r] = "done"
HasKey(r) == asks[r] # NoAsk /\ "key" \in DOMAIN asks[r]

\* However often a request is sent again, before or after the first one ends, it
\* is carried out once; what is answered as a replay was carried out; and a key
\* that was used for something else never carries out a second thing.
KeyRunsOnce ==
  \A r, q \in Requests :
    HasKey(r) /\ HasKey(q) /\ r # q /\ asks[r].key = asks[q].key =>
      /\ ~(Executed(r) /\ Executed(q))
      /\ outcome[r] = "replay" =>
           \E p \in Requests : Executed(p) /\ asks[p] = asks[r]

\* The expected balance of a closed session counts every payment in cash of the
\* session, whenever it was committed, and no payment that is not booked in it.
ClosedSessionHasItsCash ==
  \A c \in DOMAIN sessions : sessions[c].status = "CLOSED" =>
    /\ {n \in MovementsOf(c) : payments[n].method = "CASH"} \subseteq sessions[c].counted
    /\ sessions[c].counted \subseteq MovementsOf(c)

\* Every request that is sent ends, whatever rows the others hold: with its commit,
\* a refusal, or the abort that resolves a deadlock.  As a behaviour has finitely
\* many requests, that is to say that time and again none of them is running.
NoneRuns == \A r \in Requests : ~Running(r)
RequestsEnd == []<>NoneRuns

\* A cancellation goes through or is refused for a reason the handler names; none
\* ends in an error of the database.
CancellationIsAnswered ==
  \A r \in Requests : outcome[r] = "error" => asks[r].op # "CancelSale"
=============================================================================
