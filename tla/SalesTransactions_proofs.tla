---------------------- MODULE SalesTransactions_proofs ----------------------
(***************************************************************************)
(* Theorems of SalesTransactions for any number of requests, keys, sales,  *)
(* items and sessions, however the requests interleave, wait, lose their   *)
(* connection or are aborted: what they commit are the atomic steps of     *)
(* SalesLedger, a key is carried out once, and a session that is closed    *)
(* has counted its cash.                                                   *)
(***************************************************************************)
EXTENDS SalesTransactions, Ledger_proofs

-----------------------------------------------------------------------------
(* The inductive invariant: what a request has read it holds locked, so    *)
(* that what it was told is still true when it commits.                    *)

\* The statements request r has behind it.
Passed(r, statement) == \E n \in 1 .. at[r] - 1 : Script(asks[r])[n] = statement

\* The mode in which an ask locks a row.
ModeOf(ask, row) ==
  CASE row[1] = "sale"      -> SaleLock(ask)
    [] row[1] = "session"   -> SessionLock(ask)
    [] row[1] = "balance"   -> IF ask.op = "ConfirmSale" THEN "UPDATE" ELSE "NO KEY UPDATE"
    [] row[1] = "warehouse" -> IF ask.op = "ConfirmSale" THEN "UPDATE" ELSE "KEY SHARE"
    [] row[1] \in {"key", "account", "till", "document", "series"} -> "UPDATE"

\* The locks of those that run do not conflict.
LocksOK ==
  /\ \A h \in locks : /\ h.by \in Requests /\ Running(h.by)
                      /\ h.mode = ModeOf(asks[h.by], h.row)
  /\ \A g, h \in locks : g.by # h.by /\ g.row = h.row => ~Conflict(g.mode, h.mode)

\* What each request is and how far it is.
RequestsOK ==
  /\ asks \in [Requests -> Asks \cup {NoAsk}]
  /\ at \in [Requests -> Nat]
  /\ read \in [Requests -> [account : Account, counted : SUBSET Nat]]
  /\ outcome \in [Requests -> {"none", "done", "replay", "conflict", "error", "aborted"}]
  /\ \A r \in Requests :
       /\ asks[r] = NoAsk => at[r] = 0 /\ outcome[r] = "none"
       /\ asks[r] # NoAsk => at[r] <= Len(Script(asks[r])) + 1 /\ Sendable(asks[r])
       /\ Running(r) => outcome[r] = "none"

KnowsKey(r) ==
  Passed(r, "key") => Holds(r, <<"key", asks[r].key>>) /\ results[asks[r].key] = NoResult

KnowsSale(r) ==
  Passed(r, "sale") => Holds(r, <<"sale", asks[r].sale>>) /\ SaleVerdict(asks[r]) = "go on"

HoldsBalances(r, d) == \A i \in ItemsOf(d.lines) : Holds(r, <<"balance", d.warehouse, i>>)

KnowsBalances(r) ==
  Passed(r, "balances") => HoldsBalances(r, draft[asks[r].sale]) /\ Available(draft[asks[r].sale])

KnowsPapers(r) == Passed(r, "papers") => ~Alive(asks[r].sale)

KnowsAccount(r) ==
  Passed(r, "account") =>
    /\ HasAccount(asks[r].sale) => Holds(r, <<"account", asks[r].sale>>)
    /\ AccountVerdict(asks[r]) = "go on"
    /\ read[r].account = account[asks[r].sale]

KnowsReturn(r) ==
  Passed(r, "return") =>
    /\ Returns(asks[r].sale, draft[asks[r].sale]) => HoldsBalances(r, draft[asks[r].sale])
    /\ ReturnVerdict(asks[r]) = "go on"

KnowsSession(r) ==
  Passed(r, "session") =>
    /\ Holds(r, <<"session", asks[r].session>>)
    /\ SessionVerdict(asks[r]) = "go on"
    /\ asks[r].op = "CloseCashSession" => read[r].counted = MovementsOf(asks[r].session)

KnowsTill(r) ==
  Passed(r, "till") => Holds(r, <<"till", TillOf(asks[r])>>) /\ TillVerdict(asks[r]) = "go on"

KnowsDocument(r) ==
  Passed(r, "document") =>
    /\ Holds(r, <<"document", asks[r].document>>)
    /\ asks[r].target \in Transitions[documents[asks[r].document].status]

Knows(r) ==
  /\ KnowsKey(r) /\ KnowsSale(r) /\ KnowsBalances(r) /\ KnowsAccount(r)
  /\ KnowsPapers(r) /\ KnowsReturn(r) /\ KnowsSession(r) /\ KnowsTill(r) /\ KnowsDocument(r)

\* The idempotency rows: each of what was carried out, of all that was.
Result == [content : {Content(ask) : ask \in Asks}, response : Nat]

KeysOK ==
  /\ results \in [Keys -> Result \cup {NoResult}]
  /\ \A k \in Keys : results[k] # NoResult =>
       \E p \in Requests : /\ Executed(p) /\ HasKey(p) /\ asks[p].key = k
                           /\ results[k].content = Content(asks[p])
  /\ \A r \in Requests : Executed(r) /\ HasKey(r) => results[asks[r].key] # NoResult
  /\ \A r \in Requests : outcome[r] = "replay" =>
       \E p \in Requests : Executed(p) /\ asks[p] = asks[r]
  /\ \A r, q \in Requests :
       HasKey(r) /\ HasKey(q) /\ r # q /\ asks[r].key = asks[q].key => ~(Executed(r) /\ Executed(q))

TransactionsInv ==
  /\ LedgerInv /\ RequestsOK /\ LocksOK /\ KeysOK /\ ClosedSessionHasItsCash
  /\ \A r \in Requests : Knows(r)

-----------------------------------------------------------------------------
(* What is asked for, and the statements that takes.                       *)

\* The fields of an ask, by what is asked for.
LEMMA AskShape ==
  ASSUME NEW ask \in Ask
  PROVE  /\ ask.op \in {"ConfirmSale", "CancelSale", "IssueDocument", "RegisterPayment",
                        "OpenCashSession", "CloseCashSession", "ManualTransition"}
         /\ ask.op # "ManualTransition" => ask.key \in Keys /\ "key" \in DOMAIN ask
         /\ ask.op = "ManualTransition" => "key" \notin DOMAIN ask /\ ask.target \in DocumentStatus
         /\ ask.op \in {"ConfirmSale", "CancelSale", "IssueDocument", "RegisterPayment"} =>
              ask.sale \in Sales
         /\ ask.op = "IssueDocument" => ask.type \in DocumentTypes
         /\ ask.op = "RegisterPayment" =>
              /\ ask.amount \in Amounts /\ ask.method \in {"CASH", "OTHER"}
              /\ ask.session \in Nat \ {0} /\ ask.booked \in BOOLEAN
              /\ ask.method = "CASH" => ask.booked
         /\ ask.op = "OpenCashSession" => ask.till \in Tills
         /\ ask.op = "CloseCashSession" => ask.session \in Nat \ {0}
  BY DEF Ask

\* Two asks with one key that say the same are the same.
LEMMA ContentTells ==
  ASSUME NEW ask \in Ask, NEW other \in Ask, ask.op # "ManualTransition",
         other.op # "ManualTransition", ask.key = other.key, Content(ask) = Content(other)
  PROVE  ask = other
<1>1. /\ ask = [f \in DOMAIN ask |-> ask[f]] /\ other = [f \in DOMAIN other |-> other[f]]
      /\ "key" \in DOMAIN ask /\ "key" \in DOMAIN other
  BY DEF Ask
<1>2. DOMAIN ask \ {"key"} = DOMAIN other \ {"key"}
  <2>1. DOMAIN Content(ask) = DOMAIN ask \ {"key"} /\ DOMAIN Content(other) = DOMAIN other \ {"key"}
    BY DEF Content
  <2> QED
    BY <2>1
<1>3. DOMAIN ask = DOMAIN other
  BY <1>1, <1>2
<1>4. \A f \in DOMAIN ask : ask[f] = other[f]
  <2>1. \A f \in DOMAIN ask \ {"key"} : Content(ask)[f] = ask[f] /\ Content(other)[f] = other[f]
    BY <1>3 DEF Content
  <2> QED
    BY <2>1
<1> QED
  BY <1>1, <1>3, <1>4

\* The operations that a statement is part of.
LEMMA StatementsOf ==
  ASSUME NEW ask \in Ask
  PROVE  /\ Len(Script(ask)) \in {1, 2, 3, 4, 5}
         /\ \A n \in 1 .. Len(Script(ask)) :
              /\ Script(ask)[n] \in {"key", "sale", "balances", "number", "account", "return",
                                     "session", "till", "document", "papers"}
              /\ Script(ask)[n] = "key" => ask.op # "ManualTransition"
              /\ Script(ask)[n] = "sale" =>
                   ask.op \in {"ConfirmSale", "CancelSale", "IssueDocument", "RegisterPayment"}
              /\ Script(ask)[n] = "balances" => ask.op = "ConfirmSale"
              /\ Script(ask)[n] = "account" => ask.op \in {"CancelSale", "RegisterPayment"}
              /\ Script(ask)[n] = "return" => ask.op = "CancelSale"
              /\ Script(ask)[n] = "session" => ask.op \in {"RegisterPayment", "CloseCashSession"}
              /\ Script(ask)[n] = "till" => ask.op \in {"OpenCashSession", "CloseCashSession"}
              /\ Script(ask)[n] = "document" => ask.op = "ManualTransition"
              /\ Script(ask)[n] = "papers" => ask.op = "CancelSale"
              /\ Script(ask)[n] = "number" => ask.op \in {"ConfirmSale", "IssueDocument"}
<1> DEFINE S == Script(ask)
<1>1. CASE ask.op = "ConfirmSale"
  <2>1. S = <<"key", "sale", "balances", "number">>
    BY <1>1 DEF Script
  <2> QED
    BY <1>1, <2>1
<1>2. CASE ask.op = "CancelSale"
  <2>1. S = <<"key", "sale", "papers", "account", "return">>
    BY <1>2 DEF Script
  <2> QED
    BY <1>2, <2>1
<1>3. CASE ask.op = "RegisterPayment"
  <2>1. S \in {<<"key", "session", "account", "sale">>, <<"key", "account", "sale", "session">>}
    BY <1>3 DEF Script
  <2> QED
    BY <1>3, <2>1
<1>4. CASE ask.op = "IssueDocument"
  <2>1. S = <<"key", "sale", "number">>
    BY <1>4 DEF Script
  <2> QED
    BY <1>4, <2>1
<1>5. CASE ask.op = "OpenCashSession"
  <2>1. S = <<"key", "till">>
    BY <1>5 DEF Script
  <2> QED
    BY <1>5, <2>1
<1>6. CASE ask.op = "CloseCashSession"
  <2>1. S = <<"key", "session", "till">>
    BY <1>6 DEF Script
  <2> QED
    BY <1>6, <2>1
<1>7. CASE ask.op = "ManualTransition"
  <2>1. S = <<"document">>
    BY <1>7 DEF Script
  <2> QED
    BY <1>7, <2>1
<1> QED
  BY <1>1, <1>2, <1>3, <1>4, <1>5, <1>6, <1>7, AskShape

\* Who commits has every statement behind it.
LEMMA AllPassed ==
  ASSUME NEW r \in Requests, asks[r] \in Ask, AtCommit(r)
  PROVE  /\ asks[r].op # "ManualTransition" => Passed(r, "key")
         /\ asks[r].op = "ConfirmSale" => Passed(r, "sale") /\ Passed(r, "balances")
         /\ asks[r].op = "CancelSale" =>
              /\ Passed(r, "sale") /\ Passed(r, "papers") /\ Passed(r, "account")
              /\ Passed(r, "return")
         /\ asks[r].op = "RegisterPayment" =>
              Passed(r, "session") /\ Passed(r, "account") /\ Passed(r, "sale")
         /\ asks[r].op = "IssueDocument" => Passed(r, "sale")
         /\ asks[r].op = "OpenCashSession" => Passed(r, "till")
         /\ asks[r].op = "CloseCashSession" => Passed(r, "session") /\ Passed(r, "till")
         /\ asks[r].op = "ManualTransition" => Passed(r, "document")
<1> DEFINE S == Script(asks[r])
<1>1. Len(S) \in {1, 2, 3, 4, 5} /\ at[r] - 1 = Len(S)
  BY StatementsOf DEF AtCommit
<1>2. \A st : Passed(r, st) <=> \E n \in 1 .. Len(S) : S[n] = st
  BY <1>1 DEF Passed
<1>3. CASE asks[r].op = "ConfirmSale"
  <2>1. S = <<"key", "sale", "balances", "number">>
    BY <1>3 DEF Script
  <2> QED
    BY <1>2, <1>3, <2>1
<1>4. CASE asks[r].op = "CancelSale"
  <2>1. S = <<"key", "sale", "papers", "account", "return">>
    BY <1>4 DEF Script
  <2> QED
    BY <1>2, <1>4, <2>1
<1>5. CASE asks[r].op = "RegisterPayment"
  <2>1. S = <<"key", "session", "account", "sale">> \/ S = <<"key", "account", "sale", "session">>
    BY <1>5 DEF Script
  <2> QED
    BY <1>2, <1>5, <2>1
<1>6. CASE asks[r].op = "IssueDocument"
  <2>1. S = <<"key", "sale", "number">>
    BY <1>6 DEF Script
  <2> QED
    BY <1>2, <1>6, <2>1
<1>7. CASE asks[r].op = "OpenCashSession"
  <2>1. S = <<"key", "till">>
    BY <1>7 DEF Script
  <2> QED
    BY <1>2, <1>7, <2>1
<1>8. CASE asks[r].op = "CloseCashSession"
  <2>1. S = <<"key", "session", "till">>
    BY <1>8 DEF Script
  <2> QED
    BY <1>2, <1>8, <2>1
<1>9. CASE asks[r].op = "ManualTransition"
  <2>1. S = <<"document">>
    BY <1>9 DEF Script
  <2> QED
    BY <1>2, <1>9, <2>1
<1> QED
  BY <1>3, <1>4, <1>5, <1>6, <1>7, <1>8, <1>9, AskShape

\* Who passed a statement is running and asks for something that has it; what
\* touches a sale first locks it.
LEMMA PassedIsOf ==
  ASSUME RequestsOK, NEW r \in Requests, NEW st, Passed(r, st)
  PROVE  /\ asks[r] \in Ask /\ Running(r) /\ Sendable(asks[r])
         /\ \E n \in 1 .. Len(Script(asks[r])) : Script(asks[r])[n] = st
         /\ asks[r].op = "CancelSale" /\ st \in {"papers", "account", "return"} => Passed(r, "sale")
         /\ asks[r].op = "CancelSale" /\ st = "return" => Passed(r, "account")
         /\ asks[r].op = "ConfirmSale" /\ st = "balances" => Passed(r, "sale")
<1>1. PICK n \in 1 .. at[r] - 1 : Script(asks[r])[n] = st
  BY DEF Passed
<1>2. at[r] \in Nat /\ at[r] # 0
  BY <1>1 DEF RequestsOK
<1>3. asks[r] \in Ask /\ Sendable(asks[r]) /\ at[r] <= Len(Script(asks[r])) + 1
  BY <1>2, TransactionsAssumption DEF RequestsOK
<1>4. Len(Script(asks[r])) \in Nat
  BY <1>3, StatementsOf
<1>5. n \in 1 .. Len(Script(asks[r]))
  BY <1>1, <1>2, <1>3, <1>4
<1>6. ASSUME asks[r].op = "CancelSale", st \in {"papers", "account", "return"}
      PROVE  Passed(r, "sale")
  <2>1. Script(asks[r]) = <<"key", "sale", "papers", "account", "return">>
    BY <1>6 DEF Script
  <2>2. n # 1
    BY <1>1, <1>6, <2>1
  <2>3. 2 \in 1 .. at[r] - 1
    BY <1>1, <1>2, <2>2
  <2> QED
    BY <2>1, <2>3 DEF Passed
<1>7. ASSUME asks[r].op = "CancelSale", st = "return" PROVE Passed(r, "account")
  <2>1. Script(asks[r]) = <<"key", "sale", "papers", "account", "return">>
    BY <1>7 DEF Script
  <2>2. n # 1 /\ n # 2 /\ n # 3
    BY <1>1, <1>7, <2>1
  <2>3. 4 \in 1 .. at[r] - 1
    BY <1>1, <1>2, <2>2
  <2> QED
    BY <2>1, <2>3 DEF Passed
<1>8. ASSUME asks[r].op = "ConfirmSale", st = "balances" PROVE Passed(r, "sale")
  <2>1. Script(asks[r]) = <<"key", "sale", "balances", "number">>
    BY <1>8 DEF Script
  <2>2. n # 1
    BY <1>1, <1>8, <2>1
  <2>3. 2 \in 1 .. at[r] - 1
    BY <1>1, <1>2, <2>2
  <2> QED
    BY <2>1, <2>3 DEF Passed
<1> QED
  BY <1>1, <1>2, <1>3, <1>5, <1>6, <1>7, <1>8 DEF Running

-----------------------------------------------------------------------------
(* The locks.                                                              *)

\* The mode of a row is that of its kind.
LEMMA ModesOfRows ==
  ASSUME NEW ask, NEW row
  PROVE  /\ row[1] = "sale" => ModeOf(ask, row) = SaleLock(ask)
         /\ row[1] = "session" => ModeOf(ask, row) = SessionLock(ask)
         /\ row[1] = "balance" =>
              ModeOf(ask, row) = IF ask.op = "ConfirmSale" THEN "UPDATE" ELSE "NO KEY UPDATE"
         /\ row[1] = "warehouse" =>
              ModeOf(ask, row) = IF ask.op = "ConfirmSale" THEN "UPDATE" ELSE "KEY SHARE"
         /\ row[1] \in {"key", "account", "till", "document", "series"} =>
              ModeOf(ask, row) = "UPDATE"
  BY DEF ModeOf

\* The first component of a row is its table.
LEMMA RowsAreTagged ==
  /\ \A x, y : <<"balance", x, y>>[1] = "balance"
  /\ \A x : <<"warehouse", x>>[1] = "warehouse"
  /\ \A x : <<"key", x>>[1] = "key"
  /\ \A x : <<"sale", x>>[1] = "sale"
  /\ \A x : <<"account", x>>[1] = "account"
  /\ \A x : <<"session", x>>[1] = "session"
  /\ \A x : <<"till", x>>[1] = "till"
  /\ \A x : <<"document", x>>[1] = "document"
  /\ \A x : <<"series", x>>[1] = "series"
  OBVIOUS

\* A row is locked in the mode of its kind.
LEMMA LockModes ==
  ASSUME NEW r \in Requests, asks[r] \in Ask,
         Statement(r) \in {"key", "sale", "balances", "number", "account", "return", "session",
                           "till", "document", "papers"},
         Statement(r) = "balances" => asks[r].op = "ConfirmSale",
         Statement(r) = "return" => asks[r].op = "CancelSale"
  PROVE  \A l \in LocksOf(r) : l.mode = ModeOf(asks[r], l.row)
<1>1. \A row, mode, turn : Lock(row, mode, turn).row = row /\ Lock(row, mode, turn).mode = mode
  BY DEF Lock
<1>2. \A row, mode : \A l \in Only(row, mode) : l.row = row /\ l.mode = mode
  BY <1>1 DEF Only
<1>4. ASSUME NEW d, NEW mode, NEW l \in BalanceRows(d, mode)
      PROVE  l.row[1] = "balance" /\ l.mode = mode
  <2>1. PICK n \in BalanceTurns(d) : l = Lock(<<"balance", d.warehouse, ItemOrder[n]>>, mode, 2 * n)
    BY <1>4 DEF BalanceRows
  <2>2. l.row = <<"balance", d.warehouse, ItemOrder[n]>> /\ l.mode = mode
    BY <1>1, <2>1
  <2> QED
    BY <2>2, RowsAreTagged
<1>5. CASE Statement(r) = "balances"
  <2> SUFFICES ASSUME NEW l \in LocksOf(r) PROVE l.mode = ModeOf(asks[r], l.row)
    OBVIOUS
  <2>1. PICK d : l \in BalanceLocks(d)
    BY <1>5 DEF LocksOf
  <2>2. \/ l \in BalanceRows(d, "UPDATE")
        \/ \E turn : l = Lock(<<"warehouse", d.warehouse>>, "UPDATE", turn)
    BY <2>1 DEF BalanceLocks
  <2>3. l.mode = "UPDATE" /\ (l.row[1] = "balance" \/ l.row[1] = "warehouse")
    BY <2>2, <1>1, <1>4, RowsAreTagged
  <2> QED
    BY <1>5, <2>3, ModesOfRows
<1>6. CASE Statement(r) = "return"
  <2> SUFFICES ASSUME NEW l \in LocksOf(r) PROVE l.mode = ModeOf(asks[r], l.row)
    OBVIOUS
  <2>1. PICK s, d : l \in ReturnLocks(s, d)
    BY <1>6 DEF LocksOf
  <2>2. l \in BalanceRows(d, "NO KEY UPDATE") \/ l \in Only(<<"warehouse", d.warehouse>>, "KEY SHARE")
    BY <2>1 DEF ReturnLocks
  <2>3. CASE l \in BalanceRows(d, "NO KEY UPDATE")
    <3>1. l.row[1] = "balance" /\ l.mode = "NO KEY UPDATE"
      BY <2>3, <1>4
    <3> QED
      BY <1>6, <3>1, ModesOfRows
  <2>4. CASE l \in Only(<<"warehouse", d.warehouse>>, "KEY SHARE")
    <3>1. l.row = <<"warehouse", d.warehouse>> /\ l.mode = "KEY SHARE"
      BY <2>4, <1>2
    <3>2. l.row[1] = "warehouse"
      BY <3>1, RowsAreTagged
    <3> QED
      BY <1>6, <3>1, <3>2, ModesOfRows
  <2> QED
    BY <2>2, <2>3, <2>4
<1>7. CASE Statement(r) = "sale"
  <2>1. LocksOf(r) = Only(<<"sale", asks[r].sale>>, SaleLock(asks[r]))
    BY <1>7 DEF LocksOf
  <2>2. \A l \in LocksOf(r) : l.row[1] = "sale" /\ l.mode = SaleLock(asks[r])
    BY <2>1, <1>2, RowsAreTagged
  <2> QED
    BY <2>2, ModesOfRows
<1>8. CASE Statement(r) = "session"
  <2>1. LocksOf(r) = Only(<<"session", asks[r].session>>, SessionLock(asks[r]))
    BY <1>8 DEF LocksOf
  <2>2. \A l \in LocksOf(r) : l.row[1] = "session" /\ l.mode = SessionLock(asks[r])
    BY <2>1, <1>2, RowsAreTagged
  <2> QED
    BY <2>2, ModesOfRows
<1>9. CASE Statement(r) \in {"key", "number", "account", "till", "document"}
  <2> SUFFICES ASSUME NEW l \in LocksOf(r) PROVE l.mode = ModeOf(asks[r], l.row)
    OBVIOUS
  <2>1. \/ l \in Only(<<"key", asks[r].key>>, "UPDATE")
        \/ l \in Only(<<"series", SeriesOf(asks[r])>>, "UPDATE")
        \/ l \in Only(<<"account", asks[r].sale>>, "UPDATE")
        \/ l \in Only(<<"till", TillOf(asks[r])>>, "UPDATE")
        \/ l \in Only(<<"document", asks[r].document>>, "UPDATE")
    BY <1>9 DEF LocksOf
  <2>2. l.mode = "UPDATE" /\ l.row[1] \in {"key", "series", "account", "till", "document"}
    BY <2>1, <1>2, RowsAreTagged
  <2> QED
    BY <2>2, ModesOfRows
<1>10. CASE Statement(r) = "papers"
  BY <1>10 DEF LocksOf
<1> QED
  BY <1>5, <1>6, <1>7, <1>8, <1>9, <1>10

\* The statement a request is at is one of its operation.
LEMMA AtStatement ==
  ASSUME RequestsOK, NEW r \in Requests, Running(r), ~AtCommit(r)
  PROVE  /\ asks[r] \in Asks /\ asks[r] \in Ask /\ Sendable(asks[r]) /\ outcome[r] = "none"
         /\ at[r] \in 1 .. Len(Script(asks[r])) /\ Len(Script(asks[r])) \in Nat
<1>1. at[r] \in Nat /\ at[r] # 0
  BY DEF RequestsOK, Running
<1>2. asks[r] \in Asks /\ Sendable(asks[r]) /\ at[r] <= Len(Script(asks[r])) + 1
  BY <1>1 DEF RequestsOK
<1>3. asks[r] \in Ask
  BY <1>2, TransactionsAssumption
<1>4. Len(Script(asks[r])) \in Nat
  BY <1>3, StatementsOf
<1> QED
  BY <1>1, <1>2, <1>3, <1>4 DEF AtCommit, RequestsOK

\* So is it at the statement a request is at.
LEMMA ModesOfStatement ==
  ASSUME RequestsOK, NEW r \in Requests, Running(r), ~AtCommit(r)
  PROVE  \A l \in LocksOf(r) : l.mode = ModeOf(asks[r], l.row)
<1>1. asks[r] \in Ask /\ at[r] \in 1 .. Len(Script(asks[r]))
  BY AtStatement
<1>2. /\ Statement(r) \in {"key", "sale", "balances", "number", "account", "return", "session",
                           "till", "document", "papers"}
      /\ Statement(r) = "balances" => asks[r].op = "ConfirmSale"
      /\ Statement(r) = "return" => asks[r].op = "CancelSale"
  BY <1>1, StatementsOf DEF Statement
<1> QED
  BY <1>1, <1>2, LockModes

\* Nobody is in the way of a lock that is taken.
LEMMA LocksGranted ==
  ASSUME RequestsOK, LocksOK, NEW r \in Requests, Running(r), ~AtCommit(r), Blockers(r) = {},
         locks' = WithDueLock(r), UNCHANGED asks, at'[r] # 0,
         \A q \in Requests \ {r} : at'[q] = at[q]
  PROVE  LocksOK'
<1>1. \A h \in locks' : h \in locks \/ \E l \in Due(r) : h = [row |-> l.row, mode |-> l.mode, by |-> r]
  BY DEF WithDueLock
<1>2. \A l \in Due(r) : l.mode = ModeOf(asks[r], l.row)
  BY ModesOfStatement DEF Due, Missing
<1>3. \A h \in locks' : /\ h.by \in Requests /\ at'[h.by] # 0
                        /\ h.mode = ModeOf(asks[h.by], h.row)
  BY <1>1, <1>2 DEF LocksOK, Running
<1>4. \A h \in locks, l \in Due(r) : h.by # r /\ h.row = l.row => ~Conflict(l.mode, h.mode)
  BY DEF Blockers, InTheWay
<1>5. \A g, h \in locks' : g.by # h.by /\ g.row = h.row => ~Conflict(g.mode, h.mode)
  <2> SUFFICES ASSUME NEW g \in locks', NEW h \in locks', g.by # h.by, g.row = h.row
               PROVE  ~Conflict(g.mode, h.mode)
    OBVIOUS
  <2>1. CASE g \in locks /\ h \in locks
    BY <2>1 DEF LocksOK
  <2>2. CASE g \notin locks /\ h \in locks
    BY <1>1, <1>4, <2>2
  <2>3. CASE g \in locks /\ h \notin locks
    <3>1. ~Conflict(h.mode, g.mode)
      BY <1>1, <1>4, <2>3
    <3> QED
      BY <3>1 DEF Conflict
  <2>4. CASE g \notin locks /\ h \notin locks
    BY <1>1, <2>4
  <2> QED
    BY <2>1, <2>2, <2>3, <2>4
<1>6. \A ask, row : ModeOf(ask, row)' = ModeOf(ask, row)
  BY DEF ModeOf, SaleLock, SessionLock
<1> QED
  BY <1>3, <1>5 DEF LocksOK, Running, ModeOf, SaleLock, SessionLock, Conflict

\* With the last one it has all the locks of the statement, and what it had.
LEMMA LocksHeld ==
  ASSUME NEW r, locks' = WithDueLock(r)
  PROVE  /\ Missing(r) = Due(r) => \A l \in LocksOf(r) : Holds(r, l.row)'
         /\ \A q, row : Holds(q, row) => Holds(q, row)'
<1>1. \A l \in Due(r) : \E h \in locks' : h.by = r /\ h.row = l.row
  <2> SUFFICES ASSUME NEW l \in Due(r) PROVE \E h \in locks' : h.by = r /\ h.row = l.row
    OBVIOUS
  <2>1. [row |-> l.row, mode |-> l.mode, by |-> r] \in locks'
    BY DEF WithDueLock
  <2> QED
    BY <2>1
<1>2. locks \subseteq locks'
  BY DEF WithDueLock
<1>3. ASSUME Missing(r) = Due(r), NEW l \in LocksOf(r)
      PROVE  \E h \in locks' : h.by = r /\ h.row = l.row
  <2>1. CASE l \in Missing(r)
    BY <1>1, <1>3, <2>1
  <2>2. CASE l \notin Missing(r)
    BY <1>2, <2>2 DEF Missing, Holds
  <2> QED
    BY <2>1, <2>2
<1> QED
  BY <1>2, <1>3 DEF Holds

\* Who ends lets go of its own locks.
LEMMA LocksReleased ==
  ASSUME LocksOK, NEW r \in Requests, NEW how, End(r, how), at \in [Requests -> Nat]
  PROVE  /\ LocksOK'
         /\ \A q \in Requests \ {r} : \A row : Holds(q, row) => Holds(q, row)'
<1>1. /\ locks' = {h \in locks : h.by # r} /\ UNCHANGED asks
      /\ \A q \in Requests \ {r} : at'[q] = at[q]
  BY DEF End, Release
<1> QED
  BY <1>1 DEF LocksOK, Running, Holds, ModeOf, SaleLock, SessionLock, Conflict

\* A row that is changed has one holder.
LEMMA Exclusive ==
  ASSUME LocksOK, NEW q, NEW r, NEW row, Holds(q, row), Holds(r, row),
         row[1] \in {"key", "sale", "balance", "account", "till", "document"}
  PROVE  q = r
<1>1. \A ask : ModeOf(ask, row) \in {"UPDATE", "NO KEY UPDATE"}
  BY DEF ModeOf, SaleLock
<1>2. PICK h \in locks : h.by = q /\ h.row = row
  BY DEF Holds
<1>3. PICK g \in locks : g.by = r /\ g.row = row
  BY DEF Holds
<1>4. h.mode \in {"UPDATE", "NO KEY UPDATE"} /\ g.mode \in {"UPDATE", "NO KEY UPDATE"}
  BY <1>1, <1>2, <1>3 DEF LocksOK
<1>5. Conflict(h.mode, g.mode)
  BY <1>4 DEF Conflict
<1> QED
  BY <1>2, <1>3, <1>5 DEF LocksOK

\* A session that is closed, or paid to in cash, has one; the others share it.
LEMMA SessionExclusive ==
  ASSUME LocksOK, NEW q, NEW r, NEW c, Holds(q, <<"session", c>>), Holds(r, <<"session", c>>),
         SessionLock(asks[q]) = "UPDATE"
  PROVE  q = r
<1>1. \A ask : ModeOf(ask, <<"session", c>>) = SessionLock(ask)
  BY DEF ModeOf
<1>2. PICK h \in locks : h.by = q /\ h.row = <<"session", c>>
  BY DEF Holds
<1>3. PICK g \in locks : g.by = r /\ g.row = <<"session", c>>
  BY DEF Holds
<1>4. h.mode = "UPDATE"
  BY <1>1, <1>2 DEF LocksOK
<1>5. Conflict(h.mode, g.mode)
  BY <1>4 DEF Conflict
<1> QED
  BY <1>2, <1>3, <1>5 DEF LocksOK

-----------------------------------------------------------------------------
(* What a request knows stays true.                                        *)

\* What others leave of what request q holds.
RowsKept(q) ==
  /\ UNCHANGED draft
  /\ \A s \in Sales : Holds(q, <<"sale", s>>) =>
       /\ header'[s] = header[s]
       /\ Issued(s)' => Issued(s)
       /\ Alive(s)' => Alive(s)
       /\ ~HasAccount(s) => account'[s] = account[s]
  /\ \A s \in Sales : HasAccount(s) =>
       HasAccount(s)' /\ (Holds(q, <<"account", s>>) => account'[s] = account[s])
  /\ \A w \in Warehouses, i \in Items :
       Holds(q, <<"balance", w, i>>) => balance'[w][i] = balance[w][i]
  /\ \A c \in DOMAIN sessions :
       /\ c \in DOMAIN sessions' /\ sessions'[c].till = sessions[c].till
       /\ Holds(q, <<"session", c>>) /\ SessionLock(asks[q]) = "UPDATE" =>
            sessions'[c] = sessions[c] /\ MovementsOf(c)' = MovementsOf(c)
  /\ \A till \in Tills : Holds(q, <<"till", till>>) /\ TillFree(till) => TillFree(till)'
  /\ \A n \in DOMAIN documents :
       n \in DOMAIN documents' /\ (Holds(q, <<"document", n>>) => documents'[n] = documents[n])
  /\ \A k \in Keys : Holds(q, <<"key", k>>) => results'[k] = results[k]

\* Who writes nothing leaves everything.
LEMMA NothingIsKept ==
  ASSUME UNCHANGED <<vars, results>>, NEW q
  PROVE  RowsKept(q)
<1>1. /\ \A s : Issued(s)' = Issued(s) /\ Alive(s)' = Alive(s) /\ HasAccount(s)' = HasAccount(s)
      /\ \A c : MovementsOf(c)' = MovementsOf(c)
      /\ \A till : TillFree(till)' = TillFree(till)
  BY DEF Issued, Alive, DocumentsOf, HasAccount, MovementsOf, TillFree, vars, financeVars,
         documentVars
<1> QED
  BY <1>1 DEF RowsKept, vars, stockVars, financeVars, documentVars, salesVars

\* The rows a request names are there.
LEMMA NamesStay ==
  ASSUME NEW ask \in Ask, Sendable(ask), NEW q, RowsKept(q)
  PROVE  Sendable(ask)'
<1>1. CASE ask.op \in {"ConfirmSale", "CancelSale", "IssueDocument"}
  BY <1>1 DEF Sendable, RowsKept
<1>2. CASE ask.op = "RegisterPayment"
  BY <1>2, AskShape DEF Sendable, RowsKept
<1>3. CASE ask.op \in {"OpenCashSession", "CloseCashSession", "ManualTransition"}
  BY <1>3 DEF Sendable, RowsKept
<1> QED
  BY <1>1, <1>2, <1>3, AskShape

\* A draft names a warehouse if it moves stock, and items.
LEMMA DraftLines ==
  ASSUME LedgerInv, NEW s \in Sales, draft[s] # NoDraft
  PROVE  /\ draft[s] \in Draft /\ draft[s].lines \in Lines
         /\ \A n \in DOMAIN draft[s].lines : draft[s].lines[n].item \in Items
         /\ ItemsOf(draft[s].lines) \subseteq Items
         /\ MovesStock(draft[s]) /\ draft[s].warehouse # NoWarehouse =>
              draft[s].warehouse \in Warehouses
         /\ ~MovesStock(draft[s]) => ItemsOf(draft[s].lines) = {} /\ DOMAIN draft[s].lines = {}
<1>1. draft[s] \in Draft
  BY SalesAssumption DEF LedgerInv, TypeOK
<1>2. draft[s].lines \in Lines /\ draft[s].warehouse \in Warehouses \cup {NoWarehouse}
  BY <1>1 DEF Draft
<1>3. \A n \in DOMAIN draft[s].lines : draft[s].lines[n].item \in Items
  <2>1. DOMAIN draft[s].lines = 1 .. Len(draft[s].lines)
    BY <1>2, LenProperties DEF Lines
  <2>2. \A n \in 1 .. Len(draft[s].lines) : draft[s].lines[n] \in [item : Items, qty : Nat \ {0}]
    BY <1>2, ElementOfSeq DEF Lines
  <2> QED
    BY <2>1, <2>2
<1>4. draft[s].lines = <<>> => DOMAIN draft[s].lines = {}
  OBVIOUS
<1> QED
  BY <1>1, <1>2, <1>3, <1>4 DEF MovesStock, ItemsOf

\* A request keeps what it knows while what it holds is left alone: each thing it was
\* told is about rows it holds, or about what can only become less (what stands in the
\* way of it: documents, open sessions of its till).
LEMMA KnowledgeStays ==
  ASSUME LedgerInv, RequestsOK, NEW q \in Requests, Knows(q), RowsKept(q),
         asks'[q] = asks[q], read'[q] = read[q],
         \A st : Passed(q, st)' => Passed(q, st),
         \A row : Holds(q, row) => Holds(q, row)'
  PROVE  Knows(q)'
<1> SUFFICES ASSUME NEW ask, ask = asks[q], ask = asks'[q] PROVE Knows(q)'
  OBVIOUS
<1>1. KnowsKey(q)'
  <2> SUFFICES ASSUME Passed(q, "key")
               PROVE  Holds(q, <<"key", ask.key>>)' /\ results'[ask.key] = NoResult
    BY DEF KnowsKey, Holds
  <2>1. ask \in Ask /\ ask.op # "ManualTransition"
    BY PassedIsOf, StatementsOf
  <2>2. ask.key \in Keys
    BY <2>1, AskShape
  <2>3. Holds(q, <<"key", ask.key>>) /\ results[ask.key] = NoResult
    BY DEF Knows, KnowsKey
  <2> QED
    BY <2>2, <2>3 DEF RowsKept
<1>2. KnowsSale(q)'
  <2> SUFFICES ASSUME Passed(q, "sale")
               PROVE  Holds(q, <<"sale", ask.sale>>)' /\ SaleVerdict(ask)' = "go on"
    BY DEF KnowsSale, Holds, SaleVerdict
  <2>1. /\ ask \in Ask
        /\ ask.op \in {"ConfirmSale", "CancelSale", "IssueDocument", "RegisterPayment"}
    BY PassedIsOf, StatementsOf
  <2>2. ask.sale \in Sales
    BY <2>1, AskShape
  <2>3. Holds(q, <<"sale", ask.sale>>) /\ SaleVerdict(ask) = "go on"
    BY DEF Knows, KnowsSale
  <2>4. /\ header'[ask.sale] = header[ask.sale] /\ draft' = draft
        /\ Issued(ask.sale)' => Issued(ask.sale)
    BY <2>2, <2>3 DEF RowsKept
  <2>5. SaleVerdict(ask)' = "go on"
    BY <2>1, <2>3, <2>4
    DEF SaleVerdict, GoOnIf, Confirmable, Deliverable, MovesStock, Cancellable, Documentable, Sold
  <2> QED
    BY <2>3, <2>5
<1>3. KnowsBalances(q)'
  <2> SUFFICES ASSUME Passed(q, "balances")
               PROVE  /\ HoldsBalances(q, draft[ask.sale])' /\ Available(draft[ask.sale])'
    BY DEF KnowsBalances, Available, HoldsBalances, Holds
  <2>1. ask \in Ask /\ ask.op = "ConfirmSale" /\ Sendable(ask)
    BY PassedIsOf, StatementsOf
  <2>2. ask.sale \in Sales /\ draft[ask.sale] # NoDraft
    BY <2>1, AskShape DEF Sendable
  <2> SUFFICES ASSUME NEW d, d = draft[ask.sale], d = draft'[ask.sale]
               PROVE  /\ \A i \in ItemsOf(d.lines) : Holds(q, <<"balance", d.warehouse, i>>)'
                      /\ Available(d)'
    BY DEF RowsKept, HoldsBalances, Available, Holds
  <2>3. (\A i \in ItemsOf(d.lines) : Holds(q, <<"balance", d.warehouse, i>>)) /\ Available(d)
    BY DEF Knows, KnowsBalances, HoldsBalances
  <2>4. Passed(q, "sale")
    BY <2>1, PassedIsOf
  <2>5. d.lines # <<>> => d.warehouse \in Warehouses
    BY <2>1, <2>2, <2>4, DraftLines DEF Knows, KnowsSale, SaleVerdict, GoOnIf, Deliverable, MovesStock
  <2>6. /\ ItemsOf(d.lines) \subseteq Items
        /\ \A n \in DOMAIN d.lines : d.lines[n].item \in ItemsOf(d.lines)
        /\ d.lines = <<>> => DOMAIN d.lines = {}
    BY <2>2, DraftLines DEF ItemsOf, MovesStock
  <2>7. \A n \in DOMAIN d.lines :
          balance'[d.warehouse][d.lines[n].item] = balance[d.warehouse][d.lines[n].item]
    BY <2>3, <2>5, <2>6 DEF RowsKept
  <2> QED
    BY <2>3, <2>7 DEF Available
<1>4. KnowsAccount(q)'
  <2> SUFFICES ASSUME Passed(q, "account")
               PROVE  /\ HasAccount(ask.sale)' => Holds(q, <<"account", ask.sale>>)'
                      /\ AccountVerdict(ask)' = "go on"
                      /\ read'[q].account = account'[ask.sale]
    BY DEF KnowsAccount, Holds, AccountVerdict, HasAccount
  <2>1. /\ ask \in Ask /\ ask.op \in {"CancelSale", "RegisterPayment"} /\ Sendable(ask)
        /\ ask.op = "CancelSale" => Passed(q, "sale")
    BY PassedIsOf, StatementsOf
  <2>2. ask.sale \in Sales
    BY <2>1, AskShape
  <2>3. /\ HasAccount(ask.sale) => Holds(q, <<"account", ask.sale>>)
        /\ AccountVerdict(ask) = "go on"
        /\ read[q].account = account[ask.sale]
    BY DEF Knows, KnowsAccount
  <2>4. ask.op = "CancelSale" => Holds(q, <<"sale", ask.sale>>)
    BY <2>1 DEF Knows, KnowsSale
  <2>5. ask.op = "RegisterPayment" => HasAccount(ask.sale)
    BY <2>1 DEF Sendable
  <2>6. account'[ask.sale] = account[ask.sale]
    BY <2>1, <2>2, <2>3, <2>4, <2>5 DEF RowsKept
  <2>7. HasAccount(ask.sale)' => HasAccount(ask.sale)
    BY <2>6 DEF HasAccount
  <2>8. AccountVerdict(ask)' = "go on"
    BY <2>1, <2>3, <2>6 DEF AccountVerdict, GoOnIf
  <2> QED
    BY <2>3, <2>6, <2>7, <2>8
<1>5. KnowsReturn(q)'
  <2> SUFFICES ASSUME Passed(q, "return")
               PROVE  /\ Returns(ask.sale, draft[ask.sale])' => HoldsBalances(q, draft[ask.sale])'
                      /\ ReturnVerdict(ask)' = "go on"
    BY DEF KnowsReturn, Holds, Returns, ReturnVerdict, HoldsBalances
  <2>1. ask \in Ask /\ ask.op = "CancelSale" /\ Passed(q, "sale")
    BY PassedIsOf, StatementsOf
  <2>2. ask.sale \in Sales
    BY <2>1, AskShape
  <2>3. /\ Returns(ask.sale, draft[ask.sale]) => HoldsBalances(q, draft[ask.sale])
        /\ ReturnVerdict(ask) = "go on"
    BY DEF Knows, KnowsReturn
  <2>4. Holds(q, <<"sale", ask.sale>>)
    BY <2>1 DEF Knows, KnowsSale
  <2>5. header'[ask.sale] = header[ask.sale] /\ draft' = draft
    BY <2>2, <2>4 DEF RowsKept
  <2>6. Passed(q, "account")
    BY <2>1, PassedIsOf
  <2>7. HasAccount(ask.sale) => Holds(q, <<"account", ask.sale>>)
    BY <2>6 DEF Knows, KnowsAccount
  <2>8. account'[ask.sale] = account[ask.sale]
    BY <2>2, <2>4, <2>7 DEF RowsKept
  <2>9. ReturnVerdict(ask)' = "go on"
    BY <2>3, <2>8 DEF ReturnVerdict, HasAccount
  <2>10. Returns(ask.sale, draft[ask.sale])' => HoldsBalances(q, draft[ask.sale])'
    BY <2>3, <2>5 DEF Returns, HoldsBalances
  <2> QED
    BY <2>9, <2>10
<1>6. KnowsSession(q)'
  <2> SUFFICES ASSUME Passed(q, "session")
               PROVE  /\ Holds(q, <<"session", ask.session>>)'
                      /\ SessionVerdict(ask)' = "go on"
                      /\ ask.op = "CloseCashSession" => read'[q].counted = MovementsOf(ask.session)'
    BY DEF KnowsSession, Holds, SessionVerdict, MovementsOf
  <2>1. /\ ask \in Ask /\ ask.op \in {"RegisterPayment", "CloseCashSession"}
        /\ ask.session \in DOMAIN sessions
    <3>1. ask \in Ask /\ ask.op \in {"RegisterPayment", "CloseCashSession"} /\ Sendable(ask)
      BY PassedIsOf, StatementsOf
    <3> QED
      BY <3>1 DEF Sendable
  <2>2. /\ Holds(q, <<"session", ask.session>>) /\ SessionVerdict(ask) = "go on"
        /\ ask.op = "CloseCashSession" => read[q].counted = MovementsOf(ask.session)
    BY DEF Knows, KnowsSession
  <2>3. SessionLock(ask) = "UPDATE" => /\ sessions'[ask.session] = sessions[ask.session]
                                       /\ MovementsOf(ask.session)' = MovementsOf(ask.session)
    BY <2>1, <2>2 DEF RowsKept
  <2>4. SessionVerdict(ask)' = "go on"
    <3>1. CASE SessionLock(ask) = "UPDATE"
      BY <2>2, <2>3, <3>1 DEF SessionVerdict, SessionLock
    <3>2. CASE SessionLock(ask) # "UPDATE"
      BY <3>2 DEF SessionVerdict, GoOnIf, SessionLock
    <3> QED
      BY <3>1, <3>2
  <2>5. ask.op = "CloseCashSession" => SessionLock(ask) = "UPDATE"
    BY DEF SessionLock
  <2> QED
    BY <2>2, <2>3, <2>4, <2>5
<1>7. KnowsTill(q)'
  <2> SUFFICES ASSUME Passed(q, "till")
               PROVE  Holds(q, <<"till", TillOf(ask)>>)' /\ TillVerdict(ask)' = "go on"
    BY DEF KnowsTill, Holds, TillOf, TillVerdict
  <2>1. ask \in Ask /\ ask.op \in {"OpenCashSession", "CloseCashSession"} /\ Sendable(ask)
    BY PassedIsOf, StatementsOf
  <2>2. Holds(q, <<"till", TillOf(ask)>>) /\ TillVerdict(ask) = "go on"
    BY DEF Knows, KnowsTill
  <2>3. CASE ask.op = "OpenCashSession"
    <3>1. ask.till \in Tills /\ TillOf(ask) = ask.till /\ TillFree(ask.till)
      BY <2>1, <2>2, <2>3, AskShape DEF TillOf, TillVerdict, GoOnIf
    <3>2. TillFree(ask.till)'
      BY <2>2, <3>1 DEF RowsKept
    <3> QED
      BY <2>2, <2>3, <3>1, <3>2 DEF TillOf, TillVerdict, GoOnIf, Holds
  <2>4. CASE ask.op = "CloseCashSession"
    <3>1. sessions'[ask.session].till = sessions[ask.session].till
      BY <2>1, <2>4 DEF Sendable, RowsKept
    <3>2. \A till : till = sessions[ask.session].till => Holds(q, <<"till", till>>)'
      BY <2>2, <2>4 DEF TillOf
    <3> QED
      BY <2>4, <3>1, <3>2 DEF TillOf, TillVerdict, GoOnIf, Holds
  <2> QED
    BY <2>1, <2>3, <2>4
<1>8. KnowsDocument(q)'
  <2> SUFFICES ASSUME Passed(q, "document")
               PROVE  /\ Holds(q, <<"document", ask.document>>)'
                      /\ ask.target \in Transitions[documents'[ask.document].status]
    BY DEF KnowsDocument, Holds, Transitions
  <2>1. ask \in Ask /\ ask.op = "ManualTransition" /\ ask.document \in DOMAIN documents
    <3>1. ask \in Ask /\ ask.op = "ManualTransition" /\ Sendable(ask)
      BY PassedIsOf, StatementsOf
    <3> QED
      BY <3>1 DEF Sendable
  <2>2. /\ Holds(q, <<"document", ask.document>>)
        /\ ask.target \in Transitions[documents[ask.document].status]
    BY DEF Knows, KnowsDocument
  <2> QED
    BY <2>1, <2>2 DEF RowsKept
<1>9. KnowsPapers(q)'
  <2> SUFFICES ASSUME Passed(q, "papers") PROVE ~Alive(ask.sale)'
    BY DEF KnowsPapers, Alive, DocumentsOf
  <2>1. ask \in Ask /\ ask.op = "CancelSale" /\ Passed(q, "sale")
    BY PassedIsOf, StatementsOf
  <2>2. ask.sale \in Sales
    BY <2>1, AskShape
  <2>3. Holds(q, <<"sale", ask.sale>>) /\ ~Alive(ask.sale)
    BY <2>1 DEF Knows, KnowsSale, KnowsPapers
  <2> QED
    BY <2>2, <2>3 DEF RowsKept
<1> QED
  BY <1>1, <1>2, <1>3, <1>4, <1>5, <1>6, <1>7, <1>8, <1>9 DEF Knows

-----------------------------------------------------------------------------
(* A commit is a step of the ledger, and writes rows its request holds.    *)

\* What is written of the sales and their accounts, the balances, the cash, the documents
\* and the idempotency rows is locked.
WritesSales(r) ==
  /\ UNCHANGED draft
  /\ \A s \in Sales :
       /\ header'[s] # header[s] => Holds(r, <<"sale", s>>)
       /\ HasAccount(s) => HasAccount(s)'
       /\ account'[s] # account[s] =>
            Holds(r, IF HasAccount(s) THEN <<"account", s>> ELSE <<"sale", s>>)

WritesStock(r) ==
  \A w \in Warehouses, i \in Items :
    balance'[w][i] # balance[w][i] => Holds(r, <<"balance", w, i>>)

WritesCash(r) ==
  /\ \A c \in DOMAIN sessions :
       /\ c \in DOMAIN sessions' /\ sessions'[c].till = sessions[c].till
       /\ sessions'[c] # sessions[c] \/ MovementsOf(c)' # MovementsOf(c) =>
            Holds(r, <<"session", c>>)
  /\ \A till \in Tills : TillFree(till) /\ ~TillFree(till)' => Holds(r, <<"till", till>>)

WritesDocuments(r) ==
  /\ \A n \in DOMAIN documents :
       n \in DOMAIN documents' /\ (documents'[n] # documents[n] => Holds(r, <<"document", n>>))
  /\ \A s \in Sales : \/ (Issued(s)' => Issued(s)) /\ (Alive(s)' => Alive(s))
                      \/ Holds(r, <<"sale", s>>)

WritesKeys(r) == \A k \in Keys : results'[k] # results[k] => Holds(r, <<"key", k>>)

WritesItsRows(r) ==
  WritesSales(r) /\ WritesStock(r) /\ WritesCash(r) /\ WritesDocuments(r) /\ WritesKeys(r)

\* Who leaves a table alone writes nothing of it.
LEMMA StockIsKept == ASSUME UNCHANGED stockVars, NEW r PROVE WritesStock(r)
  BY DEF WritesStock, stockVars

\* Nor does it of the cash,
LEMMA CashIsKept ==
  ASSUME UNCHANGED <<payments, sessions>>, NEW r PROVE WritesCash(r)
<1>1. (\A c : MovementsOf(c)' = MovementsOf(c)) /\ \A till : TillFree(till)' = TillFree(till)
  BY DEF MovementsOf, TillFree
<1> QED
  BY <1>1 DEF WritesCash

\* of the documents
LEMMA DocumentsAreKept == ASSUME UNCHANGED documents, NEW r PROVE WritesDocuments(r)
<1>1. \A s : Issued(s)' = Issued(s) /\ Alive(s)' = Alive(s)
  BY DEF Issued, Alive, DocumentsOf
<1> QED
  BY <1>1 DEF WritesDocuments

\* or of the sales.
LEMMA SalesAreKept ==
  ASSUME UNCHANGED <<draft, header, account>>, NEW r PROVE WritesSales(r)
  BY DEF WritesSales, HasAccount

\* Lines move the balances of their items only.
LEMMA PostingWritesItems ==
  ASSUME LedgerInv, NEW r, NEW key, NEW w \in Warehouses, NEW direction \in {Receipt, Issue},
         NEW lines \in Lines, PostMovement(key, w, direction, lines),
         \A i \in ItemsOf(lines) : Holds(r, <<"balance", w, i>>)
  PROVE  WritesStock(r)
<1>1. balance \in [Warehouses -> [Items -> Int]]
  BY DEF LedgerInv, TypeOK
<1>2. IsFiniteSet(DOMAIN lines)
  <2>1. DOMAIN lines = 1 .. Len(lines) /\ Len(lines) \in Nat
    BY LenProperties DEF Lines
  <2> QED
    BY <2>1, FS_Interval
<1>3. ASSUME NEW i \in Items, i \notin ItemsOf(lines) PROVE LineQty(lines, i) = 0
  <2>1. LinesOf(lines, i) = {}
    BY <1>3 DEF LinesOf, ItemsOf
  <2>2. LineQty(lines, i) = SumOver(QtyOf(lines), {})
    BY <1>2, <2>1, LineQtyIsSum
  <2> QED
    BY <2>2, SumOfNone
<1>4. \A v \in Warehouses, i \in Items :
        balance'[v][i] = IF v = w THEN balance[v][i] + direction * LineQty(lines, i) ELSE balance[v][i]
  BY <1>1 DEF PostMovement
<1>5. ASSUME NEW v \in Warehouses, NEW i \in Items, balance'[v][i] # balance[v][i]
      PROVE  v = w /\ i \in ItemsOf(lines)
  <2>1. v = w
    BY <1>4, <1>5
  <2>2. balance[w][i] \in Int /\ direction \in Int
    BY <1>1 DEF Receipt, Issue
  <2>3. LineQty(lines, i) # 0
    BY <1>4, <1>5, <2>1, <2>2
  <2> QED
    BY <1>3, <2>1, <2>3
<1> QED
  BY <1>5 DEF WritesStock

\* What a request that commits knows, of an ask that is one.
LEMMA AskAtCommit ==
  ASSUME RequestsOK, NEW r \in Requests, Running(r), AtCommit(r)
  PROVE  asks[r] \in Asks /\ asks[r] \in Ask /\ Sendable(asks[r]) /\ outcome[r] = "none"
<1>1. asks[r] # NoAsk
  BY DEF RequestsOK, Running
<1> QED
  BY <1>1, TransactionsAssumption DEF RequestsOK

\* A confirmation with its sale and its balances locked is the atomic one.
LEMMA ConfirmationCommits ==
  ASSUME LedgerInv, NEW r \in Requests, NEW s \in Sales, draft[s] # NoDraft,
         Holds(r, <<"sale", s>>), Confirmable(s), Deliverable(draft[s]),
         HoldsBalances(r, draft[s]), Available(draft[s]), WriteConfirmation(s, draft[s])
  PROVE  Next /\ WritesSales(r) /\ WritesStock(r) /\ WritesCash(r) /\ WritesDocuments(r)
<1>1. Next
  BY DEF Next, SalesNext, ConfirmSale
<1>2. WritesCash(r) /\ WritesDocuments(r)
  BY CashIsKept, DocumentsAreKept DEF WriteConfirmation
<1>3. header \in [Sources -> Header] /\ account \in [Sources -> Account] /\ s \in Sources
  BY SalesAreSources DEF LedgerInv, TypeOK, FinanceTypeOK
<1>4. ~HasAccount(s)
  BY <1>3 DEF HasAccount, Confirmable, LedgerInv, AccountAgreesWithSource, Agrees, StatusUnder, Account,
              AccountStatus
<1>5. WritesSales(r)
  <2>1. \A x \in Sales \ {s} : header'[x] = header[x] /\ account'[x] = account[x]
    BY <1>3, SalesAreSources DEF WriteConfirmation
  <2>2. UNCHANGED draft
    BY DEF WriteConfirmation
  <2> QED
    BY <1>4, <2>1, <2>2 DEF WritesSales, HasAccount
<1>6. WritesStock(r)
  <2>1. CASE ~MovesStock(draft[s])
    BY <2>1, StockIsKept DEF WriteConfirmation, IssueStock
  <2>2. CASE MovesStock(draft[s])
    <3>1. draft[s].warehouse \in Warehouses /\ draft[s].lines \in Lines
      BY <2>2, DraftLines DEF Deliverable
    <3>2. PostMovement(<<"sale", s>>, draft[s].warehouse, Issue, draft[s].lines)
      BY <2>2 DEF WriteConfirmation, IssueStock
    <3> QED
      BY <3>1, <3>2, PostingWritesItems DEF HoldsBalances
  <2> QED
    BY <2>1, <2>2
<1> QED
  BY <1>1, <1>2, <1>5, <1>6

\* A cancellation with its sale, its account and its balances locked.
LEMMA CancellationCommits ==
  ASSUME LedgerInv, NEW r \in Requests, NEW s \in Sales, draft[s] # NoDraft,
         Holds(r, <<"sale", s>>), Cancellable(s), ~Alive(s), account[s].applied = 0,
         HasAccount(s) => AddsUp(CancelledAccount(account[s])) /\ Holds(r, <<"account", s>>),
         Returns(s, draft[s]) => HoldsBalances(r, draft[s]), WriteCancellation(s, draft[s])
  PROVE  Next /\ WritesSales(r) /\ WritesStock(r) /\ WritesCash(r) /\ WritesDocuments(r)
<1>1. Next
  BY DEF Next, SalesNext, CancelSale
<1>2. WritesCash(r) /\ WritesDocuments(r) /\ UNCHANGED draft
  BY CashIsKept, DocumentsAreKept DEF WriteCancellation, documentVars, salesVars
<1>3. header \in [Sources -> Header] /\ account \in [Sources -> Account] /\ s \in Sources
  BY SalesAreSources DEF LedgerInv, TypeOK, FinanceTypeOK
<1>4. WritesSales(r)
  <2>1. \A x \in Sales \ {s} : header'[x] = header[x] /\ account'[x] = account[x]
    BY <1>3, SalesAreSources DEF WriteCancellation
  <2>2. account'[s] = IF HasAccount(s) THEN CancelledAccount(account[s]) ELSE account[s]
    BY <1>3 DEF WriteCancellation
  <2>3. HasAccount(s) => HasAccount(s)'
    BY <2>2 DEF HasAccount, CancelledAccount
  <2>4. \A x \in Sales \ {s} : HasAccount(x)' = HasAccount(x)
    BY <2>1 DEF HasAccount
  <2>5. account'[s] # account[s] => HasAccount(s)
    BY <2>2
  <2> QED
    BY <1>2, <2>1, <2>3, <2>4, <2>5 DEF WritesSales
<1>5. WritesStock(r)
  <2>1. CASE ~Returns(s, draft[s])
    BY <2>1, StockIsKept DEF WriteCancellation, ReturnStock
  <2>2. CASE Returns(s, draft[s])
    <3>1. draft[s].warehouse \in Warehouses /\ draft[s].lines \in Lines
      BY <2>2, DraftLines DEF Returns
    <3>2. PostMovement(<<"sale-cancel", s>>, draft[s].warehouse, Receipt, draft[s].lines)
      BY <2>2 DEF WriteCancellation, ReturnStock
    <3> QED
      BY <2>2, <3>1, <3>2, PostingWritesItems DEF HoldsBalances
  <2> QED
    BY <2>1, <2>2
<1> QED
  BY <1>1, <1>2, <1>4, <1>5

\* A document of a sale that is locked.
LEMMA DocumentCommits ==
  ASSUME LedgerInv, NEW r \in Requests, NEW s \in Sales, NEW t \in DocumentTypes,
         Holds(r, <<"sale", s>>), Documentable(s), WriteDocument(s, t)
  PROVE  Next /\ WritesSales(r) /\ WritesStock(r) /\ WritesCash(r) /\ WritesDocuments(r)
<1>1. Next
  BY DEF Next, SalesNext, IssueDocument
<1>2. WritesSales(r) /\ WritesStock(r) /\ WritesCash(r)
  BY SalesAreKept, StockIsKept, CashIsKept DEF WriteDocument, financeVars, salesVars
<1> DEFINE new == [sale |-> s, type |-> t, number |-> NextNumber(t), status |-> "ISSUED", attempts |-> 0]
<1>3. documents \in Seq(Document) /\ documents' = Append(documents, new)
  BY DEF LedgerInv, TypeOK, DocumentsTypeOK, WriteDocument, AppendDocument
<1>4. new.sale = s
  OBVIOUS
<1> HIDE DEF new
<1>5. /\ DOMAIN documents = 1 .. Len(documents) /\ Len(documents) \in Nat
      /\ DOMAIN documents' = 1 .. Len(documents) + 1
      /\ \A n \in DOMAIN documents : documents'[n] = documents[n]
      /\ documents'[Len(documents) + 1] = new
  BY <1>3
<1>6. \A x \in Sales \ {s} : (Issued(x)' => Issued(x)) /\ (Alive(x)' => Alive(x))
  <2> SUFFICES ASSUME NEW x \in Sales \ {s}
               PROVE  (Issued(x)' => Issued(x)) /\ (Alive(x)' => Alive(x))
    OBVIOUS
  <2>1. DocumentsOf(x)' = DocumentsOf(x)
    BY <1>4, <1>5 DEF DocumentsOf
  <2>2. \A n \in DocumentsOf(x) : documents'[n] = documents[n]
    BY <1>5 DEF DocumentsOf
  <2> QED
    BY <2>1, <2>2 DEF Issued, Alive
<1> QED
  BY <1>1, <1>2, <1>5, <1>6 DEF WritesDocuments

\* What is appended to a sequence leaves the rest of it.
LEMMA AppendKeeps ==
  ASSUME NEW S, NEW old \in Seq(S), NEW e \in S
  PROVE  /\ \A n \in DOMAIN old : n \in DOMAIN Append(old, e) /\ Append(old, e)[n] = old[n]
         /\ \A n \in DOMAIN Append(old, e) : n \in DOMAIN old \/ Append(old, e)[n] = e
<1> DEFINE longer == Append(old, e)
<1>1. /\ longer \in Seq(S) /\ Len(longer) = Len(old) + 1
      /\ \A n \in 1 .. Len(old) : longer[n] = old[n]
      /\ longer[Len(old) + 1] = e
  BY AppendProperties
<1>2. /\ DOMAIN old = 1 .. Len(old) /\ Len(old) \in Nat
      /\ DOMAIN longer = 1 .. Len(longer)
  BY <1>1, LenProperties
<1> HIDE DEF longer
<1>3. /\ \A n \in DOMAIN old : n \in DOMAIN longer /\ longer[n] = old[n]
      /\ \A n \in DOMAIN longer : n \in DOMAIN old \/ longer[n] = e
  BY <1>1, <1>2
<1> QED
  BY <1>3 DEF longer

\* A payment with its account, its sale and its session locked.
LEMMA PaymentCommits ==
  ASSUME LedgerInv, NEW r \in Requests, NEW ask \in Ask, ask.op = "RegisterPayment",
         HasAccount(ask.sale), ask.session \in DOMAIN sessions,
         Holds(r, <<"sale", ask.sale>>), Holds(r, <<"account", ask.sale>>),
         Holds(r, <<"session", ask.session>>), SessionVerdict(ask) = "go on",
         Payable(account[ask.sale]), Appliable(account[ask.sale], ask.amount),
         Settle(ask.sale, account[ask.sale], ask.amount),
         PostPayment(ask.sale, DirectionOf(ask.sale), ask.method, ask.amount, ask.session, ask.booked),
         UNCHANGED <<sessions, stockVars, documentVars, salesVars>>
  PROVE  Next /\ WritesSales(r) /\ WritesStock(r) /\ WritesCash(r) /\ WritesDocuments(r)
<1> DEFINE s == ask.sale
           c == ask.session
<1>1. /\ s \in Sales /\ s \in Sources /\ s # NoSource /\ ask.amount \in Amounts
      /\ ask.method \in {"CASH", "OTHER"} /\ c \in Nat \ {0} /\ ask.booked \in BOOLEAN
      /\ ask.method = "CASH" => ask.booked
  BY AskShape, SalesAreSources, SourcesAssumption
<1>2. ask.method = "CASH" => sessions[c].status = "OPEN"
  BY DEF SessionVerdict, SessionLock, GoOnIf
<1>3. RegisterPayment(s, DirectionOf(s), ask.method, ask.amount, c, ask.booked)
  BY <1>1, <1>2 DEF RegisterPayment, Appliable
<1>4. DirectionOf(s) \in {"INBOUND", "OUTBOUND"}
  BY DEF DirectionOf
<1>5. FinanceNext
  BY <1>1, <1>3, <1>4 DEF FinanceNext
<1>6. Next
  BY <1>5 DEF Next
<1>7. WritesStock(r) /\ WritesDocuments(r)
  BY StockIsKept, DocumentsAreKept DEF documentVars
<1>8. WritesSales(r)
  <2>1. header \in [Sources -> Header] /\ account \in [Sources -> Account]
    BY DEF LedgerInv, TypeOK, FinanceTypeOK
  <2>2. \A x \in Sales \ {s} : header'[x] = header[x] /\ account'[x] = account[x]
    BY <1>1, <2>1, SalesAreSources DEF Settle
  <2>3. account'[s] = ApplyBalance(account[s], ask.amount)
    BY <1>1, <2>1 DEF Settle
  <2>4. account'[s].status \in {"PAID", "PARTIALLY_PAID"}
    <3>1. \A a, m : ApplyBalance(a, m).status \in {"PAID", "PARTIALLY_PAID"}
      BY DEF ApplyBalance
    <3> QED
      BY <2>3, <3>1
  <2>5. UNCHANGED draft
    BY DEF salesVars
  <2> QED
    BY <2>2, <2>4, <2>5 DEF WritesSales, HasAccount
<1>9. WritesCash(r)
  <2> DEFINE posted == [source |-> s, direction |-> DirectionOf(s), method |-> ask.method,
                     amount |-> ask.amount, session |-> c, booked |-> ask.booked,
                     status |-> "POSTED", reverses |-> 0]
  <2>1. payments \in Seq(Payment) /\ posted \in Payment
    BY <1>1, <1>4, SourcesAssumption, FinanceAssumption
    DEF LedgerInv, TypeOK, FinanceTypeOK, Payment
  <2>2. payments' = Append(payments, posted) /\ posted.session = c
    BY DEF PostPayment
  <2> SUFFICES ASSUME NEW new, new \in Payment, new.session = c, payments' = Append(payments, new)
               PROVE  WritesCash(r)
    BY <2>1, <2>2
  <2>3. /\ \A n \in DOMAIN payments : n \in DOMAIN payments' /\ payments'[n] = payments[n]
        /\ \A n \in DOMAIN payments' : n \in DOMAIN payments \/ payments'[n] = new
    <3>1. /\ \A n \in DOMAIN payments : /\ n \in DOMAIN Append(payments, new)
                                       /\ Append(payments, new)[n] = payments[n]
          /\ \A n \in DOMAIN Append(payments, new) :
               n \in DOMAIN payments \/ Append(payments, new)[n] = new
      BY <2>1, AppendKeeps
    <3> QED
      BY <3>1
  <2>4. \A d \in DOMAIN sessions : d # c => MovementsOf(d)' = MovementsOf(d)
    <3> SUFFICES ASSUME NEW d \in DOMAIN sessions, d # c
                 PROVE  \A n : n \in MovementsOf(d)' <=> n \in MovementsOf(d)
      OBVIOUS
    <3> SUFFICES ASSUME NEW n PROVE n \in MovementsOf(d)' <=> n \in MovementsOf(d)
      OBVIOUS
    <3>1. CASE n \in DOMAIN payments
      BY <2>3, <3>1 DEF MovementsOf
    <3>2. CASE n \notin DOMAIN payments
      <4>1. n \in DOMAIN payments' => payments'[n].session = c
        BY <2>3, <3>2
      <4> QED
        BY <3>2, <4>1 DEF MovementsOf
    <3> QED
      BY <3>1, <3>2
  <2>5. \A till : TillFree(till)' = TillFree(till)
    BY DEF TillFree
  <2> QED
    BY <2>4, <2>5 DEF WritesCash
<1> QED
  BY <1>6, <1>7, <1>8, <1>9

\* An opening with its place in the unique index locked.
LEMMA OpeningCommits ==
  ASSUME LedgerInv, NEW r \in Requests, NEW till \in Tills, Holds(r, <<"till", till>>),
         TillFree(till), AppendSession(till),
         UNCHANGED <<header, account, payments, stockVars, documentVars, salesVars>>
  PROVE  Next /\ WritesSales(r) /\ WritesStock(r) /\ WritesCash(r) /\ WritesDocuments(r)
<1>1. Next
  BY DEF Next, FinanceNext, OpenCashSession
<1>2. WritesSales(r) /\ WritesStock(r) /\ WritesDocuments(r)
  BY SalesAreKept, StockIsKept, DocumentsAreKept DEF documentVars, salesVars
<1> DEFINE new == [till |-> till, status |-> "OPEN", counted |-> {}]
<1>3. sessions \in Seq(Session) /\ sessions' = Append(sessions, new) /\ new.till = till
  BY DEF LedgerInv, TypeOK, FinanceTypeOK, AppendSession
<1> HIDE DEF new
<1>4. /\ DOMAIN sessions = 1 .. Len(sessions) /\ Len(sessions) \in Nat
      /\ DOMAIN sessions' = 1 .. Len(sessions) + 1
      /\ \A c \in DOMAIN sessions : sessions'[c] = sessions[c]
      /\ sessions'[Len(sessions) + 1] = new
  BY <1>3
<1>5. \A other \in Tills : TillFree(other) /\ other # till => TillFree(other)'
  BY <1>3, <1>4 DEF TillFree
<1>6. \A c : MovementsOf(c)' = MovementsOf(c)
  BY DEF MovementsOf
<1> QED
  BY <1>1, <1>2, <1>4, <1>5, <1>6 DEF WritesCash

\* A closing with its session locked.
LEMMA ClosingCommits ==
  ASSUME LedgerInv, NEW r \in Requests, NEW c \in DOMAIN sessions, Holds(r, <<"session", c>>),
         sessions[c].status = "OPEN", CloseSession(c, MovementsOf(c)),
         UNCHANGED <<header, account, payments, stockVars, documentVars, salesVars>>
  PROVE  Next /\ WritesSales(r) /\ WritesStock(r) /\ WritesCash(r) /\ WritesDocuments(r)
<1>1. Next
  BY DEF Next, FinanceNext, CloseCashSession
<1>2. WritesSales(r) /\ WritesStock(r) /\ WritesDocuments(r)
  BY SalesAreKept, StockIsKept, DocumentsAreKept DEF documentVars, salesVars
<1> SUFFICES ASSUME NEW N, N = MovementsOf(c) PROVE WritesCash(r)
  BY <1>1, <1>2
<1>3. sessions \in Seq(Session) /\ sessions' = [sessions EXCEPT ![c].status = "CLOSED", ![c].counted = N]
  BY DEF LedgerInv, TypeOK, FinanceTypeOK, CloseSession
<1>4. sessions[c] \in Session
  BY <1>3, ElementOfSeq, LenProperties
<1>5. /\ DOMAIN sessions' = DOMAIN sessions
      /\ \A d \in DOMAIN sessions : d # c => sessions'[d] = sessions[d]
      /\ sessions'[c] = [sessions[c] EXCEPT !.status = "CLOSED", !.counted = N]
  BY <1>3
<1>6. sessions'[c].till = sessions[c].till /\ sessions'[c].status = "CLOSED"
  BY <1>4, <1>5 DEF Session
<1>7. \A till : TillFree(till) => TillFree(till)'
  <2> SUFFICES ASSUME NEW till, TillFree(till), NEW d \in DOMAIN sessions
               PROVE  ~(sessions'[d].till = till /\ sessions'[d].status = "OPEN")
    BY <1>5 DEF TillFree
  <2>1. CASE d = c
    BY <1>6, <2>1
  <2>2. CASE d # c
    BY <1>5, <2>2 DEF TillFree
  <2> QED
    BY <2>1, <2>2
<1>8. \A d : MovementsOf(d)' = MovementsOf(d)
  BY DEF MovementsOf
<1> QED
  BY <1>5, <1>6, <1>7, <1>8 DEF WritesCash

\* A transition with its document locked.
LEMMA TransitionCommits ==
  ASSUME LedgerInv, NEW r \in Requests, NEW n \in DOMAIN documents, NEW target \in DocumentStatus,
         Holds(r, <<"document", n>>), target \in Transitions[documents[n].status],
         documents' = [documents EXCEPT ![n].status = target],
         UNCHANGED <<lastNumber, stockVars, financeVars, salesVars>>
  PROVE  Next /\ WritesSales(r) /\ WritesStock(r) /\ WritesCash(r) /\ WritesDocuments(r)
<1>1. Next
  <2>1. ManualTransition(n, target)
    BY DEF ManualTransition
  <2> QED
    BY <2>1 DEF Next, DocumentsNext
<1>2. WritesSales(r) /\ WritesStock(r) /\ WritesCash(r)
  BY SalesAreKept, StockIsKept, CashIsKept DEF financeVars, salesVars
<1>3. documents \in Seq(Document) /\ documents[n] \in Document
  BY ElementOfSeq, LenProperties DEF LedgerInv, TypeOK, DocumentsTypeOK
<1>4. /\ DOMAIN documents' = DOMAIN documents
      /\ \A m \in DOMAIN documents : m # n => documents'[m] = documents[m]
      /\ documents'[n] = [documents[n] EXCEPT !.status = target]
  BY <1>3
<1>5. documents'[n].sale = documents[n].sale
  BY <1>3, <1>4 DEF Document
<1>6. documents[n].status \notin {"VOIDED", "CANCELLED_INTERNAL"}
  BY DEF Transitions
<1>7. \A s : DocumentsOf(s)' = DocumentsOf(s)
  BY <1>4, <1>5 DEF DocumentsOf
<1>8. \A s : (Issued(s)' => Issued(s)) /\ (Alive(s)' => Alive(s))
  BY <1>4, <1>6, <1>7 DEF Issued, Alive, Dead, DocumentsOf
<1> QED
  BY <1>1, <1>2, <1>4, <1>8 DEF WritesDocuments

\* The idempotency row that is completed is that of the key.
LEMMA KeysAreWritten ==
  ASSUME RequestsOK, KeysOK, NEW r \in Requests, Running(r), AtCommit(r), KnowsKey(r), Commit(r)
  PROVE  WritesKeys(r)
<1>1. asks[r] \in Ask
  BY AskAtCommit
<1>2. CASE asks[r].op = "ManualTransition"
  <2>1. Script(asks[r]) = <<"document">>
    BY <1>2 DEF Script
  <2>2. UNCHANGED results
    BY <2>1 DEF Commit
  <2> QED
    BY <2>2 DEF WritesKeys
<1>3. CASE asks[r].op # "ManualTransition"
  <2>1. Holds(r, <<"key", asks[r].key>>)
    BY <1>1, <1>3, AllPassed DEF KnowsKey
  <2>2. \A k \in Keys : k # asks[r].key => results'[k] = results[k]
    BY DEF Commit, KeysOK
  <2> QED
    BY <2>1, <2>2 DEF WritesKeys
<1> QED
  BY <1>2, <1>3

\* Whatever was asked for, with what the request knows.
LEMMA CommitIsStep ==
  ASSUME LedgerInv, RequestsOK, KeysOK, NEW r \in Requests, Knows(r), Commit(r)
  PROVE  Next /\ WritesItsRows(r)
<1> SUFFICES ASSUME NEW ask, ask = asks[r] PROVE Next /\ WritesItsRows(r)
  OBVIOUS
<1>1. Running(r) /\ AtCommit(r) /\ Write(r)
  BY DEF Commit
<1>2. ask \in Ask /\ Sendable(ask)
  BY <1>1, AskAtCommit
<1>3. WritesKeys(r)
  BY <1>1, KeysAreWritten DEF Knows
<1> DEFINE Goal == Next /\ WritesSales(r) /\ WritesStock(r) /\ WritesCash(r) /\ WritesDocuments(r)
<1>4. ASSUME ask.op \in {"ConfirmSale", "CancelSale", "IssueDocument", "RegisterPayment"}
      PROVE  ask.sale \in Sales /\ Holds(r, <<"sale", ask.sale>>) /\ SaleVerdict(ask) = "go on"
  BY <1>1, <1>2, <1>4, AskShape, AllPassed DEF Knows, KnowsSale
<1>5. CASE ask.op = "ConfirmSale"
  <2>1. draft[ask.sale] # NoDraft
    BY <1>2, <1>5 DEF Sendable
  <2>2. Confirmable(ask.sale) /\ Deliverable(draft[ask.sale])
    BY <1>4, <1>5 DEF SaleVerdict, GoOnIf
  <2>3. HoldsBalances(r, draft[ask.sale]) /\ Available(draft[ask.sale])
    BY <1>1, <1>2, <1>5, AllPassed DEF Knows, KnowsBalances
  <2>4. WriteConfirmation(ask.sale, draft[ask.sale])
    BY <1>1, <1>5 DEF Write
  <2>5. Goal
    BY <1>4, <1>5, <2>1, <2>2, <2>3, <2>4, ConfirmationCommits
  <2> QED
    BY <1>3, <2>5 DEF WritesItsRows
<1>6. CASE ask.op = "CancelSale"
  <2>1. draft[ask.sale] # NoDraft
    BY <1>2, <1>6 DEF Sendable
  <2>2. Cancellable(ask.sale)
    BY <1>4, <1>6 DEF SaleVerdict, GoOnIf
  <2>3. Passed(r, "papers") /\ Passed(r, "account") /\ Passed(r, "return")
    BY <1>1, <1>2, <1>6, AllPassed
  <2>4. /\ HasAccount(ask.sale) => Holds(r, <<"account", ask.sale>>)
        /\ AccountVerdict(ask) = "go on"
    BY <2>3 DEF Knows, KnowsAccount
  <2>5. ~Alive(ask.sale) /\ account[ask.sale].applied = 0
    BY <1>6, <2>3, <2>4 DEF AccountVerdict, GoOnIf, Knows, KnowsPapers
  <2>6. /\ Returns(ask.sale, draft[ask.sale]) => HoldsBalances(r, draft[ask.sale])
        /\ ReturnVerdict(ask) = "go on"
    BY <2>3 DEF Knows, KnowsReturn
  <2>7. HasAccount(ask.sale) => AddsUp(CancelledAccount(account[ask.sale]))
    BY <2>6 DEF ReturnVerdict
  <2>8. WriteCancellation(ask.sale, draft[ask.sale])
    BY <1>1, <1>6 DEF Write
  <2>9. Goal
    BY <1>4, <1>6, <2>1, <2>2, <2>4, <2>5, <2>6, <2>7, <2>8, CancellationCommits
  <2> QED
    BY <1>3, <2>9 DEF WritesItsRows
<1>7. CASE ask.op = "IssueDocument"
  <2>1. Documentable(ask.sale)
    BY <1>4, <1>7 DEF SaleVerdict, GoOnIf
  <2>2. ask.type \in DocumentTypes
    BY <1>2, <1>7, AskShape
  <2>3. WriteDocument(ask.sale, ask.type)
    BY <1>1, <1>7 DEF Write
  <2>4. Goal
    BY <1>4, <1>7, <2>1, <2>2, <2>3, DocumentCommits
  <2> QED
    BY <1>3, <2>4 DEF WritesItsRows
<1>8. CASE ask.op = "RegisterPayment"
  <2>1. HasAccount(ask.sale) /\ ask.session \in DOMAIN sessions
    BY <1>2, <1>8 DEF Sendable
  <2>2. Passed(r, "account") /\ Passed(r, "session")
    BY <1>1, <1>2, <1>8, AllPassed
  <2>3. /\ Holds(r, <<"account", ask.sale>>) /\ AccountVerdict(ask) = "go on"
        /\ read[r].account = account[ask.sale]
    BY <2>1, <2>2 DEF Knows, KnowsAccount
  <2>4. Payable(account[ask.sale]) /\ Appliable(account[ask.sale], ask.amount)
    BY <1>8, <2>3 DEF AccountVerdict, GoOnIf
  <2>5. Holds(r, <<"session", ask.session>>) /\ SessionVerdict(ask) = "go on"
    BY <2>2 DEF Knows, KnowsSession
  <2>6. /\ Settle(ask.sale, account[ask.sale], ask.amount)
        /\ PostPayment(ask.sale, DirectionOf(ask.sale), ask.method, ask.amount, ask.session, ask.booked)
        /\ UNCHANGED <<sessions, stockVars, documentVars, salesVars>>
    BY <1>1, <1>8, <2>3 DEF Write
  <2>7. Goal
    BY <1>2, <1>4, <1>8, <2>1, <2>3, <2>4, <2>5, <2>6, PaymentCommits
  <2> QED
    BY <1>3, <2>7 DEF WritesItsRows
<1>9. CASE ask.op = "OpenCashSession"
  <2>1. ask.till \in Tills /\ Passed(r, "till")
    BY <1>1, <1>2, <1>9, AskShape, AllPassed
  <2>2. Holds(r, <<"till", ask.till>>) /\ TillFree(ask.till)
    BY <1>9, <2>1 DEF Knows, KnowsTill, TillOf, TillVerdict, GoOnIf
  <2>3. /\ AppendSession(ask.till)
        /\ UNCHANGED <<header, account, payments, stockVars, documentVars, salesVars>>
    BY <1>1, <1>9 DEF Write
  <2>4. Goal
    BY <2>1, <2>2, <2>3, OpeningCommits
  <2> QED
    BY <1>3, <2>4 DEF WritesItsRows
<1>10. CASE ask.op = "CloseCashSession"
  <2>1. ask.session \in DOMAIN sessions
    BY <1>2, <1>10 DEF Sendable
  <2>2. Passed(r, "session")
    BY <1>1, <1>2, <1>10, AllPassed
  <2>3. /\ Holds(r, <<"session", ask.session>>) /\ SessionVerdict(ask) = "go on"
        /\ read[r].counted = MovementsOf(ask.session)
    BY <1>10, <2>2 DEF Knows, KnowsSession
  <2>4. sessions[ask.session].status = "OPEN"
    BY <1>10, <2>3 DEF SessionVerdict, SessionLock, GoOnIf
  <2>5. /\ CloseSession(ask.session, MovementsOf(ask.session))
        /\ UNCHANGED <<header, account, payments, stockVars, documentVars, salesVars>>
    BY <1>1, <1>10, <2>3 DEF Write
  <2>6. Goal
    BY <2>1, <2>3, <2>4, <2>5, ClosingCommits
  <2> QED
    BY <1>3, <2>6 DEF WritesItsRows
<1>11. CASE ask.op = "ManualTransition"
  <2>1. ask.document \in DOMAIN documents
    BY <1>2, <1>11 DEF Sendable
  <2>2. ask.target \in DocumentStatus /\ Passed(r, "document")
    BY <1>1, <1>2, <1>11, AskShape, AllPassed
  <2>3. /\ Holds(r, <<"document", ask.document>>)
        /\ ask.target \in Transitions[documents[ask.document].status]
    BY <2>2 DEF Knows, KnowsDocument
  <2>4. /\ documents' = [documents EXCEPT ![ask.document].status = ask.target]
        /\ UNCHANGED <<lastNumber, stockVars, financeVars, salesVars>>
    BY <1>1, <1>11 DEF Write
  <2>5. Goal
    BY <2>1, <2>2, <2>3, <2>4, TransitionCommits
  <2> QED
    BY <1>3, <2>5 DEF WritesItsRows
<1> QED
  BY <1>2, <1>5, <1>6, <1>7, <1>8, <1>9, <1>10, <1>11, AskShape

-----------------------------------------------------------------------------
(* What one request writes is not what another one knows.                  *)

\* What r writes it holds, and nobody else does.
LEMMA OthersKept ==
  ASSUME LocksOK, NEW r, NEW q, q # r, WritesItsRows(r)
  PROVE  RowsKept(q)
<1>1. \A row : row[1] \in {"key", "sale", "balance", "account", "till", "document"} =>
        ~(Holds(q, row) /\ Holds(r, row))
  BY Exclusive
<1>2. \A s : ~(Holds(q, <<"sale", s>>) /\ Holds(r, <<"sale", s>>))
  BY <1>1, RowsAreTagged
<1>3. \A s \in Sales : Holds(q, <<"sale", s>>) =>
        /\ header'[s] = header[s]
        /\ Issued(s)' => Issued(s)
        /\ Alive(s)' => Alive(s)
        /\ ~HasAccount(s) => account'[s] = account[s]
  BY <1>2 DEF WritesItsRows, WritesSales, WritesDocuments
<1>4. \A s \in Sales : HasAccount(s) =>
        HasAccount(s)' /\ (Holds(q, <<"account", s>>) => account'[s] = account[s])
  <2>1. \A s : ~(Holds(q, <<"account", s>>) /\ Holds(r, <<"account", s>>))
    BY <1>1, RowsAreTagged
  <2> QED
    BY <2>1 DEF WritesItsRows, WritesSales
<1>5. \A w \in Warehouses, i \in Items :
        Holds(q, <<"balance", w, i>>) => balance'[w][i] = balance[w][i]
  <2>1. \A w, i : ~(Holds(q, <<"balance", w, i>>) /\ Holds(r, <<"balance", w, i>>))
    BY <1>1, RowsAreTagged
  <2> QED
    BY <2>1 DEF WritesItsRows, WritesStock
<1>6. \A c \in DOMAIN sessions :
        /\ c \in DOMAIN sessions' /\ sessions'[c].till = sessions[c].till
        /\ Holds(q, <<"session", c>>) /\ SessionLock(asks[q]) = "UPDATE" =>
             sessions'[c] = sessions[c] /\ MovementsOf(c)' = MovementsOf(c)
  <2>1. \A c : Holds(q, <<"session", c>>) /\ SessionLock(asks[q]) = "UPDATE" =>
          ~Holds(r, <<"session", c>>)
    BY SessionExclusive
  <2> QED
    BY <2>1 DEF WritesItsRows, WritesCash
<1>7. \A till \in Tills : Holds(q, <<"till", till>>) /\ TillFree(till) => TillFree(till)'
  <2>1. \A till : ~(Holds(q, <<"till", till>>) /\ Holds(r, <<"till", till>>))
    BY <1>1, RowsAreTagged
  <2> QED
    BY <2>1 DEF WritesItsRows, WritesCash
<1>8. \A n \in DOMAIN documents :
        n \in DOMAIN documents' /\ (Holds(q, <<"document", n>>) => documents'[n] = documents[n])
  <2>1. \A n : ~(Holds(q, <<"document", n>>) /\ Holds(r, <<"document", n>>))
    BY <1>1, RowsAreTagged
  <2> QED
    BY <2>1 DEF WritesItsRows, WritesDocuments
<1>9. \A k \in Keys : Holds(q, <<"key", k>>) => results'[k] = results[k]
  <2>1. \A k : ~(Holds(q, <<"key", k>>) /\ Holds(r, <<"key", k>>))
    BY <1>1, RowsAreTagged
  <2> QED
    BY <2>1 DEF WritesItsRows, WritesKeys
<1>10. UNCHANGED draft
  BY DEF WritesItsRows, WritesSales
<1> QED
  BY <1>3, <1>4, <1>5, <1>6, <1>7, <1>8, <1>9, <1>10 DEF RowsKept

\* Everybody but r knows what it knew, and whatever a request names is still there.
LEMMA OthersKnow ==
  ASSUME LedgerInv, RequestsOK, LocksOK, NEW r \in Requests,
         UNCHANGED <<vars, results>> \/ WritesItsRows(r),
         \A q \in Requests : Knows(q),
         \A q \in Requests \ {r} :
           asks'[q] = asks[q] /\ at'[q] = at[q] /\ read'[q] = read[q],
         \A q \in Requests \ {r} : \A row : Holds(q, row) => Holds(q, row)'
  PROVE  /\ \A q \in Requests \ {r} : Knows(q)'
         /\ \A ask \in Ask : Sendable(ask) => Sendable(ask)'
<1>1. \A q : q # r => RowsKept(q)
  BY OthersKept, NothingIsKept
<1>2. ASSUME NEW q \in Requests \ {r} PROVE Knows(q)'
  <2>1. \A st : Passed(q, st)' => Passed(q, st)
    BY DEF Passed, Script
  <2> QED
    BY <1>1, <2>1, KnowledgeStays
<1>3. \A ask \in Ask : Sendable(ask) => Sendable(ask)'
  <2>1. 0 # r
    BY DEF Requests
  <2>2. RowsKept(0)
    BY <1>1, <2>1
  <2> QED
    BY <2>2, NamesStay
<1> QED
  BY <1>2, <1>3

-----------------------------------------------------------------------------
(* The steps of a request keep the invariant.                              *)

\* Nothing is behind a request that starts or has ended.
LEMMA NothingPassed ==
  ASSUME NEW r, at'[r] \in {0, 1}
  PROVE  Knows(r)'
<1>1. \A st : ~Passed(r, st)'
  BY DEF Passed
<1> QED
  BY <1>1 DEF Knows, KnowsKey, KnowsSale, KnowsBalances, KnowsPapers, KnowsAccount, KnowsReturn,
            KnowsSession, KnowsTill, KnowsDocument

\* What the ledger keeps, the requests that only wait keep.
LEMMA SameLedger ==
  ASSUME LedgerInv, ClosedSessionHasItsCash, UNCHANGED vars
  PROVE  LedgerInv' /\ ClosedSessionHasItsCash'
<1>1. LedgerInv'
  BY StepKeepsLedgerInv
<1>2. ClosedSessionHasItsCash'
  <2>1. UNCHANGED <<payments, sessions>>
    BY DEF vars, financeVars
  <2> QED
    BY <2>1 DEF ClosedSessionHasItsCash, MovementsOf
<1> QED
  BY <1>1, <1>2

\* A request that is sent begins with nothing behind it.
LEMMA SendingKeeps ==
  ASSUME TransactionsInv, NEW r \in Requests, NEW ask \in Asks, Send(r, ask)
  PROVE  TransactionsInv'
<1>1. /\ asks[r] = NoAsk /\ Sendable(ask) /\ UNCHANGED <<vars, locks, read, results, outcome>>
      /\ asks' = [asks EXCEPT ![r] = ask] /\ at' = [at EXCEPT ![r] = 1]
  BY DEF Send
<1>2. /\ asks \in [Requests -> Asks \cup {NoAsk}] /\ at \in [Requests -> Nat]
      /\ at[r] = 0 /\ outcome[r] = "none"
  BY <1>1 DEF TransactionsInv, RequestsOK
<1>3. /\ asks'[r] = ask /\ at'[r] = 1
      /\ \A q \in Requests \ {r} : asks'[q] = asks[q] /\ at'[q] = at[q]
      /\ asks' \in [Requests -> Asks \cup {NoAsk}] /\ at' \in [Requests -> Nat]
  BY <1>1, <1>2
<1>4. LedgerInv' /\ ClosedSessionHasItsCash'
  BY <1>1, SameLedger DEF TransactionsInv
<1>5. \A q, row : Holds(q, row)' = Holds(q, row)
  BY <1>1 DEF Holds
<1>6. /\ \A q \in Requests \ {r} : Knows(q)'
      /\ \A other \in Ask : Sendable(other) => Sendable(other)'
  BY <1>1, <1>3, <1>5, OthersKnow DEF TransactionsInv
<1>7. Knows(r)'
  BY <1>3, NothingPassed
<1>8. RequestsOK'
  <2>1. /\ read' \in [Requests -> [account : Account, counted : SUBSET Nat]]
        /\ outcome' \in [Requests -> {"none", "done", "replay", "conflict", "error", "aborted"}]
    BY <1>1 DEF TransactionsInv, RequestsOK
  <2>2. ask \in Ask /\ ask # NoAsk /\ Len(Script(ask)) \in {1, 2, 3, 4, 5}
    BY StatementsOf, TransactionsAssumption
  <2>3. /\ asks'[r] # NoAsk /\ at'[r] <= Len(Script(asks'[r])) + 1 /\ Sendable(asks[r])'
        /\ outcome'[r] = "none"
    <3>1. Sendable(ask)'
      BY <1>1, <1>6, <2>2
    <3>2. Sendable(asks[r])'
      BY <1>3, <3>1 DEF Sendable, HasAccount
    <3> QED
      BY <1>1, <1>2, <1>3, <2>2, <3>2
  <2>4. ASSUME NEW q \in Requests \ {r}
        PROVE  /\ asks'[q] = NoAsk => at'[q] = 0 /\ outcome'[q] = "none"
               /\ asks'[q] # NoAsk => at'[q] <= Len(Script(asks'[q])) + 1 /\ Sendable(asks[q])'
               /\ Running(q)' => outcome'[q] = "none"
    <3>1. asks'[q] # NoAsk => Sendable(asks[q]) /\ asks[q] \in Ask
      BY <1>2, <1>3, TransactionsAssumption DEF TransactionsInv, RequestsOK
    <3>2. asks'[q] # NoAsk => Sendable(asks[q])'
      <4> SUFFICES ASSUME NEW other \in Ask, other = asks'[q], Sendable(other)
                   PROVE  Sendable(other)'
        BY <1>3, <3>1 DEF Sendable, HasAccount
      <4> QED
        BY <1>6
    <3> QED
      BY <1>1, <1>3, <3>2 DEF TransactionsInv, RequestsOK, Running
  <2>5. \A q \in Requests :
          /\ asks'[q] = NoAsk => at'[q] = 0 /\ outcome'[q] = "none"
          /\ asks'[q] # NoAsk => at'[q] <= Len(Script(asks'[q])) + 1 /\ Sendable(asks[q])'
          /\ Running(q)' => outcome'[q] = "none"
    BY <2>3, <2>4
  <2> QED
    BY <1>3, <2>1, <2>5 DEF RequestsOK, Script, Sendable, HasAccount
<1>9. LocksOK'
  <2>1. \A h \in locks : h.by \in Requests \ {r}
    BY <1>2 DEF TransactionsInv, LocksOK, Running
  <2>2. \A other, row : ModeOf(other, row)' = ModeOf(other, row)
    BY DEF ModeOf, SaleLock, SessionLock
  <2>3. \A h \in locks' : h.by \in Requests /\ at'[h.by] # 0 /\ h.mode = ModeOf(asks'[h.by], h.row)
    BY <1>1, <1>3, <2>1 DEF TransactionsInv, LocksOK, Running
  <2>4. \A g, h \in locks' : g.by # h.by /\ g.row = h.row => ~Conflict(g.mode, h.mode)
    BY <1>1 DEF TransactionsInv, LocksOK
  <2> QED
    BY <2>3, <2>4 DEF LocksOK, Running, ModeOf, SaleLock, SessionLock, Conflict
<1>10. KeysOK'
  <2>1. \A p \in Requests : Executed(p)' <=> Executed(p)
    BY <1>1 DEF Executed
  <2>2. ~Executed(r) /\ outcome'[r] # "replay"
    BY <1>1, <1>2 DEF Executed
  <2>3. \A p \in Requests \ {r} : HasKey(p)' <=> HasKey(p)
    BY <1>3 DEF HasKey
  <2>4. results' \in [Keys -> Result \cup {NoResult}]
    BY <1>1 DEF TransactionsInv, KeysOK
  <2>5. \A k \in Keys : results'[k] # NoResult =>
          \E p \in Requests : /\ Executed(p)' /\ HasKey(p)' /\ asks'[p].key = k
                              /\ results'[k].content = Content(asks'[p])
    BY <1>1, <1>3, <2>1, <2>2, <2>3 DEF TransactionsInv, KeysOK
  <2>6. \A q \in Requests : Executed(q)' /\ HasKey(q)' => results'[asks'[q].key] # NoResult
    BY <1>1, <1>3, <2>1, <2>2, <2>3 DEF TransactionsInv, KeysOK
  <2>7. \A q \in Requests : outcome'[q] = "replay" =>
          \E p \in Requests : Executed(p)' /\ asks'[p] = asks'[q]
    BY <1>1, <1>3, <2>1, <2>2 DEF TransactionsInv, KeysOK
  <2>8. \A p, q \in Requests :
          HasKey(p)' /\ HasKey(q)' /\ p # q /\ asks'[p].key = asks'[q].key =>
            ~(Executed(p)' /\ Executed(q)')
    BY <1>3, <2>1, <2>2, <2>3 DEF TransactionsInv, KeysOK
  <2> QED
    BY <2>4, <2>5, <2>6, <2>7, <2>8 DEF KeysOK, Result, Content
<1> QED
  BY <1>4, <1>6, <1>7, <1>8, <1>9, <1>10 DEF TransactionsInv

\* A request that ends, whatever it wrote before, knows nothing and holds nothing.
LEMMA EndingKeeps ==
  ASSUME LedgerInv, RequestsOK, LocksOK, \A q \in Requests : Knows(q), NEW r \in Requests,
         Running(r), NEW how \in {"done", "replay", "conflict", "error", "aborted"}, End(r, how),
         UNCHANGED <<vars, results>> \/ WritesItsRows(r)
  PROVE  RequestsOK' /\ LocksOK' /\ \A q \in Requests : Knows(q)'
<1>1. /\ outcome' = [outcome EXCEPT ![r] = how] /\ at' = [at EXCEPT ![r] = 0]
      /\ read' = [read EXCEPT ![r] = Unread] /\ UNCHANGED asks
  BY DEF End
<1>2. /\ asks \in [Requests -> Asks \cup {NoAsk}] /\ at \in [Requests -> Nat]
      /\ read \in [Requests -> [account : Account, counted : SUBSET Nat]]
      /\ outcome \in [Requests -> {"none", "done", "replay", "conflict", "error", "aborted"}]
      /\ asks[r] # NoAsk
  BY DEF RequestsOK, Running
<1>3. LocksOK' /\ \A q \in Requests \ {r} : \A row : Holds(q, row) => Holds(q, row)'
  BY <1>2, LocksReleased
<1>4. /\ at'[r] = 0 /\ outcome'[r] = how
      /\ \A q \in Requests \ {r} : at'[q] = at[q] /\ read'[q] = read[q] /\ outcome'[q] = outcome[q]
  BY <1>1, <1>2
<1>5. /\ \A q \in Requests \ {r} : Knows(q)'
      /\ \A ask \in Ask : Sendable(ask) => Sendable(ask)'
  BY <1>1, <1>3, <1>4, OthersKnow
<1>6. Knows(r)'
  BY <1>4, NothingPassed
<1>7. RequestsOK'
  <2>1. Unread \in [account : Account, counted : SUBSET Nat]
    BY DEF Unread, NoAccount, Account, AccountStatus
  <2>2. /\ asks' \in [Requests -> Asks \cup {NoAsk}] /\ at' \in [Requests -> Nat]
        /\ read' \in [Requests -> [account : Account, counted : SUBSET Nat]]
        /\ outcome' \in [Requests -> {"none", "done", "replay", "conflict", "error", "aborted"}]
    BY <1>1, <1>2, <2>1
  <2>3. \A q \in Requests : asks[q] # NoAsk =>
          asks[q] \in Ask /\ Len(Script(asks[q])) \in {1, 2, 3, 4, 5} /\ Sendable(asks[q])'
    <3> SUFFICES ASSUME NEW q \in Requests, NEW ask, ask = asks[q], ask # NoAsk
                 PROVE  ask \in Ask /\ Len(Script(ask)) \in {1, 2, 3, 4, 5} /\ Sendable(ask)'
      BY <1>1 DEF Sendable, HasAccount
    <3>1. ask \in Ask /\ Sendable(ask)
      BY <1>2, TransactionsAssumption DEF RequestsOK
    <3> QED
      BY <1>5, <3>1, StatementsOf
  <2>4. \A q \in Requests :
          /\ asks[q] = NoAsk => at'[q] = 0 /\ outcome'[q] = "none"
          /\ asks[q] # NoAsk => at'[q] <= Len(Script(asks[q])) + 1
          /\ Running(q)' => outcome'[q] = "none"
    BY <1>2, <1>4, <2>3 DEF RequestsOK, Running
  <2> QED
    BY <1>1, <2>2, <2>3, <2>4 DEF RequestsOK, Script, Sendable, HasAccount
<1> QED
  BY <1>3, <1>5, <1>6, <1>7

\* An ask with a key, and one without.
LEMMA KeyOfAsk ==
  ASSUME NEW ask \in Ask
  PROVE  "key" \in DOMAIN ask <=> ask.op # "ManualTransition"
<1>1. CASE ask \in [op : {"ManualTransition"}, document : Nat \ {0}, target : DocumentStatus]
  <2>1. ask.op = "ManualTransition" /\ DOMAIN ask = {"op", "document", "target"}
    BY <1>1
  <2> QED
    BY <2>1
<1>2. CASE ask \notin [op : {"ManualTransition"}, document : Nat \ {0}, target : DocumentStatus]
  <2>1. "key" \in DOMAIN ask
    BY <1>2 DEF Ask
  <2>2. ask.op # "ManualTransition"
    BY <1>2 DEF Ask
  <2> QED
    BY <2>1, <2>2
<1> QED
  BY <1>1, <1>2

\* Who does not commit leaves the keys, if what it answers as a replay was carried out.
LEMMA SameKeys ==
  ASSUME KeysOK, UNCHANGED <<asks, results>>,
         \A p \in Requests : outcome'[p] = "done" <=> outcome[p] = "done",
         \A q \in Requests : outcome'[q] = "replay" =>
           outcome[q] = "replay" \/ \E p \in Requests : Executed(p) /\ asks[p] = asks[q]
  PROVE  KeysOK'
<1>1. \A p \in Requests : Executed(p)' <=> Executed(p)
  BY DEF Executed
<1>2. \A p : HasKey(p)' <=> HasKey(p)
  BY DEF HasKey
<1>3. results' \in [Keys -> Result \cup {NoResult}]
  BY DEF KeysOK
<1>4. \A k \in Keys : results'[k] # NoResult =>
        \E p \in Requests : /\ Executed(p)' /\ HasKey(p)' /\ asks'[p].key = k
                            /\ results'[k].content = Content(asks'[p])
  BY <1>1, <1>2 DEF KeysOK
<1>5. \A q \in Requests : Executed(q)' /\ HasKey(q)' => results'[asks'[q].key] # NoResult
  BY <1>1, <1>2 DEF KeysOK
<1>6. \A q \in Requests : outcome'[q] = "replay" =>
        \E p \in Requests : Executed(p)' /\ asks'[p] = asks'[q]
  BY <1>1 DEF KeysOK
<1>7. \A p, q \in Requests :
        HasKey(p)' /\ HasKey(q)' /\ p # q /\ asks'[p].key = asks'[q].key =>
          ~(Executed(p)' /\ Executed(q)')
  BY <1>1, <1>2 DEF KeysOK
<1> QED
  BY <1>3, <1>4, <1>5, <1>6, <1>7 DEF KeysOK, Result, Content

\* So does who ends without its commit.
LEMMA RollbackKeepsKeys ==
  ASSUME RequestsOK, KeysOK, NEW r \in Requests, Running(r), NEW how, End(r, how),
         how # "done", UNCHANGED results,
         how = "replay" => \E p \in Requests : Executed(p) /\ asks[p] = asks[r]
  PROVE  KeysOK'
<1>1. /\ outcome' = [outcome EXCEPT ![r] = how] /\ UNCHANGED asks
      /\ outcome \in [Requests -> {"none", "done", "replay", "conflict", "error", "aborted"}]
      /\ outcome[r] = "none"
  BY DEF End, RequestsOK
<1>2. /\ outcome'[r] = how
      /\ \A q \in Requests \ {r} : outcome'[q] = outcome[q]
  BY <1>1
<1> QED
  BY <1>1, <1>2, SameKeys

\* What a request is refused for never says that it is done, and what is answered
\* as a replay of a key was asked for, word for word, by the one that ran.
LEMMA Refusals ==
  ASSUME RequestsOK, KeysOK, NEW r \in Requests, Running(r), ~AtCommit(r), Verdict(r) # "go on"
  PROVE  /\ Verdict(r) \in {"replay", "conflict", "error"}
         /\ Verdict(r) = "replay" => \E p \in Requests : Executed(p) /\ asks[p] = asks[r]
<1>1. asks[r] \in Ask /\ asks[r] # NoAsk /\ at[r] \in 1 .. Len(Script(asks[r]))
  BY AtStatement, TransactionsAssumption
<1>2. /\ Statement(r) \in {"key", "sale", "balances", "number", "account", "return", "session",
                           "till", "document", "papers"}
      /\ Statement(r) = "key" => asks[r].op # "ManualTransition"
      /\ Statement(r) = "sale" =>
           asks[r].op \in {"ConfirmSale", "CancelSale", "IssueDocument", "RegisterPayment"}
      /\ Statement(r) = "account" => asks[r].op \in {"CancelSale", "RegisterPayment"}
  BY <1>1, StatementsOf DEF Statement
<1>3. \A b : GoOnIf(b) \in {"go on", "conflict"}
  BY DEF GoOnIf
<1>4. CASE Statement(r) = "key"
  <2>1. Verdict(r) = KeyVerdict(asks[r])
    BY <1>4 DEF Verdict
  <2>2. asks[r].key \in Keys
    BY <1>1, <1>2, <1>4, AskShape
  <2>3. results[asks[r].key] # NoResult
    BY <2>1 DEF KeyVerdict
  <2>4. Verdict(r) = "replay" => results[asks[r].key].content = Content(asks[r])
    BY <2>1, <2>3 DEF KeyVerdict
  <2>5. ASSUME Verdict(r) = "replay" PROVE \E p \in Requests : Executed(p) /\ asks[p] = asks[r]
    <3>1. PICK p \in Requests : /\ Executed(p) /\ HasKey(p) /\ asks[p].key = asks[r].key
                                /\ results[asks[r].key].content = Content(asks[p])
      BY <2>2, <2>3 DEF KeysOK
    <3>2. asks[p] \in Ask /\ "key" \in DOMAIN asks[p]
      BY <3>1, TransactionsAssumption DEF HasKey, RequestsOK
    <3>3. asks[p].op # "ManualTransition"
      BY <3>2, KeyOfAsk
    <3>4. asks[p] = asks[r]
      BY <1>1, <1>2, <1>4, <2>4, <2>5, <3>1, <3>2, <3>3, ContentTells
    <3> QED
      BY <3>1, <3>4
  <2> QED
    BY <2>1, <2>3, <2>5 DEF KeyVerdict
<1>5. CASE Statement(r) = "sale"
  <2>1. Verdict(r) = SaleVerdict(asks[r])
    BY <1>5 DEF Verdict
  <2>2. SaleVerdict(asks[r]) \in {"go on", "conflict"}
    BY <1>2, <1>3, <1>5 DEF SaleVerdict
  <2> QED
    BY <2>1, <2>2
<1>6. CASE Statement(r) = "account"
  <2>1. Verdict(r) = AccountVerdict(asks[r])
    BY <1>6 DEF Verdict
  <2>2. AccountVerdict(asks[r]) \in {"go on", "conflict"}
    BY <1>2, <1>3, <1>6 DEF AccountVerdict
  <2> QED
    BY <2>1, <2>2
<1>7. CASE Statement(r) = "return"
  <2>1. Verdict(r) = ReturnVerdict(asks[r])
    BY <1>7 DEF Verdict
  <2> QED
    BY <2>1 DEF ReturnVerdict
<1>8. CASE Statement(r) \in {"balances", "number", "session", "till", "document", "papers"}
  <2>1. Verdict(r) \in {"go on", "conflict"}
    BY <1>3, <1>8 DEF Verdict, SessionVerdict, TillVerdict
  <2> QED
    BY <2>1
<1> QED
  BY <1>2, <1>4, <1>5, <1>6, <1>7, <1>8

\* Who only waits keeps what it knows.
LEMMA WaitingKeeps ==
  ASSUME TransactionsInv, UNCHANGED <<vars, asks, at, read, results, outcome>>, LocksOK',
         \A q, row : Holds(q, row) => Holds(q, row)'
  PROVE  TransactionsInv'
<1>1. LedgerInv' /\ ClosedSessionHasItsCash'
  BY SameLedger DEF TransactionsInv
<1>2. \A q \in Requests : Knows(q)'
  <2> SUFFICES ASSUME NEW q \in Requests PROVE Knows(q)'
    OBVIOUS
  <2>1. \A st : Passed(q, st)' => Passed(q, st)
    BY DEF Passed, Script
  <2>2. RowsKept(q)
    BY NothingIsKept
  <2> QED
    BY <2>1, <2>2, KnowledgeStays DEF TransactionsInv
<1>3. RequestsOK'
  <2>1. \A ask : Sendable(ask)' <=> Sendable(ask)
    BY DEF Sendable, HasAccount, vars, financeVars, documentVars, salesVars
  <2>2. \A q : Sendable(asks[q])' <=> Sendable(asks[q])
    <3> SUFFICES ASSUME NEW q, NEW ask, ask = asks[q], ask = asks'[q]
                 PROVE  Sendable(ask)' <=> Sendable(ask)
      BY DEF Sendable, HasAccount
    <3> QED
      BY <2>1
  <2> QED
    BY <2>2 DEF TransactionsInv, RequestsOK, Running, Script, Sendable, HasAccount
<1>4. KeysOK'
  BY SameKeys DEF TransactionsInv
<1> QED
  BY <1>1, <1>2, <1>3, <1>4 DEF TransactionsInv

\* A lock more.
LEMMA LockingKeeps ==
  ASSUME TransactionsInv, NEW r \in Requests, TakeLock(r)
  PROVE  TransactionsInv'
<1>1. LocksOK'
  BY LocksGranted DEF TransactionsInv, Running, TakeLock
<1>2. \A q, row : Holds(q, row) => Holds(q, row)'
  BY LocksHeld DEF TakeLock
<1> QED
  BY <1>1, <1>2, WaitingKeeps DEF TakeLock

\* Nobody waits but who runs.
LEMMA WaitersRun == ASSUME NEW r, Deadlocked(r) PROVE Running(r)
<1>1. Blockers(r) # {}
  BY DEF Deadlocked
<1> QED
  BY <1>1 DEF Blockers

\* What a request reads is what the rows say.
LEMMA ReadingIsTyped ==
  ASSUME LedgerInv, RequestsOK, NEW r \in Requests, Running(r), ~AtCommit(r)
  PROVE  /\ Reading(r) \in [account : Account, counted : SUBSET Nat]
         /\ Reading(r).account =
              IF Statement(r) = "account" THEN account[asks[r].sale] ELSE read[r].account
         /\ Reading(r).counted =
              IF Statement(r) = "session" THEN MovementsOf(asks[r].session) ELSE read[r].counted
<1>1. read[r] \in [account : Account, counted : SUBSET Nat]
  BY DEF RequestsOK
<1>2. CASE Statement(r) = "account"
  <2>1. asks[r] \in Ask /\ at[r] \in 1 .. Len(Script(asks[r]))
    BY AtStatement
  <2>2. asks[r].op \in {"CancelSale", "RegisterPayment"}
    BY <1>2, <2>1, StatementsOf DEF Statement
  <2>3. asks[r].sale \in Sources
    BY <2>1, <2>2, AskShape, SalesAreSources
  <2>4. account[asks[r].sale] \in Account
    BY <2>3 DEF LedgerInv, TypeOK, FinanceTypeOK
  <2>5. Reading(r) = [read[r] EXCEPT !.account = account[asks[r].sale]]
    BY <1>2 DEF Reading
  <2> QED
    BY <1>1, <1>2, <2>4, <2>5
<1>3. CASE Statement(r) = "session"
  <2>1. MovementsOf(asks[r].session) \in SUBSET Nat
    <3>1. DOMAIN payments = 1 .. Len(payments)
      BY LenProperties DEF LedgerInv, TypeOK, FinanceTypeOK
    <3> QED
      BY <3>1 DEF MovementsOf
  <2>2. Reading(r) = [read[r] EXCEPT !.counted = MovementsOf(asks[r].session)]
    BY <1>3 DEF Reading
  <2> QED
    BY <1>1, <1>3, <2>1, <2>2
<1>4. CASE Statement(r) \notin {"account", "session"}
  <2>1. Reading(r) = read[r]
    BY <1>4 DEF Reading
  <2> QED
    BY <1>1, <1>4, <2>1
<1> QED
  BY <1>2, <1>3, <1>4

\* The balances a confirmation and a cancellation go on with are locked.
LEMMA BalancesAreLocked ==
  ASSUME LedgerInv, NEW r \in Requests, NEW s \in Sales, asks[r].sale = s,
         NEW d, d = draft[s], d # NoDraft,
         \A l \in LocksOf(r) : \E h \in locks' : h.by = r /\ h.row = l.row,
         \/ Statement(r) = "balances"
         \/ Statement(r) = "return" /\ Returns(s, d)
  PROVE  \A i \in ItemsOf(d.lines) : Holds(r, <<"balance", d.warehouse, i>>)'
<1>1. ItemsOf(d.lines) \subseteq Items /\ (ItemsOf(d.lines) # {} => MovesStock(d))
  BY DraftLines
<1> SUFFICES ASSUME NEW i \in ItemsOf(d.lines) PROVE Holds(r, <<"balance", d.warehouse, i>>)'
  OBVIOUS
<1>2. PICK n \in DOMAIN ItemOrder : ItemOrder[n] = i
  BY <1>1, TransactionsAssumption
<1>3. n \in BalanceTurns(d)
  BY <1>2 DEF BalanceTurns
<1>4. PICK mode \in {"UPDATE", "NO KEY UPDATE"} : BalanceRows(d, mode) \subseteq LocksOf(r)
  <2>1. CASE Statement(r) = "balances"
    <3>1. LocksOf(r) = BalanceLocks(d)
      BY <2>1 DEF LocksOf
    <3> QED
      BY <1>1, <3>1 DEF BalanceLocks
  <2>2. CASE Statement(r) = "return" /\ Returns(s, d)
    <3>1. LocksOf(r) = ReturnLocks(s, d)
      BY <2>2 DEF LocksOf
    <3> QED
      BY <2>2, <3>1 DEF ReturnLocks
  <2> QED
    BY <2>1, <2>2
<1>5. Lock(<<"balance", d.warehouse, i>>, mode, 2 * n) \in LocksOf(r)
  BY <1>2, <1>3, <1>4 DEF BalanceRows
<1>6. PICK l \in LocksOf(r) : l.row = <<"balance", d.warehouse, i>>
  BY <1>5 DEF Lock
<1> QED
  BY <1>6 DEF Holds

\* The statement after statement k.
LEMMA OneMore ==
  ASSUME NEW k \in Nat
  PROVE  /\ \A n \in 1 .. (k + 1) - 1 : n \in 1 .. k - 1 \/ n = k
         /\ k + 1 \in Nat \ {0}
         /\ \A n \in Nat : k \in 1 .. n => k + 1 <= n + 1
  OBVIOUS

\* The operations a request can be in at its statement.
LEMMA OperationAt ==
  ASSUME RequestsOK, NEW r \in Requests, Running(r), ~AtCommit(r)
  PROVE  /\ Statement(r) \in {"key", "sale", "balances", "number", "account", "return", "session",
                              "till", "document", "papers"}
         /\ Statement(r) = "key" => asks[r].op # "ManualTransition"
         /\ Statement(r) = "sale" =>
              asks[r].op \in {"ConfirmSale", "CancelSale", "IssueDocument", "RegisterPayment"}
         /\ Statement(r) = "balances" => asks[r].op = "ConfirmSale"
         /\ Statement(r) = "account" => asks[r].op \in {"CancelSale", "RegisterPayment"}
         /\ Statement(r) = "return" => asks[r].op = "CancelSale"
         /\ Statement(r) = "session" => asks[r].op \in {"RegisterPayment", "CloseCashSession"}
         /\ Statement(r) = "till" => asks[r].op \in {"OpenCashSession", "CloseCashSession"}
         /\ Statement(r) = "document" => asks[r].op = "ManualTransition"
         /\ Statement(r) = "papers" => asks[r].op = "CancelSale"
<1>1. asks[r] \in Ask /\ at[r] \in 1 .. Len(Script(asks[r]))
  BY AtStatement
<1> QED
  BY <1>1, StatementsOf DEF Statement

\* A request that goes on knows what the statement told it.
LEMMA GoingOnKnows ==
  ASSUME LedgerInv, RequestsOK, NEW r \in Requests, Running(r), ~AtCommit(r), Knows(r),
         Verdict(r) = "go on", at'[r] = at[r] + 1, read'[r] = Reading(r),
         UNCHANGED <<vars, asks, results>>,
         \A row : Holds(r, row) => Holds(r, row)',
         \A l \in LocksOf(r) : \E h \in locks' : h.by = r /\ h.row = l.row
  PROVE  Knows(r)'
<1> SUFFICES ASSUME NEW ask, ask = asks[r], ask = asks'[r] PROVE Knows(r)'
  OBVIOUS
<1>1. ask \in Ask /\ Sendable(ask) /\ at[r] \in 1 .. Len(Script(ask)) /\ Len(Script(ask)) \in Nat
  BY AtStatement
<1>a. /\ Statement(r) = Script(ask)[at[r]]
      /\ at[r] \in Nat
  BY DEF Statement, RequestsOK
<1>2. \A st : Passed(r, st)' => Passed(r, st) \/ Statement(r) = st
  <2>1. \A other : Script(other)' = Script(other)
    BY DEF Script
  <2>2. \A n \in 1 .. at'[r] - 1 : n \in 1 .. at[r] - 1 \/ n = at[r]
    BY <1>a, OneMore
  <2>3. \A st : Passed(r, st)' => \E n \in 1 .. at'[r] - 1 : Script(ask)[n] = st
    BY DEF Passed, Script
  <2> QED
    BY <1>a, <2>2, <2>3 DEF Passed
<1>3. UNCHANGED <<header, account, payments, sessions, documents, balance, draft>>
  BY DEF vars, financeVars, documentVars, stockVars, salesVars
<1>4. /\ \A s : Issued(s)' = Issued(s) /\ Alive(s)' = Alive(s) /\ HasAccount(s)' = HasAccount(s)
      /\ \A c : MovementsOf(c)' = MovementsOf(c)
      /\ \A till : TillFree(till)' = TillFree(till)
  BY <1>3 DEF Issued, Alive, DocumentsOf, HasAccount, MovementsOf, TillFree
<1>5. \A row, mode : LocksOf(r) = Only(row, mode) => Holds(r, row)'
  <2> SUFFICES ASSUME NEW row, NEW mode, LocksOf(r) = Only(row, mode) PROVE Holds(r, row)'
    OBVIOUS
  <2>1. Lock(row, mode, 0) \in LocksOf(r) /\ Lock(row, mode, 0).row = row
    BY DEF Only, Lock
  <2> QED
    BY <2>1 DEF Holds
<1>6. /\ Statement(r) = "key" => ask.op # "ManualTransition"
      /\ Statement(r) = "sale" =>
           ask.op \in {"ConfirmSale", "CancelSale", "IssueDocument", "RegisterPayment"}
      /\ Statement(r) = "balances" => ask.op = "ConfirmSale"
      /\ Statement(r) = "account" => ask.op \in {"CancelSale", "RegisterPayment"}
      /\ Statement(r) = "return" => ask.op = "CancelSale"
      /\ Statement(r) = "session" => ask.op \in {"RegisterPayment", "CloseCashSession"}
      /\ Statement(r) = "till" => ask.op \in {"OpenCashSession", "CloseCashSession"}
      /\ Statement(r) = "document" => ask.op = "ManualTransition"
  BY OperationAt
<1>7. KnowsKey(r)'
  <2> SUFFICES ASSUME Passed(r, "key") \/ Statement(r) = "key"
               PROVE  Holds(r, <<"key", ask.key>>)' /\ results[ask.key] = NoResult
    BY <1>2 DEF KnowsKey, Holds
  <2>1. CASE Passed(r, "key")
    BY <2>1 DEF Knows, KnowsKey
  <2>2. CASE Statement(r) = "key"
    <3>1. KeyVerdict(ask) = "go on"
      BY <2>2 DEF Verdict
    <3>2. LocksOf(r) = Only(<<"key", ask.key>>, "UPDATE")
      BY <2>2 DEF LocksOf
    <3> QED
      BY <1>5, <3>1, <3>2 DEF KeyVerdict
  <2> QED
    BY <2>1, <2>2
<1>8. KnowsSale(r)'
  <2>1. SaleVerdict(ask)' = SaleVerdict(ask)
    BY <1>3, <1>4 DEF SaleVerdict, Confirmable, Deliverable, MovesStock, Cancellable, Documentable,
                      GoOnIf, Sold
  <2> SUFFICES ASSUME Passed(r, "sale") \/ Statement(r) = "sale"
               PROVE  Holds(r, <<"sale", ask.sale>>)' /\ SaleVerdict(ask) = "go on"
    BY <1>2, <2>1 DEF KnowsSale, Holds, SaleVerdict
  <2>2. CASE Passed(r, "sale")
    BY <2>2 DEF Knows, KnowsSale
  <2>3. CASE Statement(r) = "sale"
    <3>1. SaleVerdict(ask) = "go on"
      BY <2>3 DEF Verdict
    <3>2. LocksOf(r) = Only(<<"sale", ask.sale>>, SaleLock(ask))
      BY <2>3 DEF LocksOf
    <3> QED
      BY <1>5, <3>1, <3>2
  <2> QED
    BY <2>2, <2>3
<1>9. KnowsBalances(r)'
  <2>1. \A d : HoldsBalances(r, d) => HoldsBalances(r, d)'
    BY DEF HoldsBalances
  <2>2. \A d : Available(d)' = Available(d)
    BY <1>3 DEF Available
  <2> SUFFICES ASSUME Passed(r, "balances") \/ Statement(r) = "balances", NEW d, d = draft[ask.sale]
               PROVE  HoldsBalances(r, d)' /\ Available(d)
    BY <1>2, <1>3, <2>2 DEF KnowsBalances, HoldsBalances, Holds, Available
  <2>3. CASE Passed(r, "balances")
    BY <2>1, <2>3 DEF Knows, KnowsBalances
  <2>4. CASE Statement(r) = "balances"
    <3>1. Available(d)
      BY <2>4 DEF Verdict, GoOnIf
    <3>2. ask.sale \in Sales /\ d # NoDraft
      BY <1>1, <1>6, <2>4, AskShape DEF Sendable
    <3>3. HoldsBalances(r, d)'
      BY <2>4, <3>2, BalancesAreLocked DEF HoldsBalances
    <3> QED
      BY <3>1, <3>3
  <2> QED
    BY <2>3, <2>4
<1>10. KnowsAccount(r)'
  <2>1. AccountVerdict(ask)' = AccountVerdict(ask)
    BY <1>3, <1>4 DEF AccountVerdict, GoOnIf
  <2> SUFFICES ASSUME Passed(r, "account") \/ Statement(r) = "account"
               PROVE  /\ HasAccount(ask.sale) => Holds(r, <<"account", ask.sale>>)'
                      /\ AccountVerdict(ask) = "go on"
                      /\ read'[r].account = account[ask.sale]
    BY <1>2, <1>3, <1>4, <2>1 DEF KnowsAccount, Holds, AccountVerdict, HasAccount
  <2>2. Reading(r).account =
          IF Statement(r) = "account" THEN account[asks[r].sale] ELSE read[r].account
    BY ReadingIsTyped
  <2>3. CASE Passed(r, "account")
    BY <2>2, <2>3 DEF Knows, KnowsAccount
  <2>4. CASE Statement(r) = "account"
    <3>1. AccountVerdict(ask) = "go on"
      BY <2>4 DEF Verdict
    <3>2. HasAccount(ask.sale) => LocksOf(r) = Only(<<"account", ask.sale>>, "UPDATE")
      BY <2>4 DEF LocksOf
    <3> QED
      BY <1>5, <2>2, <2>4, <3>1, <3>2
  <2> QED
    BY <2>3, <2>4
<1>11. KnowsReturn(r)'
  <2>1. ReturnVerdict(ask)' = ReturnVerdict(ask)
    BY <1>3, <1>4 DEF ReturnVerdict
  <2>2. \A d : Returns(ask.sale, d)' = Returns(ask.sale, d)
    BY <1>3 DEF Returns, MovesStock
  <2>3. \A d : HoldsBalances(r, d) => HoldsBalances(r, d)'
    BY DEF HoldsBalances
  <2> SUFFICES ASSUME Passed(r, "return") \/ Statement(r) = "return", NEW d, d = draft[ask.sale]
               PROVE  /\ Returns(ask.sale, d) => HoldsBalances(r, d)'
                      /\ ReturnVerdict(ask) = "go on"
    BY <1>2, <1>3, <2>1, <2>2 DEF KnowsReturn, HoldsBalances, Holds, Returns, MovesStock, ReturnVerdict
  <2>4. CASE Passed(r, "return")
    BY <2>3, <2>4 DEF Knows, KnowsReturn
  <2>5. CASE Statement(r) = "return"
    <3>1. ReturnVerdict(ask) = "go on"
      BY <2>5 DEF Verdict
    <3>2. ask.sale \in Sales /\ d # NoDraft
      BY <1>1, <1>6, <2>5, AskShape DEF Sendable
    <3>3. Returns(ask.sale, d) => HoldsBalances(r, d)'
      BY <2>5, <3>2, BalancesAreLocked DEF HoldsBalances
    <3> QED
      BY <3>1, <3>3
  <2> QED
    BY <2>4, <2>5
<1>12. KnowsSession(r)'
  <2>1. SessionVerdict(ask)' = SessionVerdict(ask)
    BY <1>3 DEF SessionVerdict, GoOnIf, SessionLock
  <2> SUFFICES ASSUME Passed(r, "session") \/ Statement(r) = "session"
               PROVE  /\ Holds(r, <<"session", ask.session>>)'
                      /\ SessionVerdict(ask) = "go on"
                      /\ ask.op = "CloseCashSession" =>
                           read'[r].counted = MovementsOf(ask.session)
    BY <1>2, <1>3, <1>4, <2>1 DEF KnowsSession, Holds, SessionVerdict, MovementsOf
  <2>2. Reading(r).counted =
          IF Statement(r) = "session" THEN MovementsOf(asks[r].session) ELSE read[r].counted
    BY ReadingIsTyped
  <2>3. CASE Passed(r, "session")
    BY <2>2, <2>3 DEF Knows, KnowsSession
  <2>4. CASE Statement(r) = "session"
    <3>1. SessionVerdict(ask) = "go on"
      BY <2>4 DEF Verdict
    <3>2. LocksOf(r) = Only(<<"session", ask.session>>, SessionLock(ask))
      BY <2>4 DEF LocksOf
    <3> QED
      BY <1>5, <2>2, <2>4, <3>1, <3>2
  <2> QED
    BY <2>3, <2>4
<1>13. KnowsTill(r)'
  <2>1. TillVerdict(ask)' = TillVerdict(ask) /\ TillOf(ask)' = TillOf(ask)
    BY <1>3, <1>4 DEF TillVerdict, TillOf, GoOnIf
  <2> SUFFICES ASSUME Passed(r, "till") \/ Statement(r) = "till", NEW till, till = TillOf(ask)
               PROVE  Holds(r, <<"till", till>>)' /\ TillVerdict(ask) = "go on"
    BY <1>2, <2>1 DEF KnowsTill, Holds, TillOf, TillVerdict
  <2>2. CASE Passed(r, "till")
    BY <2>2 DEF Knows, KnowsTill
  <2>3. CASE Statement(r) = "till"
    <3>1. TillVerdict(ask) = "go on"
      BY <2>3 DEF Verdict
    <3>2. LocksOf(r) = Only(<<"till", till>>, "UPDATE")
      BY <2>3 DEF LocksOf
    <3> QED
      BY <1>5, <3>1, <3>2
  <2> QED
    BY <2>2, <2>3
<1>14. KnowsDocument(r)'
  <2> SUFFICES ASSUME Passed(r, "document") \/ Statement(r) = "document"
               PROVE  /\ Holds(r, <<"document", ask.document>>)'
                      /\ ask.target \in Transitions[documents[ask.document].status]
    BY <1>2, <1>3 DEF KnowsDocument, Holds, Transitions
  <2>1. CASE Passed(r, "document")
    BY <2>1 DEF Knows, KnowsDocument
  <2>2. CASE Statement(r) = "document"
    <3>1. ask.target \in Transitions[documents[ask.document].status]
      BY <2>2 DEF Verdict, GoOnIf
    <3>2. LocksOf(r) = Only(<<"document", ask.document>>, "UPDATE")
      BY <2>2 DEF LocksOf
    <3> QED
      BY <1>5, <3>1, <3>2
  <2> QED
    BY <2>1, <2>2
<1>15. KnowsPapers(r)'
  <2>3. KnowsPapers(r)' <=> (Passed(r, "papers")' => ~Alive(ask.sale)')
    <3>1. asks'[r] = ask
      OBVIOUS
    <3> QED
      BY <3>1 DEF KnowsPapers, Alive, DocumentsOf
  <2>4. documents' = documents
    BY DEF vars, documentVars
  <2>5. Alive(ask.sale)' <=> Alive(ask.sale)
    BY <2>4 DEF Alive, DocumentsOf
  <2> SUFFICES ASSUME Passed(r, "papers") \/ Statement(r) = "papers"
               PROVE  ~Alive(ask.sale)
    BY <1>2, <2>3, <2>5
  <2>1. CASE Passed(r, "papers")
    BY <2>1 DEF Knows, KnowsPapers
  <2>2. CASE Statement(r) = "papers"
    BY <2>2 DEF Verdict, GoOnIf
  <2> QED
    BY <2>1, <2>2
<1> QED
  BY <1>7, <1>8, <1>9, <1>10, <1>11, <1>12, <1>13, <1>14, <1>15 DEF Knows

\* A request that goes on keeps the rest.
LEMMA GoingOnKeeps ==
  ASSUME TransactionsInv, NEW r \in Requests, Running(r), ~AtCommit(r), Missing(r) = Due(r),
         Blockers(r) = {}, Verdict(r) = "go on",
         at' = [at EXCEPT ![r] = @ + 1], read' = [read EXCEPT ![r] = Reading(r)],
         locks' = WithDueLock(r), UNCHANGED <<vars, asks, results, outcome>>
  PROVE  TransactionsInv'
<1>1. /\ LedgerInv /\ RequestsOK /\ LocksOK /\ KeysOK /\ ClosedSessionHasItsCash
      /\ \A q \in Requests : Knows(q)
  BY DEF TransactionsInv
<1>2. /\ asks[r] \in Ask /\ outcome[r] = "none" /\ at[r] \in 1 .. Len(Script(asks[r]))
      /\ Len(Script(asks[r])) \in Nat
  BY <1>1, AtStatement
<1>3. /\ at \in [Requests -> Nat]
      /\ read \in [Requests -> [account : Account, counted : SUBSET Nat]]
  BY <1>1 DEF RequestsOK
<1>a. at[r] + 1 \in Nat \ {0} /\ at[r] + 1 <= Len(Script(asks[r])) + 1
  BY <1>2, <1>3, OneMore
<1>4. /\ at'[r] = at[r] + 1 /\ read'[r] = Reading(r)
      /\ \A q \in Requests \ {r} : at'[q] = at[q] /\ read'[q] = read[q]
  BY <1>3
<1>5. LedgerInv' /\ ClosedSessionHasItsCash'
  BY <1>1, SameLedger
<1>6. LocksOK'
  <2>1. at'[r] # 0
    BY <1>a, <1>4
  <2> QED
    BY <1>1, <1>4, <2>1, LocksGranted
<1>7. \A q, row : Holds(q, row) => Holds(q, row)'
  BY LocksHeld
<1>8. \A q \in Requests \ {r} : Knows(q)'
  BY <1>1, <1>4, <1>7, OthersKnow
<1>9. Knows(r)'
  <2>1. \A l \in LocksOf(r) : \E h \in locks' : h.by = r /\ h.row = l.row
    <3>1. \A l \in LocksOf(r) : Holds(r, l.row)'
      BY LocksHeld
    <3> QED
      BY <3>1 DEF Holds
  <2> QED
    BY <1>1, <1>4, <1>7, <2>1, GoingOnKnows
<1>10. RequestsOK'
  <2>1. \A q : Sendable(asks[q])' <=> Sendable(asks[q])
    <3>1. \A ask : Sendable(ask)' <=> Sendable(ask)
      BY DEF Sendable, HasAccount, vars, financeVars, documentVars, salesVars
    <3> SUFFICES ASSUME NEW q, NEW ask, ask = asks[q], ask = asks'[q]
                 PROVE  Sendable(ask)' <=> Sendable(ask)
      BY DEF Sendable, HasAccount
    <3> QED
      BY <3>1
  <2>2. read' \in [Requests -> [account : Account, counted : SUBSET Nat]]
    BY <1>1, <1>3, ReadingIsTyped
  <2>3. at' \in [Requests -> Nat]
    BY <1>3, <1>a
  <2>4. at'[r] <= Len(Script(asks[r])) + 1
    BY <1>a, <1>4
  <2>5. asks[r] # NoAsk
    BY <1>2, TransactionsAssumption, <1>1 DEF RequestsOK, Running
  <2>6. \A q \in Requests :
          /\ asks[q] = NoAsk => at'[q] = 0 /\ outcome[q] = "none"
          /\ asks[q] # NoAsk => at'[q] <= Len(Script(asks[q])) + 1
          /\ at'[q] # 0 => outcome[q] = "none"
    BY <1>1, <1>2, <1>4, <2>4, <2>5 DEF RequestsOK, Running
  <2> QED
    BY <1>1, <2>1, <2>2, <2>3, <2>6 DEF RequestsOK, Running, Script, Sendable, HasAccount
<1>11. KeysOK'
  BY <1>1, SameKeys
<1> QED
  BY <1>5, <1>6, <1>8, <1>9, <1>10, <1>11 DEF TransactionsInv

\* A request that is rolled back keeps the rest.
LEMMA RollingBackKeeps ==
  ASSUME TransactionsInv, NEW r \in Requests, Running(r),
         NEW how \in {"replay", "conflict", "error", "aborted"}, End(r, how),
         UNCHANGED <<vars, results>>,
         how = "replay" => \E p \in Requests : Executed(p) /\ asks[p] = asks[r]
  PROVE  TransactionsInv'
<1>1. LedgerInv' /\ ClosedSessionHasItsCash'
  BY SameLedger DEF TransactionsInv
<1>2. RequestsOK' /\ LocksOK' /\ \A q \in Requests : Knows(q)'
  BY EndingKeeps DEF TransactionsInv
<1>3. KeysOK'
  BY RollbackKeepsKeys DEF TransactionsInv
<1> QED
  BY <1>1, <1>2, <1>3 DEF TransactionsInv

\* A statement that has its rows.
LEMMA ProceedingKeeps ==
  ASSUME TransactionsInv, NEW r \in Requests, Proceed(r)
  PROVE  TransactionsInv'
<1>1. CASE Verdict(r) = "go on"
  BY <1>1, GoingOnKeeps DEF Proceed
<1>2. CASE Verdict(r) # "go on"
  <2>1. Running(r) /\ ~AtCommit(r) /\ End(r, Verdict(r)) /\ UNCHANGED <<vars, results>>
    BY <1>2 DEF Proceed
  <2>2. /\ Verdict(r) \in {"replay", "conflict", "error"}
        /\ Verdict(r) = "replay" => \E p \in Requests : Executed(p) /\ asks[p] = asks[r]
    BY <1>2, <2>1, Refusals DEF TransactionsInv
  <2> QED
    BY <2>1, <2>2, RollingBackKeeps
<1> QED
  BY <1>1, <1>2

\* A commit writes the one idempotency row of its key, which nobody wrote before.
LEMMA CommitKeepsKeys ==
  ASSUME LedgerInv', RequestsOK, KeysOK, NEW r \in Requests, KnowsKey(r), Commit(r)
  PROVE  KeysOK'
<1>1. /\ Running(r) /\ AtCommit(r) /\ End(r, "done")
      /\ results' = IF Script(asks[r])[1] = "key"
                    THEN [results EXCEPT ![asks[r].key] =
                           [content |-> Content(asks[r]), response |-> Response(asks[r])]]
                    ELSE results
  BY DEF Commit
<1>2. asks[r] \in Asks /\ asks[r] \in Ask
  BY <1>1, AskAtCommit
<1>3. /\ outcome' = [outcome EXCEPT ![r] = "done"] /\ UNCHANGED asks
      /\ outcome \in [Requests -> {"none", "done", "replay", "conflict", "error", "aborted"}]
      /\ outcome[r] = "none"
  BY <1>1, AskAtCommit DEF End, RequestsOK
<1>4. /\ outcome'[r] = "done"
      /\ \A q \in Requests \ {r} : outcome'[q] = outcome[q]
  BY <1>3
<1>5. /\ \A p \in Requests : Executed(p)' <=> Executed(p) \/ p = r
      /\ ~Executed(r)
  BY <1>3, <1>4 DEF Executed
<1>6. \A p : HasKey(p)' <=> HasKey(p)
  BY <1>3 DEF HasKey
<1>7. HasKey(r) <=> asks[r].op # "ManualTransition"
  BY <1>2, KeyOfAsk, TransactionsAssumption DEF HasKey
<1>8. \A q \in Requests : outcome'[q] = "replay" =>
        \E p \in Requests : Executed(p)' /\ asks'[p] = asks'[q]
  BY <1>3, <1>4, <1>5 DEF KeysOK
<1>9. CASE asks[r].op = "ManualTransition"
  <2>1. UNCHANGED results
    <3>1. Script(asks[r]) = <<"document">>
      BY <1>9 DEF Script
    <3> QED
      BY <1>1, <3>1
  <2>2. \A p \in Requests : HasKey(p) => (Executed(p)' <=> Executed(p))
    BY <1>5, <1>7, <1>9
  <2>3. results' \in [Keys -> Result \cup {NoResult}]
    BY <2>1 DEF KeysOK
  <2>4. \A k \in Keys : results'[k] # NoResult =>
          \E p \in Requests : /\ Executed(p)' /\ HasKey(p)' /\ asks'[p].key = k
                              /\ results'[k].content = Content(asks'[p])
    BY <1>3, <1>6, <2>1, <2>2 DEF KeysOK
  <2>5. \A q \in Requests : Executed(q)' /\ HasKey(q)' => results'[asks'[q].key] # NoResult
    BY <1>3, <1>6, <2>1, <2>2 DEF KeysOK
  <2>6. \A p, q \in Requests :
          HasKey(p)' /\ HasKey(q)' /\ p # q /\ asks'[p].key = asks'[q].key =>
            ~(Executed(p)' /\ Executed(q)')
    BY <1>3, <1>6, <2>2 DEF KeysOK
  <2> QED
    BY <1>8, <2>3, <2>4, <2>5, <2>6 DEF KeysOK, Result, Content
<1>10. CASE asks[r].op # "ManualTransition"
  <2>1. /\ asks[r].key \in Keys /\ results[asks[r].key] = NoResult
        /\ results \in [Keys -> Result \cup {NoResult}]
    BY <1>1, <1>2, <1>10, AllPassed, AskShape DEF KnowsKey, KeysOK
  <2>2. Script(asks[r])[1] = "key"
    BY <1>2, <1>10, AskShape DEF Script
  <2>3. Response(asks[r]) \in Nat
    <3>1. /\ saleNumber' \in [Sales -> Nat] /\ payments' \in Seq(Payment) /\ sessions' \in Seq(Session)
      BY DEF LedgerInv, TypeOK, FinanceTypeOK, Payment, Session, Header, Account
    <3>2. Len(payments') \in Nat /\ Len(sessions') \in Nat
      BY <3>1, LenProperties
    <3> QED
      BY <1>2, <3>1, <3>2, AskShape DEF Response
  <2> DEFINE done == [content |-> Content(asks[r]), response |-> Response(asks[r])]
  <2>4. done \in Result /\ done # NoResult /\ done.content = Content(asks[r])
    BY <1>2, <2>3, TransactionsAssumption DEF Result
  <2>5. /\ results' = [results EXCEPT ![asks[r].key] = done]
    BY <1>1, <2>2
  <2> SUFFICES ASSUME NEW new, new \in Result, new # NoResult, new.content = Content(asks[r]),
                      results' = [results EXCEPT ![asks[r].key] = new]
               PROVE  KeysOK'
    BY <2>4, <2>5
  <2>6. /\ results'[asks[r].key] = new
        /\ \A k \in Keys : k # asks[r].key => results'[k] = results[k]
        /\ results' \in [Keys -> Result \cup {NoResult}]
    BY <2>1
  <2>7. \A q \in Requests : Executed(q) /\ HasKey(q) => asks[q].key # asks[r].key
    BY <2>1 DEF KeysOK
  <2>8. \A k \in Keys : results'[k] # NoResult =>
          \E p \in Requests : /\ Executed(p)' /\ HasKey(p)' /\ asks'[p].key = k
                              /\ results'[k].content = Content(asks'[p])
    <3> SUFFICES ASSUME NEW k \in Keys, results'[k] # NoResult
                 PROVE  \E p \in Requests : /\ Executed(p)' /\ HasKey(p)' /\ asks'[p].key = k
                                            /\ results'[k].content = Content(asks'[p])
      OBVIOUS
    <3>1. CASE k = asks[r].key
      BY <1>3, <1>5, <1>6, <1>7, <1>10, <2>6, <3>1
    <3>2. CASE k # asks[r].key
      BY <1>3, <1>5, <1>6, <2>6, <3>2 DEF KeysOK
    <3> QED
      BY <3>1, <3>2
  <2>9. \A q \in Requests : Executed(q)' /\ HasKey(q)' => results'[asks'[q].key] # NoResult
    <3> SUFFICES ASSUME NEW q \in Requests, Executed(q)', HasKey(q)'
                 PROVE  results'[asks[q].key] # NoResult
      BY <1>3
    <3>1. CASE q = r
      BY <2>6, <3>1
    <3>2. CASE q # r
      <4>1. Executed(q) /\ HasKey(q) /\ asks[q] \in Ask
        BY <1>5, <1>6, <3>2, TransactionsAssumption DEF HasKey, RequestsOK
      <4>2. asks[q].key \in Keys /\ results[asks[q].key] # NoResult
        BY <4>1, KeyOfAsk, AskShape DEF KeysOK, HasKey
      <4> QED
        BY <2>6, <2>7, <4>1, <4>2
    <3> QED
      BY <3>1, <3>2
  <2>10. \A p, q \in Requests :
           HasKey(p)' /\ HasKey(q)' /\ p # q /\ asks'[p].key = asks'[q].key =>
             ~(Executed(p)' /\ Executed(q)')
    BY <1>3, <1>5, <1>6, <2>7 DEF KeysOK
  <2> QED
    BY <1>8, <2>6, <2>8, <2>9, <2>10 DEF KeysOK, Result, Content
<1> QED
  BY <1>9, <1>10

\* A session that is closed keeps its cash whatever is committed: a payment in cash
\* goes to an open one, and what a closing counts it counts with the session locked.
LEMMA CommitKeepsCash ==
  ASSUME LedgerInv, RequestsOK, ClosedSessionHasItsCash, NEW r \in Requests, Knows(r), Commit(r)
  PROVE  ClosedSessionHasItsCash'
<1> SUFFICES ASSUME NEW ask, ask = asks[r] PROVE ClosedSessionHasItsCash'
  OBVIOUS
<1>1. Running(r) /\ AtCommit(r) /\ Write(r)
  BY DEF Commit
<1>2. ask \in Ask /\ Sendable(ask)
  BY <1>1, AskAtCommit
<1>3. /\ payments \in Seq(Payment) /\ sessions \in Seq(Session)
      /\ DOMAIN payments = 1 .. Len(payments) /\ DOMAIN sessions = 1 .. Len(sessions)
  BY LenProperties DEF LedgerInv, TypeOK, FinanceTypeOK
<1>4. CASE ask.op \in {"ConfirmSale", "CancelSale", "IssueDocument", "ManualTransition"}
  <2>1. UNCHANGED <<payments, sessions>>
    BY <1>1, <1>4
    DEF Write, WriteConfirmation, WriteCancellation, WriteDocument, financeVars
  <2> QED
    BY <2>1 DEF ClosedSessionHasItsCash, MovementsOf
<1>5. CASE ask.op = "RegisterPayment"
  <2>1. ask.session \in DOMAIN sessions /\ Passed(r, "session")
    BY <1>1, <1>2, <1>5, AllPassed DEF Sendable
  <2>2. ask.method = "CASH" => sessions[ask.session].status = "OPEN"
    BY <1>5, <2>1 DEF Knows, KnowsSession, SessionVerdict, SessionLock, GoOnIf
  <2> DEFINE posted == [source |-> ask.sale, direction |-> DirectionOf(ask.sale),
                        method |-> ask.method, amount |-> ask.amount, session |-> ask.session,
                        booked |-> ask.booked, status |-> "POSTED", reverses |-> 0]
  <2>3. payments' = Append(payments, posted) /\ UNCHANGED sessions
    BY <1>1, <1>5 DEF Write, PostPayment
  <2>4. posted \in Payment /\ posted.session = ask.session /\ posted.method = ask.method
    <3>1. DirectionOf(ask.sale) \in {"INBOUND", "OUTBOUND"}
      BY DEF DirectionOf
    <3>2. /\ ask.sale \in Sources /\ ask.amount \in Nat /\ ask.method \in {"CASH", "OTHER"}
          /\ ask.session \in Nat /\ ask.booked \in BOOLEAN
      BY <1>2, <1>5, AskShape, SalesAreSources, FinanceAssumption
    <3> QED
      BY <3>1, <3>2 DEF Payment
  <2> SUFFICES ASSUME NEW new \in Payment, new.session = ask.session, new.method = ask.method,
                      payments' = Append(payments, new)
               PROVE  ClosedSessionHasItsCash'
    BY <2>3, <2>4
  <2>5. /\ \A n \in DOMAIN payments : n \in DOMAIN payments' /\ payments'[n] = payments[n]
        /\ \A n \in DOMAIN payments' : n \in DOMAIN payments \/ payments'[n] = new
    <3>1. /\ \A n \in DOMAIN payments : /\ n \in DOMAIN Append(payments, new)
                                       /\ Append(payments, new)[n] = payments[n]
          /\ \A n \in DOMAIN Append(payments, new) :
               n \in DOMAIN payments \/ Append(payments, new)[n] = new
      BY <1>3, AppendKeeps
    <3> QED
      BY <3>1
  <2>6. ASSUME NEW c \in DOMAIN sessions, sessions[c].status = "CLOSED"
        PROVE  /\ {n \in MovementsOf(c)' : payments'[n].method = "CASH"} \subseteq sessions[c].counted
               /\ sessions[c].counted \subseteq MovementsOf(c)'
    <3>1. /\ {n \in MovementsOf(c) : payments[n].method = "CASH"} \subseteq sessions[c].counted
          /\ sessions[c].counted \subseteq MovementsOf(c)
      BY <2>6 DEF ClosedSessionHasItsCash
    <3>2. MovementsOf(c) \subseteq MovementsOf(c)'
      BY <2>5 DEF MovementsOf
    <3>3. ASSUME NEW n \in MovementsOf(c)', payments'[n].method = "CASH"
          PROVE  n \in MovementsOf(c) /\ payments[n].method = "CASH"
      <4>1. n \in DOMAIN payments' /\ payments'[n].booked /\ payments'[n].session = c
        BY <3>3 DEF MovementsOf
      <4>2. n \in DOMAIN payments
        BY <2>2, <2>5, <2>6, <3>3, <4>1
      <4> QED
        BY <2>5, <3>3, <4>1, <4>2 DEF MovementsOf
    <3> QED
      BY <3>1, <3>2, <3>3
  <2> QED
    BY <2>3, <2>6 DEF ClosedSessionHasItsCash
<1>6. CASE ask.op = "OpenCashSession"
  <2> DEFINE opened == [till |-> ask.till, status |-> "OPEN", counted |-> {}]
  <2>1. UNCHANGED payments /\ sessions' = Append(sessions, opened)
    BY <1>1, <1>6 DEF Write, AppendSession
  <2>2. opened \in Session /\ opened.status = "OPEN"
    BY <1>2, <1>6, AskShape DEF Session
  <2> SUFFICES ASSUME NEW new \in Session, new.status = "OPEN", sessions' = Append(sessions, new)
               PROVE  ClosedSessionHasItsCash'
    BY <2>1, <2>2
  <2>3. /\ \A c \in DOMAIN sessions : c \in DOMAIN sessions' /\ sessions'[c] = sessions[c]
        /\ \A c \in DOMAIN sessions' : c \in DOMAIN sessions \/ sessions'[c] = new
    <3>1. /\ \A c \in DOMAIN sessions : /\ c \in DOMAIN Append(sessions, new)
                                       /\ Append(sessions, new)[c] = sessions[c]
          /\ \A c \in DOMAIN Append(sessions, new) :
               c \in DOMAIN sessions \/ Append(sessions, new)[c] = new
      BY <1>3, AppendKeeps
    <3> QED
      BY <3>1
  <2>4. \A c : MovementsOf(c)' = MovementsOf(c)
    BY <2>1 DEF MovementsOf
  <2>5. ASSUME NEW c \in DOMAIN sessions', sessions'[c].status = "CLOSED"
        PROVE  /\ {n \in MovementsOf(c)' : payments'[n].method = "CASH"} \subseteq sessions'[c].counted
               /\ sessions'[c].counted \subseteq MovementsOf(c)'
    <3>1. c \in DOMAIN sessions /\ sessions'[c] = sessions[c]
      BY <2>3, <2>5
    <3> QED
      BY <2>1, <2>4, <2>5, <3>1 DEF ClosedSessionHasItsCash
  <2> QED
    BY <2>5 DEF ClosedSessionHasItsCash
<1>7. CASE ask.op = "CloseCashSession"
  <2>1. ask.session \in DOMAIN sessions /\ Passed(r, "session")
    BY <1>1, <1>2, <1>7, AllPassed DEF Sendable
  <2>2. read[r].counted = MovementsOf(ask.session)
    BY <1>7, <2>1 DEF Knows, KnowsSession
  <2>3. UNCHANGED payments /\ CloseSession(ask.session, MovementsOf(ask.session))
    BY <1>1, <1>7, <2>2 DEF Write
  <2> SUFFICES ASSUME NEW N, N = MovementsOf(ask.session),
                      sessions' = [sessions EXCEPT ![ask.session].status = "CLOSED",
                                                   ![ask.session].counted = N]
               PROVE  ClosedSessionHasItsCash'
    BY <2>3 DEF CloseSession
  <2>4. sessions[ask.session] \in Session
    BY <1>3, <2>1, ElementOfSeq
  <2>5. /\ DOMAIN sessions' = DOMAIN sessions
        /\ \A c \in DOMAIN sessions : c # ask.session => sessions'[c] = sessions[c]
        /\ sessions'[ask.session] = [sessions[ask.session] EXCEPT !.status = "CLOSED", !.counted = N]
    BY <1>3, <2>1
  <2>6. sessions'[ask.session].counted = N
    BY <2>4, <2>5 DEF Session
  <2>7. \A c : MovementsOf(c)' = MovementsOf(c)
    BY <2>3 DEF MovementsOf
  <2>8. ASSUME NEW c \in DOMAIN sessions, sessions'[c].status = "CLOSED"
        PROVE  /\ {n \in MovementsOf(c)' : payments'[n].method = "CASH"} \subseteq sessions'[c].counted
               /\ sessions'[c].counted \subseteq MovementsOf(c)'
    <3>1. CASE c = ask.session
      BY <2>6, <2>7, <3>1
    <3>2. CASE c # ask.session
      BY <2>3, <2>5, <2>7, <2>8, <3>2 DEF ClosedSessionHasItsCash
    <3> QED
      BY <3>1, <3>2
  <2> QED
    BY <2>5, <2>8 DEF ClosedSessionHasItsCash
<1> QED
  BY <1>2, <1>4, <1>5, <1>6, <1>7, AskShape

\* What is committed together keeps all of it.
LEMMA CommittingKeeps ==
  ASSUME TransactionsInv, NEW r \in Requests, Commit(r)
  PROVE  TransactionsInv' /\ Next
<1>1. Next /\ WritesItsRows(r)
  BY CommitIsStep DEF TransactionsInv
<1>2. LedgerInv'
  BY <1>1, StepKeepsLedgerInv DEF TransactionsInv
<1>3. RequestsOK' /\ LocksOK' /\ \A q \in Requests : Knows(q)'
  BY <1>1, EndingKeeps DEF TransactionsInv, Commit
<1>4. KeysOK'
  BY <1>2, CommitKeepsKeys DEF TransactionsInv, Knows
<1>5. ClosedSessionHasItsCash'
  BY CommitKeepsCash DEF TransactionsInv
<1> QED
  BY <1>1, <1>2, <1>3, <1>4, <1>5 DEF TransactionsInv

-----------------------------------------------------------------------------
(* The theorems.                                                           *)

\* No request has been sent yet, and the ledger is in any state it can be in.
SideBySide ==
  /\ RequestsInit /\ LedgerInv /\ ClosedSessionHasItsCash
  /\ [][TransactionNext]_allVars

\* A new ledger is one of those states.
LEMMA NewLedgerIsOne == Init => LedgerInv /\ ClosedSessionHasItsCash
<1>1. Init => sessions = <<>>
  BY DEF Init, FinanceInit
<1> QED
  BY <1>1, InitLedgerInv DEF ClosedSessionHasItsCash

\* Nothing is known, held or done when nothing was sent.
LEMMA TransactionsStart ==
  ASSUME RequestsInit, LedgerInv, ClosedSessionHasItsCash
  PROVE  TransactionsInv
<1>1. RequestsOK
  BY TransactionsAssumption
  DEF RequestsInit, RequestsOK, Running, Unread, NoAccount, Account, AccountStatus
<1>2. LocksOK
  BY DEF RequestsInit, LocksOK
<1>3. KeysOK
  <2>1. \A r \in Requests : ~Executed(r) /\ outcome[r] # "replay"
    BY DEF RequestsInit, Executed
  <2> QED
    BY <2>1 DEF RequestsInit, KeysOK
<1>4. ASSUME NEW r \in Requests PROVE Knows(r)
  <2>1. at[r] = 0
    BY DEF RequestsInit
  <2>2. \A st : ~Passed(r, st)
    BY <2>1 DEF Passed
  <2> QED
    BY <2>2 DEF Knows, KnowsKey, KnowsSale, KnowsBalances, KnowsPapers, KnowsAccount, KnowsReturn,
                KnowsSession, KnowsTill, KnowsDocument
<1> QED
  BY <1>1, <1>2, <1>3, <1>4 DEF TransactionsInv

\* Every step keeps the invariant, and is a step of the ledger or none.
LEMMA TransactionStep ==
  ASSUME TransactionsInv, [TransactionNext]_allVars
  PROVE  TransactionsInv' /\ (Next \/ UNCHANGED vars)
<1>1. ASSUME NEW r \in Requests, NEW ask \in Asks, Send(r, ask)
      PROVE  TransactionsInv' /\ (Next \/ UNCHANGED vars)
  BY <1>1, SendingKeeps DEF Send
<1>2. ASSUME NEW r \in Requests, TakeLock(r)
      PROVE  TransactionsInv' /\ (Next \/ UNCHANGED vars)
  BY <1>2, LockingKeeps DEF TakeLock
<1>3. ASSUME NEW r \in Requests, Proceed(r)
      PROVE  TransactionsInv' /\ (Next \/ UNCHANGED vars)
  BY <1>3, ProceedingKeeps DEF Proceed
<1>4. ASSUME NEW r \in Requests, Commit(r)
      PROVE  TransactionsInv' /\ (Next \/ UNCHANGED vars)
  BY <1>4, CommittingKeeps
<1>5. ASSUME NEW r \in Requests, Lose(r)
      PROVE  TransactionsInv' /\ (Next \/ UNCHANGED vars)
  BY <1>5, RollingBackKeeps DEF Lose
<1>6. ASSUME NEW r \in Requests, Abort(r)
      PROVE  TransactionsInv' /\ (Next \/ UNCHANGED vars)
  <2>1. Running(r)
    BY <1>6, WaitersRun DEF Abort
  <2> QED
    BY <1>6, <2>1, RollingBackKeeps DEF Abort
<1>7. CASE UNCHANGED allVars
  <2>1. UNCHANGED vars /\ UNCHANGED requestVars
    BY <1>7 DEF allVars
  <2>2. LocksOK' /\ \A q, row : Holds(q, row) => Holds(q, row)'
    BY <2>1 DEF TransactionsInv, LocksOK, requestVars, Running, Holds, ModeOf, SaleLock, SessionLock,
                Conflict
  <2>3. TransactionsInv'
    BY <2>1, <2>2, WaitingKeeps DEF requestVars
  <2> QED
    BY <2>1, <2>3
<1> QED
  BY <1>1, <1>2, <1>3, <1>4, <1>5, <1>6, <1>7 DEF TransactionNext, Step

\* Whatever is sent.
LEMMA TransactionsInvariance == SideBySide => []TransactionsInv
<1>1. TransactionsInv /\ [TransactionNext]_allVars => TransactionsInv'
  BY TransactionStep
<1>2. RequestsInit /\ LedgerInv /\ ClosedSessionHasItsCash => TransactionsInv
  BY TransactionsStart
<1> QED
  BY <1>1, <1>2, PTL DEF SideBySide

\* Side by side and statement by statement, whatever the requests and however they
\* interleave, lose their connection or abort, what is committed is a step of the
\* ledger as it stands at the commit, each lock of sales.service.ts, finance.service.ts
\* and document.service.ts being what makes it so.
THEOREM RequestsAreAtomic == SideBySide => LedgerSteps
<1>1. TransactionsInv /\ [TransactionNext]_allVars => [UNCHANGED vars \/ Next]_vars
  BY TransactionStep
<1> QED
  BY <1>1, TransactionsInvariance, PTL DEF SideBySide, LedgerSteps

\* A key is carried out once and its replays were carried out (operations.ts).
THEOREM KeysRunOnce == SideBySide => []KeyRunsOnce
<1>1. TransactionsInv => KeyRunsOnce
  BY DEF TransactionsInv, KeysOK, KeyRunsOnce
<1> QED
  BY <1>1, TransactionsInvariance, PTL

\* A session that is closed has counted its payments in cash (finance.service.ts).
THEOREM ClosingCountsTheCash == SideBySide => []ClosedSessionHasItsCash
<1>1. TransactionsInv => ClosedSessionHasItsCash
  BY DEF TransactionsInv
<1> QED
  BY <1>1, TransactionsInvariance, PTL
=============================================================================
