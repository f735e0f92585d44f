-------------------------------- MODULE Demo --------------------------------
(***************************************************************************)
(* The data of a demonstration: its seed, which the containers run at      *)
(* every start, and its reset, which an operator runs beside the working   *)
(* application (packages/database/src/phase3/demo-seed.ts, demo-guards.ts, *)
(* packages/database/src/phase2-seed.ts).  Each is one transaction; the    *)
(* reset deletes the rows of the tenant table by table, with foreign keys  *)
(* and triggers off, and seeds again.  A foreign key makes the application *)
(* lock the parent of the row it writes, and wait for one being deleted.   *)
(***************************************************************************)
EXTENDS Integers, Sequences, FiniteSets

CONSTANTS
  Tables,         \* all tables of a tenant, in the order of their names
  Preserved,      \* the ones the reset leaves alone
  Verified,       \* those of them whose rows it looks at before it commits
  ParentTable,    \* the table a row of a table belongs to, or NoTable
  NoTable,
  SeedRows,       \* the rows of the seed
  Opening,        \* the quantity of the opening movement of the seed
  Writers,        \* transactions of the application
  MaxRows,        \* bound: rows the application writes
  MaxCommands        \* bound: seeds and resets

IsParent(p, r) == p.table = ParentTable[r.table] /\ p.key = r.parent

\* Foreign keys are on when a new installation is seeded: the seed brings the rows its rows
\* belong to. What is preserved belongs to what is preserved.
ASSUME DemoAssumption ==
  /\ Tables \in Seq(DOMAIN ParentTable)
  /\ \A i \in DOMAIN Tables :
       Tables[i] # NoTable /\ ParentTable[Tables[i]] \in {NoTable} \cup {Tables[j] : j \in DOMAIN Tables}
  /\ \A t \in Preserved : ParentTable[t] \in {NoTable} \cup Preserved
  /\ Verified \subseteq Preserved
  /\ \A r \in SeedRows : /\ \E i \in DOMAIN Tables : r.table = Tables[i]
                         /\ r.parent # NoTable => \E p \in SeedRows : IsParent(p, r)
  /\ Opening \in Nat /\ MaxRows \in Nat /\ MaxCommands \in Nat

VARIABLES
  matched,   \* which guards this installation meets
  demoRows,      \* committed rows: table, key, key of the parent
  stock,     \* of one item: its balance and the sum of its movements
  inserting,   \* the row the transaction of each writer has inserted, or NoRow
  written,   \* rows the application has committed
  slipped,   \* those of them whose table a reset had begun to delete from, or deleted
  reset,     \* how many tables the reset is past and has begun with, the rows it has
             \* deleted and is deleting, or NoReset
  resetJobs,      \* the jobs one can read of
  seedings   \* seeds since the last reset

demoVars == <<matched, demoRows, stock, inserting, written, slipped, reset, resetJobs, seedings>>

NoDemoRow == [table |-> NoTable]
NoReset == [past |-> -1]

\* assertDemoResetAllowed, the trigger on its jobs and the check of the companies.
ResetGuards == {"environment", "enabled", "tenant", "marker", "database", "fingerprint",
                "profile", "oneCompany"}
\* assertDemoSeedAllowed and seedIdentity
SeedGuards == {"environment", "tenant", "database", "fingerprint"}

DemoInit ==
  /\ matched \in {ResetGuards} \cup {ResetGuards \ {g} : g \in ResetGuards}
  /\ demoRows = {} /\ stock = [balance |-> 0, ledger |-> 0]
  /\ inserting = [w \in Writers |-> NoDemoRow]
  /\ written = {} /\ slipped = {}
  /\ reset = NoReset /\ resetJobs = <<>> /\ seedings = 0

-----------------------------------------------------------------------------
\* Rows of the seed that are there get its values again; they keep their keys and parents.
WithSeed(there) == there \cup SeedRows

\* The opening movement stays too, but its lines, which have no key to conflict on, are
\* inserted once more, and the balance is set.
SeedStock(s) == [balance |-> Opening, ledger |-> s.ledger + Opening]

\* Bound: one command at a time.
Seed ==
  /\ SeedGuards \subseteq matched
  /\ reset = NoReset
  /\ seedings < MaxCommands
  /\ demoRows' = WithSeed(demoRows)
  /\ stock' = SeedStock(stock)
  /\ seedings' = seedings + 1
  /\ UNCHANGED <<matched, inserting, written, slipped, reset, resetJobs>>

StartReset ==
  /\ ResetGuards \subseteq matched
  /\ reset = NoReset
  /\ seedings > 0                  \* loadObservedIdentity: the profile is there
  /\ Len(resetJobs) < MaxCommands
  /\ reset' = [past |-> 0, begun |-> 0, deleted |-> {}, doomed |-> {}]
  /\ UNCHANGED <<matched, demoRows, stock, inserting, written, slipped, resetJobs, seedings>>

\* Mutant: nothing is preserved.
ToDeleteAll(t) == {r \in demoRows : r.table = t}

ToDelete(t) == {r \in demoRows : r.table = t /\ t \notin Preserved}

\* The next table of resetScenarioRows. Its statement deletes what is committed when it
\* begins.
BeginDelete ==
  /\ reset # NoReset /\ reset.begun = reset.past /\ reset.past < Len(Tables)
  /\ reset' = [past |-> reset.past, begun |-> reset.past + 1, deleted |-> reset.deleted,
               doomed |-> ToDelete(Tables[reset.past + 1])]
  /\ UNCHANGED <<matched, demoRows, stock, inserting, written, slipped, resetJobs, seedings>>

\* It waits for the parents the application has locked.
DeleteRows ==
  /\ reset # NoReset /\ reset.begun # reset.past
  /\ \A w \in Writers : inserting[w] # NoDemoRow => \A r \in reset.doomed : ~IsParent(r, inserting[w])
  /\ reset' = [past |-> reset.begun, begun |-> reset.begun,
               deleted |-> reset.deleted \cup reset.doomed, doomed |-> {}]
  /\ UNCHANGED <<matched, demoRows, stock, inserting, written, slipped, resetJobs, seedings>>

Dangling(r, all) == r.parent # NoTable /\ ~\E p \in all : IsParent(p, r)

\* The seed, the check of what refers to legal documents and consents, and the commit.
\* No other table is checked.
CommitReset ==
  /\ reset # NoReset /\ reset.past = Len(Tables)
  /\ LET left == WithSeed(demoRows \ reset.deleted) IN
     /\ \A r \in left : r.table \in Verified => ~Dangling(r, left)
     /\ demoRows' = left
  /\ stock' = SeedStock([stock EXCEPT !.ledger = 0])
  /\ seedings' = 1
  /\ resetJobs' = Append(resetJobs, "completed")
  /\ reset' = NoReset
  /\ UNCHANGED <<matched, inserting, written, slipped>>

\* Any error rolls everything back, the job as well.  Another transaction tells of it,
\* unless it fails too.
FailReset ==
  /\ reset # NoReset
  /\ reset' = NoReset
  /\ resetJobs' \in {resetJobs, Append(resetJobs, "failed")}
  /\ UNCHANGED <<matched, demoRows, stock, inserting, written, slipped, seedings>>

-----------------------------------------------------------------------------
\* A request of the application inserts a row.
BeginWrite(w, t) ==
  /\ inserting[w] = NoDemoRow
  /\ Cardinality(written) + Cardinality({v \in Writers : inserting[v] # NoDemoRow}) < MaxRows
  /\ \E p \in demoRows \cup {[table |-> NoTable, key |-> NoTable]} :
       /\ p.table = ParentTable[t]
       /\ reset # NoReset => p \notin reset.deleted
       /\ inserting' = [inserting EXCEPT ![w] = [table |-> t, key |-> <<w, Cardinality(written)>>, parent |-> p.key]]
  /\ UNCHANGED <<matched, demoRows, stock, written, slipped, reset, resetJobs, seedings>>

\* The reset has begun with the table, and will not look at it again.
BegunWith(t) == reset # NoReset /\ \E i \in 1..reset.begun : Tables[i] = t

CommitWrite(w) ==
  /\ inserting[w] # NoDemoRow
  /\ demoRows' = demoRows \cup {inserting[w]}
  /\ written' = written \cup {inserting[w]}
  /\ slipped' = IF BegunWith(inserting[w].table) THEN slipped \cup {inserting[w]} ELSE slipped
  /\ inserting' = [inserting EXCEPT ![w] = NoDemoRow]
  /\ UNCHANGED <<matched, stock, reset, resetJobs, seedings>>

RollBackWrite(w) ==
  /\ inserting[w] # NoDemoRow
  /\ inserting' = [inserting EXCEPT ![w] = NoDemoRow]
  /\ UNCHANGED <<matched, demoRows, stock, written, slipped, reset, resetJobs, seedings>>

\* A sale: there is no balance once it is deleted.
TakeStock ==
  /\ stock.balance > 0
  /\ reset # NoReset => \A i \in 1..reset.past : Tables[i] # "stock_balances"
  /\ stock' = [balance |-> stock.balance - 1, ledger |-> stock.ledger - 1]
  /\ UNCHANGED <<matched, demoRows, inserting, written, slipped, reset, resetJobs, seedings>>

DemoNext ==
  \/ Seed
  \/ StartReset \/ BeginDelete \/ DeleteRows \/ CommitReset \/ FailReset
  \/ \E w \in Writers :
       \/ \E i \in DOMAIN Tables : BeginWrite(w, Tables[i])
       \/ CommitWrite(w) \/ RollBackWrite(w)
  \/ TakeStock

-----------------------------------------------------------------------------
\* A table the reset does not come to after the table its rows belong to.
NotAfterItsParent(t) ==
  \E i, j \in DOMAIN Tables : i <= j /\ Tables[i] = t /\ Tables[j] = ParentTable[t]

\* A demonstration that is reset in use keeps what is preserved, with what it belongs to.
\* Its rows belong to rows that are there but for those written behind the back of the
\* reset, and of them only where the order of the names puts the table before its parent's.
\* Each seeding after the first one leaves the balances short of their movements by no more
\* than the opening stock. An installation that misses a guard loses nothing.
DemoIsWhole ==
  /\ \A r \in written : r.table \in Preserved \/ matched # ResetGuards => r \in demoRows
  /\ \A r \in demoRows : Dangling(r, demoRows) =>
       r \in slipped /\ r.table \notin Preserved /\ NotAfterItsParent(r.table)
  /\ seedings > 0 =>
       /\ stock.ledger - stock.balance >= 0
       /\ stock.ledger - stock.balance <= Opening * (seedings - 1)
  /\ seedings = 0 => demoRows = written
=============================================================================
