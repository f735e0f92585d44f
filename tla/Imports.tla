------------------------------ MODULE Imports ------------------------------
(***************************************************************************)
(* Imports of a CSV file (apps/api/src/imports.service.ts): a preview      *)
(* checks every row against the file and the tables and writes a job; its  *)
(* execution writes every row in one transaction.  Two executions run side *)
(* by side: what one has written the other sees when it commits, a unique  *)
(* name or a stock balance it holds makes the other wait, and a name that  *)
(* is there fails the whole job.                                           *)
(***************************************************************************)
EXTENDS Catalogue

CONSTANTS
  Jobs,
  Files,   \* the rows a job may be previewed with
  NoFile

FileRow ==
  [kind : {"PARTY"}, party : Parties, customer : BOOLEAN]
  \cup [kind : {"ITEM"}, code : Names, offer : Offer]
  \cup [kind : {"STOCK"}, warehouse : Warehouses, code : Names, qty : Int]
  \cup [kind : {"PRICE"}, list : PriceLists, code : Names, minimum : Int, price : Int, limit : Int,
         from : Int, until : Int, default : BOOLEAN]

\* Who made a row: a user, or a row of a job.
Origins == {User} \cup Jobs \X Nat

ASSUME ImportsAssumption ==
  /\ Files \subseteq Seq(FileRow)
  /\ NoItem \notin Item(Origins)
  /\ "user" \notin Jobs

VARIABLE jobs  \* each job: status, file, and what its execution has written

NoJob == [status |-> "NONE", file |-> NoFile, written |-> <<>>]

\* The key by which preview finds a row twice in a file.
RowKey(r) ==
  CASE r.kind = "PARTY" -> r.party
    [] r.kind = "ITEM"  -> r.code
    [] r.kind = "STOCK" -> <<r.warehouse, r.code>>
    [] r.kind = "PRICE" -> <<r.list, r.code, r.minimum>>

Coded(code) == {i \in Existing : code \in items[i].names}

\* Preview looks up parties and items only.
Exists(r) ==
  \/ r.kind = "PARTY" /\ parties[r.party].status # "NONE"
  \/ r.kind = "ITEM" /\ Coded(r.code) # {}

Valid(r) ==
  /\ r.kind = "ITEM" => ItemOK(r.offer)
  /\ r.kind = "STOCK" => r.qty > 0

Clean(file) ==
  /\ \A n \in DOMAIN file : Valid(file[n]) /\ ~Exists(file[n])
  /\ \A m, n \in DOMAIN file : m # n => RowKey(file[m]) # RowKey(file[n])

\* A file with an invalid row is previewed as well, and can never be executed.
Preview(j, file) ==
  /\ jobs[j].status = "NONE"
  /\ jobs' = [jobs EXCEPT ![j] =
       [status |-> IF Clean(file) THEN "PREVIEWED" ELSE "INVALID", file |-> file, written |-> <<>>]]
  /\ UNCHANGED <<stockVars, catalogueVars>>

Running == {j \in Jobs : jobs[j].status = "EXECUTING"}

\* The execution locks the job's row; a second one finds it COMPLETED.
Begin(j) ==
  /\ jobs[j].status = "PREVIEWED"
  /\ jobs' = [jobs EXCEPT ![j].status = "EXECUTING"]
  /\ UNCHANGED <<stockVars, catalogueVars>>

-----------------------------------------------------------------------------
\* What a written row keeps others from: the row and the names it takes, the
\* balance it adds to and, for a price, its tier and the list it created.
Holds(w) ==
  CASE w.kind = "PARTY" -> {<<"party", w.party>>}
    [] w.kind = "ITEM"  -> {<<"item", w.item>>} \cup {<<"name", n>> : n \in w.offer.names}
    [] w.kind = "STOCK" -> {<<"balance", w.warehouse, w.item>>}
    [] w.kind = "PRICE" -> {<<"tier", w.list, w.item, w.minimum, w.from>>}
                           \cup (IF w.newList THEN {<<"list", w.list>>} ELSE {})
                           \cup (IF w.newList /\ w.default THEN {<<"default">>} ELSE {})

Written(j) == {jobs[j].written[n] : n \in DOMAIN jobs[j].written}
HeldBy(j) == UNION {Holds(w) : w \in Written(j)}
Held(S) == UNION {HeldBy(j) : j \in S \cap Running}

\* What the tables already have.
Committed ==
  {<<"party", p>> : p \in {p \in Parties : parties[p].status # "NONE"}}
  \cup (UNION {{<<"item", i>>} \cup {<<"name", n>> : n \in items[i].names} : i \in Existing})
  \cup {<<"list", l>> : l \in {l \in PriceLists : lists[l] # "NONE"}}
  \cup {<<"default">> : l \in {l \in PriceLists : lists[l] = "DEFAULT"}}
  \cup {<<"tier", e.list, e.item, e.minimum, e.from>> : e \in entries}

\* The transaction finds what is committed and what it wrote itself.
Found(j, code) ==
  Coded(code) \cup {w.item : w \in {w \in Written(j) : w.kind = "ITEM" /\ code \in w.offer.names}}
ListFound(j, l) == lists[l] # "NONE" \/ <<"list", l>> \in HeldBy(j)

\* What executeRow inserts for a row: nothing when its item is not found.
Insertions(j, r) ==
  CASE r.kind = "PARTY" -> {[kind |-> "PARTY", party |-> r.party, customer |-> r.customer]}
    [] r.kind = "ITEM"  -> {[kind |-> "ITEM", item |-> i, offer |-> r.offer] : i \in Items}
    [] r.kind = "STOCK" ->
         {[kind |-> "STOCK", warehouse |-> r.warehouse, item |-> i, qty |-> r.qty] :
            i \in Found(j, r.code)}
    [] r.kind = "PRICE" ->
         {[kind |-> "PRICE", list |-> r.list, item |-> i, minimum |-> r.minimum,
           price |-> r.price, limit |-> r.limit, from |-> r.from, until |-> r.until,
           newList |-> ~ListFound(j, r.list), default |-> r.default] : i \in Found(j, r.code)}

\* One row more: it waits for what another execution holds, and is not written
\* where a unique key is already taken.
ExecuteRow(j) ==
  /\ jobs[j].status = "EXECUTING"
  /\ LET n == Len(jobs[j].written) + 1
     IN  /\ n \in DOMAIN jobs[j].file
         /\ \E w \in Insertions(j, jobs[j].file[n]) :
              /\ Holds(w) \cap (Committed \cup Held(Jobs \ {j})) = {}
              /\ w.kind # "STOCK" => Holds(w) \cap HeldBy(j) = {}
              /\ jobs' = [jobs EXCEPT ![j].written = Append(@, w)]
  /\ UNCHANGED <<stockVars, catalogueVars>>

\* The tables once the rows W of job j are in them.  Each opening balance is a
\* movement with a key of its own, added to the balance there is.
Rows(W, kind) == {n \in DOMAIN W : W[n].kind = kind}

WriteItems(j, W) ==
  items' = [i \in Items |->
    IF \E n \in Rows(W, "ITEM") : W[n].item = i
    THEN LET n == CHOOSE n \in Rows(W, "ITEM") : W[n].item = i
         IN  ItemRow(W[n].offer, <<j, n>>)
    ELSE items[i]]

WriteParties(j, W) ==
  parties' = [p \in Parties |->
    IF \E n \in Rows(W, "PARTY") : W[n].party = p
    THEN LET n == CHOOSE n \in Rows(W, "PARTY") : W[n].party = p
         IN  [status |-> "active", customer |-> W[n].customer, version |-> 1, origin |-> <<j, n>>,
              profile |-> IF W[n].customer THEN "PLAIN" ELSE "NONE"]
    ELSE parties[p]]

WritePrices(j, W) ==
  /\ lists' = [l \in PriceLists |->
       IF \E n \in Rows(W, "PRICE") : W[n].list = l /\ W[n].newList
       THEN IF \E n \in Rows(W, "PRICE") : W[n].list = l /\ W[n].newList /\ W[n].default
            THEN "DEFAULT" ELSE "LISTED"
       ELSE lists[l]]
  /\ entries' = entries \cup {TierOf(W[n].list, W[n], <<j, n>>) : n \in Rows(W, "PRICE")}

OpeningQty(W, v, i) ==
  MapThenSumSet(LAMBDA n : W[n].qty, {n \in Rows(W, "STOCK") : W[n].warehouse = v /\ W[n].item = i})

\* Mutant: the upsert puts the row's quantity in place of the balance.
AfterOpeningReplaced(W, v, i) ==
  IF \E n \in Rows(W, "STOCK") : W[n].warehouse = v /\ W[n].item = i
  THEN OpeningQty(W, v, i) ELSE balance[v][i]

AfterOpening(W, v, i) == balance[v][i] + OpeningQty(W, v, i)

WriteStock(j, W) ==
  /\ movements' = movements \cup
       {[key |-> <<"import", j, n>>, warehouse |-> W[n].warehouse, direction |-> Receipt,
         lines |-> <<[item |-> W[n].item, qty |-> W[n].qty]>>] : n \in Rows(W, "STOCK")}
  /\ balance' = [v \in Warehouses |-> [i \in Items |-> AfterOpening(W, v, i)]]

WriteTables(j) ==
  LET W == jobs[j].written
  IN  WriteItems(j, W) /\ WriteParties(j, W) /\ WritePrices(j, W) /\ WriteStock(j, W)

Commit(j) ==
  /\ jobs[j].status = "EXECUTING"
  /\ Len(jobs[j].written) = Len(jobs[j].file)
  /\ WriteTables(j)
  /\ jobs' = [jobs EXCEPT ![j].status = "COMPLETED"]
  /\ UNCHANGED today

\* Mutant: every row commits by itself, so that a failure keeps the rows before it.
RollbackLast(j) ==
  /\ jobs[j].status = "EXECUTING"
  /\ WriteTables(j)
  /\ jobs' = [jobs EXCEPT ![j].status = "PREVIEWED", ![j].written = <<>>]
  /\ UNCHANGED today

\* A row that cannot be written, a deadlock between two executions, or an API
\* that stops: nothing of the transaction stays, and the job may be run again.
Rollback(j) ==
  /\ jobs[j].status = "EXECUTING"
  /\ jobs' = [jobs EXCEPT ![j].status = "PREVIEWED", ![j].written = <<>>]
  /\ UNCHANGED <<stockVars, catalogueVars>>

\* Any other request waits for what a running import holds.
WaitsForImports ==
  /\ (Committed' \ Committed) \cap Held(Jobs) = {}
  /\ \A v \in Warehouses, i \in Items :
       balance'[v][i] # balance[v][i] => <<"balance", v, i>> \notin Held(Jobs)

ImportsInit == jobs = [j \in Jobs |-> NoJob]

ImportsNext ==
  \E j \in Jobs :
    \/ \E file \in Files : Preview(j, file)
    \/ Begin(j) \/ ExecuteRow(j) \/ Commit(j) \/ Rollback(j)

-----------------------------------------------------------------------------
\* The rows of job j that are in the tables, one origin for each entity made.
Made(j) ==
  {n \in 1 .. Len(jobs[j].file) :
     \/ \E i \in Existing : items[i].origin = <<j, n>>
     \/ \E p \in Parties : parties[p].origin = <<j, n>>
     \/ \E e \in entries : e.origin = <<j, n>>
     \/ \E m \in movements : m.key = <<"import", j, n>>}

\* An import is whole: a job that completed has every row of its file in the
\* tables, each once, and any other job has none there, however often its
\* execution was started, failed or met another one.
ImportsAreWhole ==
  \A j \in Jobs :
    /\ jobs[j].status = "COMPLETED" => Made(j) = DOMAIN jobs[j].file
    /\ jobs[j].status \notin {"NONE", "COMPLETED"} => Made(j) = {}
    /\ \A i, k \in Existing : items[i].origin = items[k].origin /\ items[i].origin[1] = j => i = k
=============================================================================
