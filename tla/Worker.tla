------------------------------- MODULE Worker -------------------------------
(***************************************************************************)
(* The worker (apps/worker/src/main.ts), any number of processes of it,    *)
(* beside the API that appends events to the outbox (operations.ts), lets  *)
(* situations arise and pass, enables and disables modules (as the module  *)
(* ModuleRegistry says) and marks notifications as read. A cycle           *)
(* is two transactions: the first claims pending events under row locks    *)
(* that other workers skip, and marks them as processed; the second        *)
(* inserts a notification for every situation that has none unread.        *)
(***************************************************************************)
EXTENDS Integers, FiniteSets

CONSTANTS
  Workers,
  Events,           \* numbers, in the order of (available_at, id)
  Limit,            \* how many events a cycle claims, 100 in the code
  Modules,
  Rows,             \* rows of the tables that the generators look at
  KeyOf,            \* the type and entity that the notification of a row names
  ModuleOf,         \* the module whose generator looks at a row
  MaxInterruptions  \* bound: crashes, signals and failed transactions

ASSUME WorkerAssumption ==
  /\ IsFiniteSet(Workers)
  /\ Events \subseteq Nat
  /\ IsFiniteSet(Events)
  /\ Limit \in Nat \ {0}
  /\ IsFiniteSet(Rows)
  /\ ModuleOf \in [Rows -> Modules]

VARIABLES
  outbox,         \* the state of each event, and its column attempts
  worker,         \* where each worker is in its cycle, what it claimed and inserted
  standing,       \* the rows that are in the situation their generator looks for
  unread,         \* how many unread notifications there are for each type and entity
  overlapped,     \* the keys for which two workers inserted before either committed
  enabled,        \* the modules that are implemented and enabled
  interruptions

workerVars == <<outbox, worker, standing, unread, overlapped, enabled, interruptions>>

Keys == {KeyOf[row] : row \in Rows}
Nothing == [key \in Keys |-> 0]

Fresh(step) == [step |-> step, stopping |-> FALSE, claimed |-> {}, inserted |-> Nothing]

WorkerInit ==
  /\ outbox = [e \in Events |-> [state |-> "absent", attempts |-> 0]]
  /\ worker = [w \in Workers |-> Fresh("claim")]
  /\ standing = {}
  /\ unread = Nothing
  /\ overlapped = {}
  /\ enabled = Modules
  /\ interruptions = 0

-----------------------------------------------------------------------------
\* The first transaction of a cycle.

Pending == {e \in Events : outbox[e].state = "pending"}
Locked == UNION {worker[w].claimed : w \in Workers}

\* The first events in the order, at most Limit of them.
FirstOf(S) == {e \in S : Cardinality({f \in S : f < e}) < Limit}

\* Mutant: the rows are read without locks.
ClaimUnlocked(w) ==
  /\ worker[w].step = "claim" /\ ~worker[w].stopping
  /\ worker' = [worker EXCEPT ![w].step = "claimed", ![w].claimed = FirstOf(Pending)]
  /\ UNCHANGED <<outbox, standing, unread, overlapped, enabled, interruptions>>

\* for update skip locked limit 100
Claim(w) ==
  /\ worker[w].step = "claim" /\ ~worker[w].stopping
  /\ worker' = [worker EXCEPT ![w].step = "claimed", ![w].claimed = FirstOf(Pending \ Locked)]
  /\ UNCHANGED <<outbox, standing, unread, overlapped, enabled, interruptions>>

\* Mutant: a cycle that claimed nothing ends there.
CommitClaimOrRest(w) ==
  /\ worker[w].step = "claimed"
  /\ outbox' = [e \in Events |->
       IF e \in worker[w].claimed
       THEN [state |-> "processed", attempts |-> outbox[e].attempts + 1] ELSE outbox[e]]
  /\ worker' = [worker EXCEPT ![w].step = IF @ = "claimed" /\ worker[w].claimed = {}
                                           THEN "claim" ELSE "generate",
                              ![w].claimed = {}]
  /\ UNCHANGED <<standing, unread, overlapped, enabled, interruptions>>

\* Mark every claimed event and commit, which gives the locks back.
CommitClaim(w) ==
  /\ worker[w].step = "claimed"
  /\ outbox' = [e \in Events |->
       IF e \in worker[w].claimed
       THEN [state |-> "processed", attempts |-> outbox[e].attempts + 1] ELSE outbox[e]]
  /\ worker' = [worker EXCEPT ![w].step = "generate", ![w].claimed = {}]
  /\ UNCHANGED <<standing, unread, overlapped, enabled, interruptions>>

-----------------------------------------------------------------------------
\* The second one: insert ... select ... where not exists, one statement per type.

StandingFor(key) == {row \in standing : KeyOf[row] = key /\ ModuleOf[row] \in enabled}

\* Mutant: a notification for every row, whatever there is already.
EveryCycle(key) == Cardinality(StandingFor(key))

\* A statement sees what was committed when it began, not what it inserts itself: an
\* item short in two warehouses is notified twice at once.
MissingFor(key) == IF unread[key] > 0 THEN 0 ELSE Cardinality(StandingFor(key))

Generate(w) ==
  LET missing == [key \in Keys |-> MissingFor(key)] IN
  /\ worker[w].step = "generate" /\ ~worker[w].stopping
  /\ worker' = [worker EXCEPT ![w].step = "inserted", ![w].inserted = missing]
  /\ overlapped' = overlapped \cup
       {key \in Keys : missing[key] > 0 /\ \E v \in Workers : worker[v].inserted[key] > 0}
  /\ UNCHANGED <<outbox, standing, unread, enabled, interruptions>>

CommitGenerate(w) ==
  /\ worker[w].step = "inserted"
  /\ unread' = [key \in Keys |-> unread[key] + worker[w].inserted[key]]
  /\ worker' = [worker EXCEPT ![w].step = "claim", ![w].inserted = Nothing]
  /\ UNCHANGED <<outbox, standing, overlapped, enabled, interruptions>>

-----------------------------------------------------------------------------
\* The loop, which pauses for a minute before it claims again, and what ends it.

\* After a signal the pool is closed: a transaction that runs ends, none begins. The
\* error is caught like any other, and the loop ends.
Stop(w) ==
  /\ worker[w].stopping /\ worker[w].step \in {"claim", "generate"}
  /\ worker' = [worker EXCEPT ![w] = Fresh("down")]
  /\ UNCHANGED <<outbox, standing, unread, overlapped, enabled, interruptions>>

Interrupt(w, state) ==
  /\ interruptions < MaxInterruptions
  /\ interruptions' = interruptions + 1
  /\ worker' = [worker EXCEPT ![w] = state]
  /\ UNCHANGED <<outbox, standing, unread, overlapped, enabled>>

\* A transaction is rolled back, and the error caught.
Fail(w) ==
  /\ worker[w].step \in {"claim", "claimed", "generate", "inserted"}
  /\ Interrupt(w, [Fresh("claim") EXCEPT !.stopping = worker[w].stopping])

Signal(w) ==
  /\ worker[w].step # "down" /\ ~worker[w].stopping
  /\ Interrupt(w, [worker[w] EXCEPT !.stopping = TRUE])

Crash(w) ==
  /\ worker[w].step # "down"
  /\ Interrupt(w, Fresh("down"))

\* The container starts it again.
Start(w) ==
  /\ worker[w].step = "down"
  /\ worker' = [worker EXCEPT ![w] = Fresh("claim")]
  /\ UNCHANGED <<outbox, standing, unread, overlapped, enabled, interruptions>>

-----------------------------------------------------------------------------
\* What the API does meanwhile.

\* appendOutboxEvent, when the transaction it belongs to commits.
AppendEvent(e) ==
  /\ outbox[e].state = "absent"
  /\ outbox' = [outbox EXCEPT ![e].state = "pending"]
  /\ UNCHANGED <<worker, standing, unread, overlapped, enabled, interruptions>>

Arise(row) ==
  /\ row \notin standing
  /\ standing' = standing \cup {row}
  /\ UNCHANGED <<outbox, worker, unread, overlapped, enabled, interruptions>>

Pass(row) ==
  /\ row \in standing
  /\ standing' = standing \ {row}
  /\ UNCHANGED <<outbox, worker, unread, overlapped, enabled, interruptions>>

\* The row of the module is written, whatever was decided on (see ModuleRegistry).
Switch(m) ==
  /\ enabled' = IF m \in enabled THEN enabled \ {m} ELSE enabled \cup {m}
  /\ UNCHANGED <<outbox, worker, standing, unread, overlapped, interruptions>>

\* read of notifications.controller.ts
Read(key) ==
  /\ unread[key] > 0
  /\ unread' = [unread EXCEPT ![key] = @ - 1]
  /\ UNCHANGED <<outbox, worker, standing, overlapped, enabled, interruptions>>

Cycle(w) ==
  \/ Claim(w) \/ CommitClaim(w) \/ Generate(w) \/ CommitGenerate(w)
  \/ Stop(w) \/ Start(w)

WorkerNext ==
  \/ \E w \in Workers : Cycle(w) \/ Fail(w) \/ Signal(w) \/ Crash(w)
  \/ \E e \in Events : AppendEvent(e)
  \/ \E row \in Rows : Arise(row) \/ Pass(row)
  \/ \E key \in Keys : Read(key)
  \/ \E m \in Modules : Switch(m)

WorkerSpec ==
  /\ WorkerInit
  /\ [][WorkerNext]_workerVars
  /\ \A w \in Workers : WF_workerVars(Cycle(w))

-----------------------------------------------------------------------------
Promise == INSTANCE Outbox WITH
  pending <- Pending,
  processings <- [e \in Events |-> outbox[e].attempts]

\* The workers keep the promise of the outbox: an event is processed once, however many
\* of them run, crash and start again, and in the end every event is.
OutboxIsKept == Promise!OutboxSpec

\* A situation that lasts in an enabled module has an unread notification in the end,
\* although a worker dies between its two transactions or its second one is rolled back,
\* and again after the notification was read.
SituationsAreNotified ==
  \A row \in Rows :
    row \in standing /\ ModuleOf[row] \in enabled
      ~> \/ unread[KeyOf[row]] > 0
         \/ row \notin standing
         \/ ModuleOf[row] \notin enabled

RowsOf(key) == {row \in Rows : KeyOf[row] = key}

\* One type and entity has no more unread notifications than rows that call for one; for
\* the keys where two workers inserted before either committed, no more than one such set
\* per worker, however often they look and fail and however many are read meanwhile: a
\* worker adds to what is unread only if it began before all of that was committed.
NotificationsAreFew ==
  /\ \A key \in Keys \ overlapped : unread[key] <= Cardinality(RowsOf(key))
  /\ \A key \in Keys : unread[key] <= Cardinality(RowsOf(key)) * Cardinality(Workers)
=============================================================================
