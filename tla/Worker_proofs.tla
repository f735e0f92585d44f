--------------------------- MODULE Worker_proofs ---------------------------
(***************************************************************************)
(* Any number of workers, with any number of crashes, processes no event   *)
(* that was not appended, and none twice: the safety part of Outbox; and   *)
(* notifies no more often than there are rows to be notified of.           *)
(***************************************************************************)
EXTENDS Worker, FiniteSetTheorems, TLAPS

Event == [state : {"absent", "pending", "processed"}, attempts : Nat]
Counts == {0} \cup {Cardinality(S) : S \in SUBSET Rows}
Cycling == [step : {"claim", "claimed", "generate", "inserted", "down"}, stopping : BOOLEAN,
            claimed : SUBSET Events, inserted : [Keys -> Counts]]

WorkerTypeOK ==
  /\ outbox \in [Events -> Event]
  /\ worker \in [Workers -> Cycling]
  /\ standing \subseteq Rows

\* What a worker has locked is pending, and nobody else's; what is pending, or is yet to
\* come, was never processed.
ClaimsHold ==
  /\ \A w \in Workers : worker[w].claimed \subseteq Pending
  /\ \A v, w \in Workers : v # w => worker[v].claimed \cap worker[w].claimed = {}
  /\ \A e \in Events : outbox[e].state # "processed" => outbox[e].attempts = 0

WorkerInv == WorkerTypeOK /\ ClaimsHold

LEMMA WorkerStarts == WorkerInit => WorkerInv
<1> SUFFICES ASSUME WorkerInit PROVE WorkerInv
  OBVIOUS
<1>1. Fresh("claim") \in Cycling
  BY DEF Fresh, Cycling, Nothing, Counts
<1>2. WorkerTypeOK
  BY <1>1 DEF WorkerInit, WorkerTypeOK, Event
<1>3. ClaimsHold
  BY DEF WorkerInit, ClaimsHold, Fresh
<1> QED
  BY <1>2, <1>3 DEF WorkerInv

\* A worker that goes on and claims nothing new, while the outbox stays as it is.
LEMMA GoingOnKeeps ==
  ASSUME WorkerInv, NEW w \in Workers, NEW state \in Cycling, UNCHANGED outbox,
         state.claimed \subseteq worker[w].claimed, standing' \subseteq Rows,
         worker' = [worker EXCEPT ![w] = state]
  PROVE  WorkerInv'
<1>1. worker' \in [Workers -> Cycling]
      /\ \A v \in Workers : worker'[v] = IF v = w THEN state ELSE worker[v]
  BY DEF WorkerInv, WorkerTypeOK
<1>2. WorkerTypeOK'
  BY <1>1 DEF WorkerInv, WorkerTypeOK
<1>3. ClaimsHold'
  BY <1>1 DEF WorkerInv, ClaimsHold, Pending
<1> QED
  BY <1>2, <1>3 DEF WorkerInv

\* Whatever a worker does but claim and mark.
LEMMA CycleKeeps ==
  ASSUME WorkerInv, NEW w \in Workers,
         Generate(w) \/ CommitGenerate(w) \/ Stop(w) \/ Start(w) \/ Fail(w) \/ Signal(w) \/ Crash(w)
  PROVE  WorkerInv' /\ UNCHANGED outbox
<1>1. outbox' = outbox /\ standing' \subseteq Rows
  BY DEF WorkerInv, WorkerTypeOK, Generate, CommitGenerate, Stop, Start, Fail, Signal, Crash, Interrupt
<1>2. worker[w] \in Cycling
  BY DEF WorkerInv, WorkerTypeOK
<1>3. \A step \in {"claim", "down"}, stopping \in BOOLEAN :
        LET fresh == [Fresh(step) EXCEPT !.stopping = stopping]
        IN  fresh \in Cycling /\ fresh.claimed = {} /\ Fresh(step) \in Cycling /\ Fresh(step).claimed = {}
  BY DEF Fresh, Cycling, Nothing, Counts
<1>4. CASE Generate(w)
  <2> DEFINE missing == [key \in Keys |-> MissingFor(key)]
             state == [worker[w] EXCEPT !.step = "inserted", !.inserted = missing]
  <2>1. missing \in [Keys -> Counts]
    BY DEF WorkerInv, WorkerTypeOK, MissingFor, StandingFor, Counts
  <2>2. worker' = [worker EXCEPT ![w] = state]
    BY <1>4 DEF Generate
  <2> HIDE DEF missing
  <2>3. state \in Cycling /\ state.claimed = worker[w].claimed
    BY <1>2, <2>1 DEF Cycling
  <2> QED
    BY <1>1, <2>2, <2>3, GoingOnKeeps
<1>5. CASE CommitGenerate(w)
  <2> DEFINE state == [worker[w] EXCEPT !.step = "claim", !.inserted = Nothing]
  <2>1. Nothing \in [Keys -> Counts]
    BY DEF Nothing, Counts
  <2>2. worker' = [worker EXCEPT ![w] = state]
    BY <1>5 DEF CommitGenerate
  <2>3. state \in Cycling /\ state.claimed = worker[w].claimed
    BY <1>2, <2>1 DEF Cycling
  <2> QED
    BY <1>1, <2>2, <2>3, GoingOnKeeps
<1>6. CASE Stop(w) \/ Crash(w)
  BY <1>1, <1>3, <1>6, GoingOnKeeps DEF Stop, Crash, Interrupt
<1>7. CASE Start(w)
  BY <1>1, <1>3, <1>7, GoingOnKeeps DEF Start
<1>8. CASE Fail(w)
  <2> DEFINE state == [Fresh("claim") EXCEPT !.stopping = worker[w].stopping]
  <2>1. state \in Cycling /\ state.claimed = {}
    BY <1>2, <1>3 DEF Cycling
  <2> QED
    BY <1>1, <1>8, <2>1, GoingOnKeeps DEF Fail, Interrupt
<1>9. CASE Signal(w)
  <2> DEFINE state == [worker[w] EXCEPT !.stopping = TRUE]
  <2>1. state \in Cycling /\ state.claimed = worker[w].claimed
    BY <1>2 DEF Cycling
  <2> QED
    BY <1>1, <1>9, <2>1, GoingOnKeeps DEF Signal, Interrupt
<1> QED
  BY <1>1, <1>4, <1>5, <1>6, <1>7, <1>8, <1>9

\* Rows that others have locked are skipped.
LEMMA ClaimKeeps ==
  ASSUME WorkerInv, NEW w \in Workers, Claim(w)
  PROVE  WorkerInv' /\ UNCHANGED outbox
<1> DEFINE claimed == FirstOf(Pending \ Locked)
           state == [worker[w] EXCEPT !.step = "claimed", !.claimed = claimed]
<1>1. claimed \subseteq Pending \ Locked /\ claimed \subseteq Events
  BY DEF FirstOf, Pending
<1>2. worker' = [worker EXCEPT ![w] = state] /\ UNCHANGED <<outbox, standing>>
  BY DEF Claim
<1> HIDE DEF claimed
<1>3. state \in Cycling /\ state.claimed = claimed
  BY <1>1 DEF WorkerInv, WorkerTypeOK, Cycling
<1> HIDE DEF state
<1>4. worker' \in [Workers -> Cycling]
      /\ \A v \in Workers : worker'[v] = IF v = w THEN state ELSE worker[v]
  BY <1>2, <1>3 DEF WorkerInv, WorkerTypeOK
<1>5. WorkerTypeOK'
  BY <1>2, <1>4 DEF WorkerInv, WorkerTypeOK
<1>6. \A v \in Workers : worker[v].claimed \cap claimed = {}
  BY <1>1 DEF Locked
<1>7. ClaimsHold'
  BY <1>1, <1>2, <1>3, <1>4, <1>6 DEF WorkerInv, ClaimsHold, Pending
<1> QED
  BY <1>2, <1>5, <1>7 DEF WorkerInv

\* What others have claimed is not what is marked.
LEMMA MarkingKeeps ==
  ASSUME WorkerInv, NEW w \in Workers, CommitClaim(w)
  PROVE  /\ WorkerInv'
         /\ \A e \in Events : outbox'[e] =
              IF e \in worker[w].claimed
              THEN [state |-> "processed", attempts |-> outbox[e].attempts + 1] ELSE outbox[e]
         /\ Pending' = Pending \ worker[w].claimed
<1> DEFINE state == [worker[w] EXCEPT !.step = "generate", !.claimed = {}]
<1>1. worker' = [worker EXCEPT ![w] = state] /\ UNCHANGED standing
  BY DEF CommitClaim
<1>2. state \in Cycling /\ state.claimed = {}
  BY DEF WorkerInv, WorkerTypeOK, Cycling
<1> HIDE DEF state
<1>3. worker' \in [Workers -> Cycling]
      /\ \A v \in Workers : worker'[v] = IF v = w THEN state ELSE worker[v]
  BY <1>1, <1>2 DEF WorkerInv, WorkerTypeOK
<1>4. \A e \in Events : outbox'[e] =
        IF e \in worker[w].claimed
        THEN [state |-> "processed", attempts |-> outbox[e].attempts + 1] ELSE outbox[e]
  BY DEF CommitClaim
<1>5. outbox' \in [Events -> Event]
  <2>1. \A e \in Events : outbox[e] \in Event
    BY DEF WorkerInv, WorkerTypeOK
  <2>2. \A e \in Events :
          [state |-> "processed", attempts |-> outbox[e].attempts + 1] \in Event
    BY <2>1 DEF Event
  <2> QED
    BY <2>1, <2>2 DEF CommitClaim
<1>6. WorkerTypeOK'
  BY <1>1, <1>3, <1>5 DEF WorkerInv, WorkerTypeOK
<1>7. ASSUME NEW e \in Events
      PROVE  /\ e \in worker[w].claimed => outbox'[e].state = "processed"
             /\ e \notin worker[w].claimed => outbox'[e] = outbox[e]
  <2>1. CASE e \in worker[w].claimed
    <3>1. outbox'[e] = [state |-> "processed", attempts |-> outbox[e].attempts + 1]
      BY <1>4, <2>1
    <3> QED
      BY <2>1, <3>1
  <2>2. CASE e \notin worker[w].claimed
    BY <1>4, <2>2
  <2> QED
    BY <2>1, <2>2
<1>8. Pending' = Pending \ worker[w].claimed
  BY <1>7 DEF Pending
<1>9. ClaimsHold'
  <2>1. \A v \in Workers : worker'[v].claimed \subseteq Pending'
    BY <1>2, <1>3, <1>8 DEF WorkerInv, ClaimsHold
  <2>2. \A u, v \in Workers : u # v => worker'[u].claimed \cap worker'[v].claimed = {}
    BY <1>2, <1>3 DEF WorkerInv, ClaimsHold
  <2>3. \A e \in Events : outbox'[e].state # "processed" => outbox'[e].attempts = 0
    BY <1>7 DEF WorkerInv, ClaimsHold
  <2> QED
    BY <2>1, <2>2, <2>3 DEF ClaimsHold
<1> QED
  BY <1>4, <1>6, <1>8, <1>9 DEF WorkerInv

LEMMA AppendingKeeps ==
  ASSUME WorkerInv, NEW e \in Events, AppendEvent(e)
  PROVE  /\ WorkerInv'
         /\ outbox[e].state = "absent"
         /\ \A f \in Events : outbox'[f] = IF f = e THEN [outbox[e] EXCEPT !.state = "pending"]
                                           ELSE outbox[f]
<1> DEFINE event == [outbox[e] EXCEPT !.state = "pending"]
<1>1. outbox' = [outbox EXCEPT ![e] = event] /\ outbox[e].state = "absent"
      /\ UNCHANGED <<worker, standing>>
  BY DEF AppendEvent
<1>2. event \in Event /\ event.state = "pending" /\ event.attempts = outbox[e].attempts
  BY DEF WorkerInv, WorkerTypeOK, Event
<1> HIDE DEF event
<1>3. outbox' \in [Events -> Event]
      /\ \A f \in Events : outbox'[f] = IF f = e THEN event ELSE outbox[f]
  BY <1>1, <1>2 DEF WorkerInv, WorkerTypeOK
<1>4. WorkerTypeOK'
  BY <1>1, <1>3 DEF WorkerInv, WorkerTypeOK
<1>5. ClaimsHold'
  BY <1>1, <1>2, <1>3 DEF WorkerInv, ClaimsHold, Pending
<1> QED
  BY <1>1, <1>3, <1>4, <1>5 DEF WorkerInv, event

\* Situations, modules and notifications are none of the outbox's business.
LEMMA SurroundingsKeep ==
  ASSUME WorkerInv,
         \/ \E row \in Rows : Arise(row) \/ Pass(row)
         \/ \E key \in Keys : Read(key)
         \/ \E m \in Modules : Switch(m)
         \/ UNCHANGED workerVars
  PROVE  WorkerInv' /\ UNCHANGED outbox
<1>1. outbox' = outbox /\ worker' = worker /\ standing' \subseteq Rows
  BY DEF WorkerInv, WorkerTypeOK, Arise, Pass, Read, Switch, workerVars
<1> QED
  BY <1>1 DEF WorkerInv, WorkerTypeOK, ClaimsHold, Pending

\* What a step of the workers is to the outbox: an event appended, those of one worker
\* processed, or nothing.
LEMMA StepsKeepPromise ==
  ASSUME WorkerInv, [WorkerNext]_workerVars
  PROVE  WorkerInv' /\ [Promise!OutboxNext]_Promise!outboxVars
<1> DEFINE attempts == [e \in Events |-> outbox[e].attempts]
<1>1. ASSUME outbox' = outbox PROVE UNCHANGED Promise!outboxVars
  BY <1>1 DEF Promise!outboxVars, Pending
<1>2. ASSUME NEW w \in Workers, CommitClaim(w)
      PROVE  WorkerInv' /\ [Promise!OutboxNext]_Promise!outboxVars
  <2> DEFINE S == worker[w].claimed
  <2>1. S \subseteq Pending /\ S \subseteq Events
    BY DEF WorkerInv, ClaimsHold, Pending
  <2>2. WorkerInv' /\ \A e \in Events : outbox'[e] =
          IF e \in S
          THEN [state |-> "processed", attempts |-> outbox[e].attempts + 1] ELSE outbox[e]
    BY <1>2, MarkingKeeps
  <2>3. Pending' = Pending \ S
    BY <1>2, MarkingKeeps
  <2>4. attempts' = [e \in Events |-> IF e \in S THEN attempts[e] + 1 ELSE attempts[e]]
    <3>1. ASSUME NEW e \in Events
          PROVE  outbox'[e].attempts = IF e \in S THEN outbox[e].attempts + 1
                                       ELSE outbox[e].attempts
      <4>1. CASE e \in S
        <5>1. outbox'[e] = [state |-> "processed", attempts |-> outbox[e].attempts + 1]
          BY <2>2, <4>1
        <5> QED
          BY <4>1, <5>1
      <4>2. CASE e \notin S
        BY <2>2, <4>2
      <4> QED
        BY <4>1, <4>2
    <3> QED
      BY <3>1
  <2>5. CASE S = {}
    <3>1. Pending' = Pending /\ attempts' = attempts
      BY <2>3, <2>4, <2>5
    <3> QED
      BY <2>2, <3>1 DEF Promise!outboxVars
  <2>6. CASE S # {}
    <3>1. PICK e \in Events : e \in S
      BY <2>1, <2>6
    <3>2. Promise!ProcessWith(e)
      BY <2>1, <2>3, <2>4, <2>6, <3>1 DEF Promise!ProcessWith, Promise!Process
    <3> QED
      BY <2>2, <3>2 DEF Promise!OutboxNext
  <2> QED
    BY <2>5, <2>6
<1>3. ASSUME NEW e \in Events, AppendEvent(e)
      PROVE  WorkerInv' /\ [Promise!OutboxNext]_Promise!outboxVars
  <2>1. /\ WorkerInv' /\ outbox[e].state = "absent"
        /\ \A f \in Events : outbox'[f] = IF f = e THEN [outbox[e] EXCEPT !.state = "pending"]
                                          ELSE outbox[f]
    BY <1>3, AppendingKeeps
  <2>2. outbox[e] \in Event /\ attempts[e] = 0 /\ e \notin Pending
    BY <2>1 DEF WorkerInv, WorkerTypeOK, ClaimsHold, Pending
  <2>3. outbox'[e].state = "pending" /\ outbox'[e].attempts = outbox[e].attempts
    BY <2>1, <2>2 DEF Event
  <2>4. Pending' = Pending \cup {e} /\ attempts' = attempts
    BY <2>1, <2>3 DEF Pending
  <2>5. Promise!Append(e)
    BY <2>2, <2>4 DEF Promise!Append
  <2> QED
    BY <2>1, <2>5 DEF Promise!OutboxNext
<1>4. ASSUME WorkerInv' /\ outbox' = outbox
      PROVE  WorkerInv' /\ [Promise!OutboxNext]_Promise!outboxVars
  BY <1>1, <1>4
<1> QED
  BY <1>2, <1>3, <1>4, ClaimKeeps, CycleKeeps, SurroundingsKeep DEF WorkerNext, Cycle

\* Whatever number of workers there is, and however they crash, are signalled or start
\* again, an event is processed only after it was appended and only once: the workers
\* implement the steps of the outbox.  That each is processed in the end is OutboxIsKept.
THEOREM OutboxIsSafe == WorkerSpec => Promise!OutboxInit /\ [][Promise!OutboxNext]_Promise!outboxVars
<1>1. WorkerInit => Promise!OutboxInit
  BY DEF WorkerInit, Promise!OutboxInit, Pending
<1>2. WorkerInv /\ [WorkerNext]_workerVars => WorkerInv' /\ [Promise!OutboxNext]_Promise!outboxVars
  BY StepsKeepPromise
<1> QED
  BY <1>1, <1>2, WorkerStarts, PTL DEF WorkerSpec

-----------------------------------------------------------------------------
(* The notifications.  What a worker inserts shows in the tables when it   *)
(* commits; another one that looks before then inserts the same again.     *)

\* A transaction has notified of a key when nothing unread was there, and is the only one,
\* but for the keys where two overlapped.
InsertsAlone(key) ==
  \A w \in Workers : worker[w].inserted[key] > 0 =>
    /\ unread[key] = 0
    /\ \A v \in Workers : worker[v].inserted[key] > 0 => v = w

NotificationsInv ==
  /\ unread \in [Keys -> Nat]
  /\ \A w \in Workers : worker[w].step # "inserted" => worker[w].inserted = Nothing
  /\ \A w \in Workers, key \in Keys : worker[w].inserted[key] <= Cardinality(RowsOf(key))
  /\ \A key \in Keys \ overlapped :
       unread[key] <= Cardinality(RowsOf(key)) /\ InsertsAlone(key)

\* A number of rows.
LEMMA RowsAreCounted ==
  ASSUME NEW S, S \subseteq Rows
  PROVE  /\ Cardinality(S) \in Nat
         /\ \A T \in SUBSET S : Cardinality(T) \in Nat /\ Cardinality(T) <= Cardinality(S)
<1>1. IsFiniteSet(S)
  BY WorkerAssumption, FS_Subset
<1>2. ASSUME NEW T \in SUBSET S
      PROVE  Cardinality(T) \in Nat /\ Cardinality(T) <= Cardinality(S)
  BY <1>1, <1>2, FS_Subset, FS_CardinalityType
<1> QED
  BY <1>1, <1>2, FS_CardinalityType

\* What a worker inserted of a key.
LEMMA InsertedAreCounted ==
  ASSUME WorkerInv, NEW w \in Workers, NEW key \in Keys
  PROVE  worker[w].inserted[key] \in Nat
<1>1. Counts \subseteq Nat
  <2>1. \A S \in SUBSET Rows : Cardinality(S) \in Nat
    BY RowsAreCounted
  <2> QED
    BY <2>1 DEF Counts
<1> QED
  BY <1>1 DEF WorkerInv, WorkerTypeOK, Cycling

\* No rows, no notifications.
LEMMA NotificationsStart == WorkerInit => NotificationsInv
<1> SUFFICES ASSUME WorkerInit PROVE NotificationsInv
  OBVIOUS
<1>1. /\ unread = Nothing /\ \A key \in Keys : Nothing[key] = 0
      /\ \A w \in Workers : worker[w].inserted = Nothing
  BY DEF WorkerInit, Fresh, Nothing
<1>2. \A key \in Keys : Cardinality(RowsOf(key)) \in Nat
  BY RowsAreCounted DEF RowsOf
<1>3. unread \in [Keys -> Nat]
  BY <1>1 DEF Nothing
<1> QED
  BY <1>1, <1>2, <1>3 DEF NotificationsInv, InsertsAlone

\* A worker that goes on with what it inserted, or rolls it back.
LEMMA InsertingNothing ==
  ASSUME WorkerInv, NotificationsInv, NEW w \in Workers, NEW state,
         worker' = [worker EXCEPT ![w] = state], UNCHANGED <<unread, overlapped>>,
         state.inserted \in {Nothing, worker[w].inserted},
         state.step # "inserted" => state.inserted = Nothing
  PROVE  NotificationsInv'
<1>1. \A v \in Workers : worker'[v] = IF v = w THEN state ELSE worker[v]
  BY DEF WorkerInv, WorkerTypeOK
<1>2. \A key \in Keys : Nothing[key] = 0 /\ Cardinality(RowsOf(key)) \in Nat
  BY RowsAreCounted DEF RowsOf, Nothing
<1>3. ASSUME NEW v \in Workers, NEW key \in Keys
      PROVE  worker'[v].inserted[key] \in {0, worker[v].inserted[key]}
  BY <1>1, <1>2
<1>4. \A v \in Workers, key \in Keys : worker'[v].inserted[key] <= Cardinality(RowsOf(key))
  BY <1>2, <1>3 DEF NotificationsInv
<1>5. ASSUME NEW key \in Keys \ overlapped PROVE InsertsAlone(key)'
  BY <1>3 DEF NotificationsInv, InsertsAlone
<1>6. \A v \in Workers : worker'[v].step # "inserted" => worker'[v].inserted = Nothing
  BY <1>1 DEF NotificationsInv
<1> QED
  BY <1>4, <1>5, <1>6 DEF NotificationsInv, RowsOf, Keys, Nothing

\* Whatever a worker does but insert and commit what it inserted.
LEMMA OthersInsertNothing ==
  ASSUME WorkerInv, NotificationsInv, NEW w \in Workers,
         Claim(w) \/ CommitClaim(w) \/ Stop(w) \/ Start(w) \/ Fail(w) \/ Signal(w) \/ Crash(w)
  PROVE  NotificationsInv'
<1>1. worker[w] \in Cycling
  BY DEF WorkerInv, WorkerTypeOK
<1>2. \A step \in {"claim", "down"} : Fresh(step).inserted = Nothing
  BY DEF Fresh
<1>3. CASE Claim(w)
  <2> DEFINE state == [worker[w] EXCEPT !.step = "claimed", !.claimed = FirstOf(Pending \ Locked)]
  <2>1. worker' = [worker EXCEPT ![w] = state]
    BY <1>3 DEF Claim
  <2>2. state.inserted = worker[w].inserted /\ state.inserted = Nothing
    BY <1>1, <1>3 DEF Claim, Cycling, NotificationsInv
  <2> HIDE DEF state
  <2> QED
    BY <1>3, <2>1, <2>2, InsertingNothing DEF Claim
<1>4. CASE CommitClaim(w)
  <2> DEFINE state == [worker[w] EXCEPT !.step = "generate", !.claimed = {}]
  <2>1. worker' = [worker EXCEPT ![w] = state]
    BY <1>4 DEF CommitClaim
  <2>2. state.inserted = worker[w].inserted /\ state.inserted = Nothing
    BY <1>1, <1>4 DEF CommitClaim, Cycling, NotificationsInv
  <2> HIDE DEF state
  <2> QED
    BY <1>4, <2>1, <2>2, InsertingNothing DEF CommitClaim
<1>5. CASE Stop(w) \/ Crash(w)
  BY <1>2, <1>5, InsertingNothing DEF Stop, Crash, Interrupt
<1>6. CASE Start(w)
  BY <1>2, <1>6, InsertingNothing DEF Start
<1>7. CASE Fail(w)
  <2> DEFINE state == [Fresh("claim") EXCEPT !.stopping = worker[w].stopping]
  <2>1. state.inserted = Nothing
    BY DEF Fresh
  <2> HIDE DEF state
  <2>2. worker' = [worker EXCEPT ![w] = state] /\ UNCHANGED <<unread, overlapped>>
    BY <1>7 DEF Fail, Interrupt, state
  <2> QED
    BY <2>1, <2>2, InsertingNothing
<1>8. CASE Signal(w)
  <2> DEFINE state == [worker[w] EXCEPT !.stopping = TRUE]
  <2>1. state.inserted = worker[w].inserted /\ state.step = worker[w].step
    BY <1>1 DEF Cycling
  <2> HIDE DEF state
  <2>2. worker' = [worker EXCEPT ![w] = state] /\ UNCHANGED <<unread, overlapped>>
    BY <1>8 DEF Signal, Interrupt, state
  <2> QED
    BY <2>1, <2>2, InsertingNothing DEF NotificationsInv
<1> QED
  BY <1>3, <1>4, <1>5, <1>6, <1>7, <1>8

\* Whoever inserts has found nothing unread; where another one has inserted and not
\* committed, the two overlap.
LEMMA InsertingKeeps ==
  ASSUME WorkerInv, NotificationsInv, NEW w \in Workers, Generate(w)
  PROVE  NotificationsInv'
<1> DEFINE missing == [key \in Keys |-> MissingFor(key)]
           state == [worker[w] EXCEPT !.step = "inserted", !.inserted = missing]
<1>1. /\ worker' = [worker EXCEPT ![w] = state] /\ unread' = unread
      /\ overlapped' = overlapped \cup
           {key \in Keys : missing[key] > 0 /\ \E v \in Workers : worker[v].inserted[key] > 0}
  BY DEF Generate
<1>2. ASSUME NEW key \in Keys
      PROVE  /\ missing[key] \in Nat
             /\ missing[key] <= Cardinality(RowsOf(key))
             /\ missing[key] > 0 => unread[key] = 0
  <2>1. StandingFor(key) \subseteq RowsOf(key)
    BY DEF StandingFor, RowsOf, WorkerInv, WorkerTypeOK
  <2>2. /\ Cardinality(RowsOf(key)) \in Nat /\ Cardinality(StandingFor(key)) \in Nat
        /\ Cardinality(StandingFor(key)) <= Cardinality(RowsOf(key))
    BY <2>1, RowsAreCounted DEF RowsOf
  <2> QED
    BY <2>2 DEF MissingFor, NotificationsInv
<1>3. state.step = "inserted" /\ state.inserted = missing
  <2>1. worker[w] \in Cycling
    BY DEF WorkerInv, WorkerTypeOK
  <2> QED
    BY <2>1 DEF Cycling
<1> HIDE DEF missing, state
<1>4. \A v \in Workers : worker'[v] = IF v = w THEN state ELSE worker[v]
  BY <1>1 DEF WorkerInv, WorkerTypeOK
<1>5. \A v \in Workers, key \in Keys :
        worker'[v].inserted[key] = IF v = w THEN missing[key] ELSE worker[v].inserted[key]
  BY <1>3, <1>4
<1>6. \A v \in Workers : worker'[v].step # "inserted" => worker'[v].inserted = Nothing
  BY <1>3, <1>4 DEF NotificationsInv
<1>7. \A v \in Workers, key \in Keys : worker'[v].inserted[key] <= Cardinality(RowsOf(key))
  BY <1>2, <1>5 DEF NotificationsInv
<1>8. ASSUME NEW key \in Keys \ overlapped'
      PROVE  unread'[key] <= Cardinality(RowsOf(key)) /\ InsertsAlone(key)'
  <2>1. key \in Keys \ overlapped
    BY <1>1
  <2>2. CASE missing[key] > 0
    <3>1. \A v \in Workers : ~(worker[v].inserted[key] > 0)
      BY <1>1, <2>2
    <3> QED
      BY <1>1, <1>2, <1>5, <2>1, <2>2, <3>1 DEF InsertsAlone, NotificationsInv
  <2>3. CASE ~(missing[key] > 0)
    BY <1>1, <1>5, <2>1, <2>3 DEF InsertsAlone, NotificationsInv
  <2> QED
    BY <2>2, <2>3
<1> QED
  BY <1>1, <1>6, <1>7, <1>8 DEF NotificationsInv, RowsOf, Keys, Nothing

\* What was inserted alone adds to nothing.
LEMMA CommittingInsertionsKeeps ==
  ASSUME WorkerInv, NotificationsInv, NEW w \in Workers, CommitGenerate(w)
  PROVE  NotificationsInv'
<1> DEFINE state == [worker[w] EXCEPT !.step = "claim", !.inserted = Nothing]
<1>1. /\ worker' = [worker EXCEPT ![w] = state] /\ overlapped' = overlapped
      /\ unread' = [key \in Keys |-> unread[key] + worker[w].inserted[key]]
  BY DEF CommitGenerate
<1>2. state.step = "claim" /\ state.inserted = Nothing
  <2>1. worker[w] \in Cycling
    BY DEF WorkerInv, WorkerTypeOK
  <2> QED
    BY <2>1 DEF Cycling
<1> HIDE DEF state
<1>3. \A v \in Workers : worker'[v] = IF v = w THEN state ELSE worker[v]
  BY <1>1 DEF WorkerInv, WorkerTypeOK
<1>4. \A key \in Keys : Nothing[key] = 0 /\ Cardinality(RowsOf(key)) \in Nat
  BY RowsAreCounted DEF RowsOf, Nothing
<1>5. \A v \in Workers, key \in Keys :
        worker'[v].inserted[key] = IF v = w THEN 0 ELSE worker[v].inserted[key]
  BY <1>2, <1>3, <1>4
<1>6. \A v \in Workers, key \in Keys : worker[v].inserted[key] \in Nat
  BY InsertedAreCounted
<1>7. unread' \in [Keys -> Nat]
  BY <1>1, <1>6 DEF NotificationsInv
<1>8. \A v \in Workers : worker'[v].step # "inserted" => worker'[v].inserted = Nothing
  BY <1>2, <1>3 DEF NotificationsInv
<1>9. \A v \in Workers, key \in Keys : worker'[v].inserted[key] <= Cardinality(RowsOf(key))
  BY <1>4, <1>5 DEF NotificationsInv
<1>10. ASSUME NEW key \in Keys \ overlapped
       PROVE  unread'[key] <= Cardinality(RowsOf(key)) /\ InsertsAlone(key)'
  <2>1. unread'[key] = unread[key] + worker[w].inserted[key] /\ unread[key] \in Nat
    BY <1>1 DEF NotificationsInv
  <2>2. CASE worker[w].inserted[key] > 0
    <3>1. unread[key] = 0 /\ \A v \in Workers : worker[v].inserted[key] > 0 => v = w
      BY <2>2 DEF NotificationsInv, InsertsAlone
    <3>2. unread'[key] <= Cardinality(RowsOf(key))
      BY <1>4, <1>6, <2>1, <3>1 DEF NotificationsInv
    <3>3. InsertsAlone(key)'
      BY <1>5, <3>1 DEF InsertsAlone
    <3> QED
      BY <3>2, <3>3
  <2>3. CASE ~(worker[w].inserted[key] > 0)
    <3>1. unread'[key] = unread[key]
      BY <1>6, <2>1, <2>3
    <3> QED
      BY <1>5, <3>1 DEF NotificationsInv, InsertsAlone
  <2> QED
    BY <2>2, <2>3
<1> QED
  BY <1>1, <1>7, <1>8, <1>9, <1>10 DEF NotificationsInv, RowsOf, Keys, Nothing

\* Reading takes away, and nothing else touches the notifications.
LEMMA ReadingKeeps ==
  ASSUME NotificationsInv,
         \/ \E e \in Events : AppendEvent(e)
         \/ \E row \in Rows : Arise(row) \/ Pass(row)
         \/ \E key \in Keys : Read(key)
         \/ \E m \in Modules : Switch(m)
         \/ UNCHANGED workerVars
  PROVE  NotificationsInv'
<1>1. worker' = worker /\ overlapped' = overlapped
  BY DEF AppendEvent, Arise, Pass, Read, Switch, workerVars
<1>2. unread' \in [Keys -> Nat] /\ \A key \in Keys : unread'[key] <= unread[key]
  <2>1. CASE \E k \in Keys : Read(k)
    <3>1. PICK k \in Keys : unread[k] > 0 /\ unread' = [unread EXCEPT ![k] = @ - 1]
      BY <2>1 DEF Read
    <3> QED
      BY <3>1 DEF NotificationsInv
  <2>2. CASE UNCHANGED unread
    BY <2>2 DEF NotificationsInv
  <2> QED
    BY <2>1, <2>2 DEF AppendEvent, Arise, Pass, Switch, workerVars
<1>3. \A key \in Keys : Cardinality(RowsOf(key)) \in Nat
  BY RowsAreCounted DEF RowsOf
<1>4. ASSUME NEW key \in Keys \ overlapped
      PROVE  unread'[key] <= Cardinality(RowsOf(key)) /\ InsertsAlone(key)'
  BY <1>1, <1>2, <1>3 DEF NotificationsInv, InsertsAlone
<1> QED
  BY <1>1, <1>2, <1>4 DEF NotificationsInv, RowsOf, Keys, Nothing

-----------------------------------------------------------------------------
(* Where two overlapped, each of them adds its own once.                   *)

\* The workers that have inserted notifications of a key and not committed them.
Busy(key) == {w \in Workers : worker[w].inserted[key] > 0}

\* What is unread was committed by the workers that are not busy with the key.
CopiesInv ==
  \A key \in Keys :
    unread[key] <= Cardinality(RowsOf(key)) * (Cardinality(Workers) - Cardinality(Busy(key)))

\* The busy ones are some of the workers.
LEMMA BusyAreCounted ==
  ASSUME NEW S, S \subseteq Workers
  PROVE  /\ IsFiniteSet(S) /\ Cardinality(S) \in Nat /\ Cardinality(Workers) \in Nat
         /\ Cardinality(S) <= Cardinality(Workers)
         /\ \A T \in SUBSET S : Cardinality(T) \in Nat /\ Cardinality(T) <= Cardinality(S)
<1>1. IsFiniteSet(S) /\ Cardinality(S) <= Cardinality(Workers)
  BY WorkerAssumption, FS_Subset
<1>2. ASSUME NEW T \in SUBSET S
      PROVE  Cardinality(T) \in Nat /\ Cardinality(T) <= Cardinality(S)
  BY <1>1, <1>2, FS_Subset, FS_CardinalityType
<1> QED
  BY <1>1, <1>2, WorkerAssumption, FS_CardinalityType

\* A product grows with its factor.
LEMMA ProductGrows ==
  ASSUME NEW n \in Nat, NEW i \in Nat, NEW j \in Nat, i <= j
  PROVE  n * i \in Nat /\ n * i <= n * j
<1>1. PICK d \in Nat : j = i + d
  <2>1. j - i \in Nat /\ j = i + (j - i)
    OBVIOUS
  <2> QED
    BY <2>1
<1>2. n * j = n * i + n * d
  BY <1>1
<1>3. n * i \in Nat /\ n * d \in Nat
  BY <1>1
<1> QED
  BY <1>2, <1>3

\* Fewer are busy and no more is unread.
LEMMA FewerBusyKeeps ==
  ASSUME NotificationsInv, CopiesInv, NEW key \in Keys, Busy(key)' \subseteq Busy(key),
         unread'[key] \in Nat, unread'[key] <= unread[key]
  PROVE  unread'[key]
           <= Cardinality(RowsOf(key)) * (Cardinality(Workers) - Cardinality(Busy(key)'))
<1> DEFINE r == Cardinality(RowsOf(key))
           all == Cardinality(Workers)
           b == Cardinality(Busy(key))
           c == Cardinality(Busy(key)')
<1>1. r \in Nat
  BY RowsAreCounted DEF RowsOf
<1>2. b \in Nat /\ c \in Nat /\ all \in Nat /\ b <= all /\ c <= b
  <2>1. Busy(key) \subseteq Workers
    BY DEF Busy
  <2> QED
    BY <2>1, BusyAreCounted
<1>3. unread[key] <= r * (all - b) /\ unread[key] \in Nat
  BY DEF CopiesInv, NotificationsInv
<1> HIDE DEF r, all, b, c
<1>4. r * (all - b) <= r * (all - c) /\ r * (all - b) \in Nat /\ r * (all - c) \in Nat
  BY <1>1, <1>2, ProductGrows
<1>5. unread'[key] <= r * (all - c)
  BY <1>3, <1>4
<1> QED
  BY <1>5 DEF r, all, c

\* Whoever inserts has found nothing unread.
LEMMA InsertingKeepsCopies ==
  ASSUME WorkerInv, NotificationsInv, CopiesInv, NEW w \in Workers, Generate(w)
  PROVE  CopiesInv'
<1> DEFINE missing == [key \in Keys |-> MissingFor(key)]
           state == [worker[w] EXCEPT !.step = "inserted", !.inserted = missing]
<1>1. worker' = [worker EXCEPT ![w] = state] /\ unread' = unread
  BY DEF Generate
<1>2. state.inserted = missing
  <2>1. worker[w] \in Cycling
    BY DEF WorkerInv, WorkerTypeOK
  <2> QED
    BY <2>1 DEF Cycling
<1>3. \A key \in Keys : missing[key] = MissingFor(key)
  OBVIOUS
<1> HIDE DEF missing, state
<1>4. \A v \in Workers, key \in Keys :
        worker'[v].inserted[key] = IF v = w THEN missing[key] ELSE worker[v].inserted[key]
  BY <1>1, <1>2 DEF WorkerInv, WorkerTypeOK
<1>5. SUFFICES ASSUME NEW key \in Keys
               PROVE  unread'[key] <=
                        Cardinality(RowsOf(key)) * (Cardinality(Workers) - Cardinality(Busy(key)'))
  BY DEF CopiesInv, Keys, RowsOf
<1>6. unread[key] \in Nat /\ unread'[key] = unread[key]
  BY <1>1 DEF NotificationsInv
<1>7. CASE unread[key] > 0
  <2>1. missing[key] = 0
    BY <1>3, <1>7 DEF MissingFor
  <2>2. Busy(key)' \subseteq Busy(key)
    BY <1>4, <2>1 DEF Busy
  <2> QED
    BY <1>6, <2>2, FewerBusyKeeps
<1>8. CASE unread[key] = 0
  <2>1. Busy(key)' \subseteq Workers
    BY DEF Busy
  <2>2. Cardinality(Workers) - Cardinality(Busy(key)') \in Nat
    BY <2>1, BusyAreCounted
  <2>3. Cardinality(RowsOf(key)) \in Nat
    BY RowsAreCounted DEF RowsOf
  <2> QED
    BY <1>6, <1>8, <2>2, <2>3, ProductGrows
<1> QED
  BY <1>6, <1>7, <1>8

\* Whoever commits is not busy any more.
LEMMA CommittingKeepsCopies ==
  ASSUME WorkerInv, NotificationsInv, CopiesInv, NEW w \in Workers, CommitGenerate(w)
  PROVE  CopiesInv'
<1> DEFINE state == [worker[w] EXCEPT !.step = "claim", !.inserted = Nothing]
<1>1. /\ worker' = [worker EXCEPT ![w] = state]
      /\ unread' = [key \in Keys |-> unread[key] + worker[w].inserted[key]]
  BY DEF CommitGenerate
<1>2. state.inserted = Nothing
  <2>1. worker[w] \in Cycling
    BY DEF WorkerInv, WorkerTypeOK
  <2> QED
    BY <2>1 DEF Cycling
<1> HIDE DEF state
<1>3. \A v \in Workers, key \in Keys :
        worker'[v].inserted[key] = IF v = w THEN 0 ELSE worker[v].inserted[key]
  BY <1>1, <1>2 DEF WorkerInv, WorkerTypeOK, Nothing
<1>4. SUFFICES ASSUME NEW key \in Keys
               PROVE  unread'[key] <=
                        Cardinality(RowsOf(key)) * (Cardinality(Workers) - Cardinality(Busy(key)'))
  BY DEF CopiesInv, Keys, RowsOf
<1>5. /\ unread[key] \in Nat /\ worker[w].inserted[key] \in Nat
      /\ unread'[key] = unread[key] + worker[w].inserted[key]
  BY <1>1, InsertedAreCounted DEF NotificationsInv
<1>6. Busy(key)' = Busy(key) \ {w}
  BY <1>3 DEF Busy
<1>7. CASE worker[w].inserted[key] = 0
  BY <1>5, <1>6, <1>7, FewerBusyKeeps
<1>8. CASE worker[w].inserted[key] > 0
  <2> DEFINE r == Cardinality(RowsOf(key))
             all == Cardinality(Workers)
             b == Cardinality(Busy(key))
             c == Cardinality(Busy(key)')
  <2>1. w \in Busy(key) /\ Busy(key) \subseteq Workers
    BY <1>8 DEF Busy
  <2>2. b \in Nat /\ all \in Nat /\ b <= all /\ IsFiniteSet(Busy(key))
    BY <2>1, BusyAreCounted
  <2>3. c = b - 1
    BY <1>6, <2>1, <2>2, FS_RemoveElement
  <2>4. r \in Nat
    BY RowsAreCounted DEF RowsOf
  <2>5. unread[key] <= r * (all - b) /\ worker[w].inserted[key] <= r
    BY DEF CopiesInv, NotificationsInv
  <2> HIDE DEF r, all, b, c
  <2>6. r * (all - c) = r * (all - b) + r /\ r * (all - b) \in Int
    BY <2>2, <2>3, <2>4
  <2>7. unread'[key] <= r * (all - c)
    BY <1>5, <2>4, <2>5, <2>6
  <2> QED
    BY <2>7 DEF r, all, c
<1> QED
  BY <1>5, <1>7, <1>8

\* A worker that goes on with what it inserted, or rolls it back.
LEMMA NoMoreBusy ==
  ASSUME WorkerInv, NotificationsInv, CopiesInv, NEW w \in Workers, NEW state,
         worker' = [worker EXCEPT ![w] = state], UNCHANGED unread,
         state.inserted \in {Nothing, worker[w].inserted}
  PROVE  CopiesInv'
<1>1. SUFFICES ASSUME NEW key \in Keys
               PROVE  unread'[key] <=
                        Cardinality(RowsOf(key)) * (Cardinality(Workers) - Cardinality(Busy(key)'))
  BY DEF CopiesInv, Keys, RowsOf
<1>2. unread'[key] \in Nat /\ unread'[key] <= unread[key]
  BY DEF NotificationsInv
<1>3. Nothing[key] = 0
  BY DEF Nothing
<1>4. \A v \in Workers : worker'[v].inserted[key] \in {0, worker[v].inserted[key]}
  BY <1>3 DEF WorkerInv, WorkerTypeOK
<1>5. Busy(key)' \subseteq Busy(key)
  BY <1>4 DEF Busy
<1> QED
  BY <1>2, <1>5, FewerBusyKeeps

\* Whatever a worker does but insert and commit what it inserted.
LEMMA OthersKeepCopies ==
  ASSUME WorkerInv, NotificationsInv, CopiesInv, NEW w \in Workers,
         Claim(w) \/ CommitClaim(w) \/ Stop(w) \/ Start(w) \/ Fail(w) \/ Signal(w) \/ Crash(w)
  PROVE  CopiesInv'
<1>1. worker[w] \in Cycling
  BY DEF WorkerInv, WorkerTypeOK
<1>2. \A step \in {"claim", "down"} : Fresh(step).inserted = Nothing
  BY DEF Fresh
<1>3. CASE Claim(w)
  <2> DEFINE state == [worker[w] EXCEPT !.step = "claimed", !.claimed = FirstOf(Pending \ Locked)]
  <2>1. state.inserted = worker[w].inserted
    BY <1>1 DEF Cycling
  <2>2. worker' = [worker EXCEPT ![w] = state] /\ UNCHANGED unread
    BY <1>3 DEF Claim
  <2> HIDE DEF state
  <2> QED
    BY <2>1, <2>2, NoMoreBusy
<1>4. CASE CommitClaim(w)
  <2> DEFINE state == [worker[w] EXCEPT !.step = "generate", !.claimed = {}]
  <2>1. state.inserted = worker[w].inserted
    BY <1>1 DEF Cycling
  <2>2. worker' = [worker EXCEPT ![w] = state] /\ UNCHANGED unread
    BY <1>4 DEF CommitClaim
  <2> HIDE DEF state
  <2> QED
    BY <2>1, <2>2, NoMoreBusy
<1>5. CASE Stop(w) \/ Crash(w) \/ Start(w)
  BY <1>2, <1>5, NoMoreBusy DEF Stop, Crash, Start, Interrupt
<1>6. CASE Fail(w)
  <2> DEFINE state == [Fresh("claim") EXCEPT !.stopping = worker[w].stopping]
  <2>1. state.inserted = Nothing
    BY DEF Fresh
  <2>2. worker' = [worker EXCEPT ![w] = state] /\ UNCHANGED unread
    BY <1>6 DEF Fail, Interrupt
  <2> HIDE DEF state
  <2> QED
    BY <2>1, <2>2, NoMoreBusy
<1>7. CASE Signal(w)
  <2> DEFINE state == [worker[w] EXCEPT !.stopping = TRUE]
  <2>1. state.inserted = worker[w].inserted
    BY <1>1 DEF Cycling
  <2>2. worker' = [worker EXCEPT ![w] = state] /\ UNCHANGED unread
    BY <1>7 DEF Signal, Interrupt
  <2> HIDE DEF state
  <2> QED
    BY <2>1, <2>2, NoMoreBusy
<1> QED
  BY <1>3, <1>4, <1>5, <1>6, <1>7

\* Reading takes away, and nothing else touches what is unread.
LEMMA ReadingKeepsCopies ==
  ASSUME NotificationsInv, CopiesInv,
         \/ \E e \in Events : AppendEvent(e)
         \/ \E row \in Rows : Arise(row) \/ Pass(row)
         \/ \E key \in Keys : Read(key)
         \/ \E m \in Modules : Switch(m)
         \/ UNCHANGED workerVars
  PROVE  CopiesInv'
<1>1. worker' = worker
  BY DEF AppendEvent, Arise, Pass, Read, Switch, workerVars
<1>2. \A key \in Keys : unread'[key] \in Nat /\ unread'[key] <= unread[key]
  <2>1. CASE \E k \in Keys : Read(k)
    <3>1. PICK k \in Keys : unread[k] > 0 /\ unread' = [unread EXCEPT ![k] = @ - 1]
      BY <2>1 DEF Read
    <3> QED
      BY <3>1 DEF NotificationsInv
  <2>2. CASE UNCHANGED unread
    BY <2>2 DEF NotificationsInv
  <2> QED
    BY <2>1, <2>2 DEF AppendEvent, Arise, Pass, Switch, workerVars
<1>3. \A key \in Keys : Busy(key)' = Busy(key)
  BY <1>1 DEF Busy
<1> QED
  BY <1>2, <1>3, FewerBusyKeeps DEF CopiesInv, Keys, RowsOf

\* No rows, nobody busy.
LEMMA CopiesStart == WorkerInit => CopiesInv
<1> SUFFICES ASSUME WorkerInit, NEW key \in Keys
             PROVE  unread[key] <=
                      Cardinality(RowsOf(key)) * (Cardinality(Workers) - Cardinality(Busy(key)))
  BY DEF CopiesInv
<1>1. unread[key] = 0
  BY DEF WorkerInit, Nothing
<1>2. Busy(key) \subseteq Workers
  BY DEF Busy
<1>3. Cardinality(Workers) - Cardinality(Busy(key)) \in Nat
  BY <1>2, BusyAreCounted
<1>4. Cardinality(RowsOf(key)) \in Nat
  BY RowsAreCounted DEF RowsOf
<1> QED
  BY <1>1, <1>3, <1>4, ProductGrows

\* Not more than one set of notifications per worker.
LEMMA CopiesAreFew ==
  ASSUME CopiesInv, NotificationsInv, NEW key \in Keys
  PROVE  unread[key] <= Cardinality(RowsOf(key)) * Cardinality(Workers)
<1> DEFINE r == Cardinality(RowsOf(key))
           all == Cardinality(Workers)
           b == Cardinality(Busy(key))
<1>1. r \in Nat
  BY RowsAreCounted DEF RowsOf
<1>2. b \in Nat /\ all \in Nat /\ b <= all
  <2>1. Busy(key) \subseteq Workers
    BY DEF Busy
  <2> QED
    BY <2>1, BusyAreCounted
<1>3. unread[key] <= r * (all - b) /\ unread[key] \in Nat
  BY DEF CopiesInv, NotificationsInv
<1> HIDE DEF r, all, b
<1>4. r * (all - b) <= r * all /\ r * (all - b) \in Nat /\ r * all \in Nat
  BY <1>1, <1>2, ProductGrows
<1>5. unread[key] <= r * all
  BY <1>3, <1>4
<1> QED
  BY <1>5 DEF r, all

\* However many workers look for situations, and whatever fails between the insertion of
\* their notifications and its commit, no type and entity has more unread notifications than
\* rows that call for one, unless two workers of main.ts inserted at the same time; and then
\* still no more than one set per worker.
THEOREM NotificationsStayFew == WorkerSpec => []NotificationsAreFew
<1>1. WorkerInv /\ NotificationsInv /\ [WorkerNext]_workerVars => NotificationsInv'
  BY OthersInsertNothing, InsertingKeeps, CommittingInsertionsKeeps, ReadingKeeps
  DEF WorkerNext, Cycle
<1>2. WorkerInv /\ NotificationsInv /\ CopiesInv /\ [WorkerNext]_workerVars => CopiesInv'
  BY OthersKeepCopies, InsertingKeepsCopies, CommittingKeepsCopies, ReadingKeepsCopies
  DEF WorkerNext, Cycle
<1>3. WorkerInv /\ [WorkerNext]_workerVars => WorkerInv'
  BY StepsKeepPromise
<1>4. NotificationsInv /\ CopiesInv => NotificationsAreFew
  BY CopiesAreFew DEF NotificationsInv, NotificationsAreFew
<1> QED
  BY <1>1, <1>2, <1>3, <1>4, WorkerStarts, NotificationsStart, CopiesStart, PTL DEF WorkerSpec
=============================================================================
