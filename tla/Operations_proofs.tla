-------------------------- MODULE Operations_proofs --------------------------
(***************************************************************************)
(* Theorems of Operations, area by area, for any number of records, pages, *)
(* requests, users and companies.                                          *)
(***************************************************************************)
EXTENDS Operations, Sums_proofs, FiniteSetTheorems, SequenceTheorems, TLAPS

\* A behaviour is about one area, so that each area takes its own steps or none.
LEMMA AreaSteps ==
  ASSUME [OperationsNext]_operationsVars
  PROVE  /\ [WasteNext]_wasteVars
         /\ [GovernanceNext]_governanceVars
         /\ OcrNext \/ UNCHANGED ocrVars
         /\ AssistantNext \/ UNCHANGED assistantVars
         /\ [CrmNext]_crmVars
         /\ [LifecyclesNext]_record
         /\ [AssetsNext]_assetsVars
         /\ [RecordsNext]_recordsVars
         /\ [CompanyNext]_companyVars
         /\ [DemoNext]_demoVars
         /\ [RateLimitNext]_rateVars
  BY DEF OperationsNext, operationsVars, businessVars, sideVars

-----------------------------------------------------------------------------
(* Waste: the history of a record is unbroken.                             *)

WasteEvent == [from : Nat, to : Nat, shown : Nat]
WasteRow == [phase : Nat, version : Nat, events : Seq(WasteEvent), exceptions : Nat]
WastePage == [seen : [WasteRecords -> [phase : Nat, version : Nat]], open : WasteRecords \cup {None},
         forms : SUBSET {"CREATE", "ADVANCE", "EXCEPTION"}, waits : Requests \cup {None}]

AskedAdvance == [step : {"sent", "locked"}, op : {"ADVANCE"}, record : WasteRecords,
                 target : Nat, version : Nat]
AskedException == [step : {"sent"}, op : {"EXCEPTION"}, record : WasteRecords]
Committed == [step : {"committed"}, op : {"CREATE", "ADVANCE", "EXCEPTION"}, record : WasteRecords]
WasteRequest == {Free, [step |-> "sent", op |-> "CREATE"]}
           \cup AskedAdvance \cup AskedException \cup Committed

WasteTypeOK ==
  /\ rows \in [WasteRecords -> WasteRow]
  /\ page \in [Pages -> WastePage]
  /\ requests \in [Requests -> WasteRequest]

\* The one history a record of a version can have: phases are passed one by one from
\* the generation on, so that phase, version and number of events are one number.
Chronicle(row) ==
  /\ row.version = Len(row.events)
  /\ row.phase = row.version
  /\ \A n \in 1 .. Len(row.events) :
       row.events[n] = [from |-> n - 1, to |-> n, shown |-> n - 1]

HistoriesRight ==
  \A r \in WasteRecords : Chronicle(rows[r]) /\ (rows[r] # NoRow => rows[r].version > 0)

Shows(shown, there) ==
  /\ shown.open # None => shown.open \in there
  /\ \A r \in WasteRecords : shown.seen[r] # Unseen => r \in there

Names(request, there) ==
  request \in AskedAdvance \cup AskedException \cup Committed => request.record \in there

\* Whatever a page shows or asks about exists.
KnownExist ==
  /\ \A p \in Pages : Shows(page[p], Made)
  /\ \A q \in Requests : Names(requests[q], Made)

\* What a request read under the lock of a record is what the record still is.
LockedIsRead ==
  /\ \A q \in Requests :
       requests[q].step = "locked" => MayAdvance(rows[requests[q].record], requests[q])
  /\ \A q, o \in Requests :
       /\ requests[q].step = "locked" /\ requests[o].step = "locked"
       /\ requests[q].record = requests[o].record
       => q = o

WasteInv == WasteTypeOK /\ HistoriesRight /\ KnownExist /\ LockedIsRead

\* What an exception leaves of a row.
LEMMA RowWithException ==
  ASSUME NEW row \in WasteRow
  PROVE  LET new == [row EXCEPT !.exceptions = @ + 1]
         IN  /\ new \in WasteRow
             /\ new.phase = row.phase /\ new.version = row.version /\ new.events = row.events
BY DEF WasteRow

\* A request has one shape by its step.
LEMMA RequestShapes ==
  ASSUME NEW request \in WasteRequest
  PROVE  /\ request.step = "locked" => request \in AskedAdvance
         /\ request.step = "committed" => request \in Committed
         /\ request.step = "sent" /\ request.op = "ADVANCE" => request \in AskedAdvance
         /\ request.step = "sent" /\ request.op = "EXCEPTION" => request \in AskedException
BY DEF WasteRequest, Free, AskedAdvance, AskedException, Committed

LEMMA WasteStarts == WasteInit => WasteInv
<1> SUFFICES ASSUME WasteInit PROVE WasteInv
  OBVIOUS
<1>1. WasteTypeOK
  BY DEF WasteInit, WasteTypeOK, WasteRow, WastePage, WasteRequest, NoRow, Unseen
<1>2. HistoriesRight
  BY DEF WasteInit, HistoriesRight, Chronicle, NoRow
<1>3. KnownExist
  BY DEF WasteInit, KnownExist, Shows, Names, Free, AskedAdvance, AskedException, Committed
<1>4. LockedIsRead
  BY DEF WasteInit, LockedIsRead, Free
<1> QED
  BY <1>1, <1>2, <1>3, <1>4 DEF WasteInv

\* The steps of a page that ask for nothing leave, of what it shows, what exists.
LEMMA PageKeeps ==
  ASSUME WasteInv, NEW p \in Pages,
         \/ \E r \in WasteRecords : Fetch(p, r) \/ OpenRecord(p, r)
         \/ CloseRecord(p)
         \/ \E op \in {"CREATE", "EXCEPTION"} : Toggle(p, op)
  PROVE  WasteInv'
<1>1. rows' = rows /\ requests' = requests /\ Made' = Made
  BY DEF Fetch, OpenRecord, CloseRecord, Toggle, Made
<1>2. page[p] \in WastePage /\ page \in [Pages -> WastePage] /\ Shows(page[p], Made)
  BY DEF WasteInv, WasteTypeOK, KnownExist
<1> DEFINE Redrawn == \E new \in WastePage : page' = [page EXCEPT ![p] = new] /\ Shows(new, Made)
<1>3. Redrawn
  <2>1. ASSUME NEW r \in WasteRecords, Fetch(p, r) PROVE Redrawn
    <3> DEFINE new == [page[p] EXCEPT !.seen[r] = Fetched(r)]
    <3>1. Fetched(r) \in [phase : Nat, version : Nat]
      BY DEF WasteInv, WasteTypeOK, WasteRow, Fetched
    <3>2. new \in WastePage /\ Shows(new, Made)
      BY <1>2, <2>1, <3>1 DEF WastePage, Shows, Fetch
    <3>3. page' = [page EXCEPT ![p] = new]
      BY <2>1 DEF Fetch
    <3> QED
      BY <3>2, <3>3
  <2>2. ASSUME NEW r \in WasteRecords, OpenRecord(p, r) PROVE Redrawn
    <3> DEFINE new == [page[p] EXCEPT !.open = r]
    <3>1. new \in WastePage /\ Shows(new, Made)
      BY <1>2, <2>2 DEF WastePage, Shows, OpenRecord
    <3> QED
      BY <2>2, <3>1 DEF OpenRecord
  <2>3. ASSUME CloseRecord(p) PROVE Redrawn
    <3> DEFINE new == [page[p] EXCEPT !.open = None]
    <3>1. new \in WastePage /\ Shows(new, Made)
      BY <1>2 DEF WastePage, Shows
    <3> QED
      BY <2>3, <3>1 DEF CloseRecord
  <2>4. ASSUME NEW op \in {"CREATE", "EXCEPTION"}, Toggle(p, op) PROVE Redrawn
    <3> DEFINE new == [page[p] EXCEPT !.forms = IF op \in @ THEN @ \ {op} ELSE @ \cup {op}]
    <3>1. new \in WastePage /\ Shows(new, Made)
      BY <1>2 DEF WastePage, Shows
    <3> QED
      BY <2>4, <3>1 DEF Toggle
  <2> QED
    BY <2>1, <2>2, <2>3, <2>4
<1>4. page' \in [Pages -> WastePage] /\ \A o \in Pages : Shows(page'[o], Made)
  BY <1>2, <1>3 DEF WasteInv, KnownExist
<1>5. WasteTypeOK' /\ HistoriesRight'
  BY <1>1, <1>4 DEF WasteInv, WasteTypeOK, HistoriesRight
<1>6. KnownExist' /\ LockedIsRead'
  BY <1>1, <1>4 DEF WasteInv, KnownExist, LockedIsRead
<1> QED
  BY <1>5, <1>6 DEF WasteInv

\* A request that comes, ends or is answered changes no record.
LEMMA RequestKeeps ==
  ASSUME WasteInv, UNCHANGED rows,
         page' \in [Pages -> WastePage], \A p \in Pages : Shows(page'[p], Made),
         NEW q \in Requests, NEW new \in WasteRequest, new.step # "locked", Names(new, Made),
         requests' = [requests EXCEPT ![q] = new]
  PROVE  WasteInv'
<1>1. Made' = Made
  BY DEF Made
<1>2. /\ requests' \in [Requests -> WasteRequest]
      /\ \A o \in Requests : requests'[o] = IF o = q THEN new ELSE requests[o]
  BY DEF WasteInv, WasteTypeOK
<1>3. WasteTypeOK' /\ HistoriesRight'
  BY <1>2 DEF WasteInv, WasteTypeOK, HistoriesRight
<1>4. KnownExist'
  BY <1>1, <1>2 DEF WasteInv, KnownExist
<1>5. LockedIsRead'
  BY <1>2 DEF WasteInv, LockedIsRead
<1> QED
  BY <1>3, <1>4, <1>5 DEF WasteInv

\* A record is written by a request that ends with it, while no other has it locked.
LEMMA RecordKeeps ==
  ASSUME WasteInv, UNCHANGED page,
         NEW r \in WasteRecords, NEW row \in WasteRow, Chronicle(row), row.version > 0,
         NEW q \in Requests, NEW new \in WasteRequest, new.step # "locked",
         Names(new, Made \cup {r}),
         \A o \in Requests \ {q} : requests[o].step = "locked" => requests[o].record # r,
         rows' = [rows EXCEPT ![r] = row],
         requests' = [requests EXCEPT ![q] = new]
  PROVE  WasteInv'
<1>1. /\ rows' \in [WasteRecords -> WasteRow]
      /\ \A o \in WasteRecords : rows'[o] = IF o = r THEN row ELSE rows[o]
      /\ requests' \in [Requests -> WasteRequest]
      /\ \A o \in Requests : requests'[o] = IF o = q THEN new ELSE requests[o]
  BY DEF WasteInv, WasteTypeOK
<1>2. Made' = Made \cup {r}
  BY <1>1 DEF Made, NoRow
<1>3. WasteTypeOK' /\ HistoriesRight'
  BY <1>1 DEF WasteInv, WasteTypeOK, HistoriesRight
<1>4. KnownExist'
  BY <1>1, <1>2 DEF WasteInv, KnownExist, Shows, Names
<1>5. LockedIsRead'
  BY <1>1, RequestShapes DEF WasteInv, WasteTypeOK, LockedIsRead, AskedAdvance
<1> QED
  BY <1>3, <1>4, <1>5 DEF WasteInv

\* A page that submits a request about what it shows, or is answered, or loses the answer.
LEMMA AskingKeeps ==
  ASSUME WasteInv, NEW p \in Pages,
         SubmitRecord(p) \/ SubmitException(p) \/ SubmitAdvance(p) \/ Answer(p) \/ Lose(p)
  PROVE  WasteInv'
<1> USE DEF WasteInv, WasteTypeOK
<1>1. page[p] \in WastePage /\ Shows(page[p], Made) /\ \A o \in Pages : Shows(page[o], Made)
  BY DEF KnownExist
<1>2. ASSUME NEW request \in WasteRequest, request.step = "sent", request.step # "locked",
             Names(request, Made), Submit(p, request)
      PROVE  WasteInv'
  <2>1. PICK q \in Requests : /\ requests' = [requests EXCEPT ![q] = request]
                             /\ page' = [page EXCEPT ![p].waits = q]
    BY <1>2 DEF Submit
  <2>2. page' \in [Pages -> WastePage] /\ \A o \in Pages : Shows(page'[o], Made)
    BY <1>1, <2>1 DEF WastePage, Shows
  <2> QED
    BY <1>2, <2>1, <2>2, RequestKeeps DEF Submit
<1>3. CASE SubmitRecord(p)
  <2>1. /\ [step |-> "sent", op |-> "CREATE"] \in WasteRequest
        /\ Names([step |-> "sent", op |-> "CREATE"], Made)
    BY DEF WasteRequest, Names, AskedAdvance, AskedException, Committed
  <2> QED
    BY <1>2, <1>3, <2>1 DEF SubmitRecord
<1>4. CASE SubmitException(p)
  <2> DEFINE request == [step |-> "sent", op |-> "EXCEPTION", record |-> page[p].open]
  <2>1. page[p].open \in WasteRecords /\ page[p].open \in Made
    BY <1>1, <1>4 DEF SubmitException, WastePage, Shows
  <2>2. request \in WasteRequest /\ Names(request, Made)
    BY <2>1 DEF WasteRequest, Names, AskedException
  <2> QED
    BY <1>2, <1>4, <2>2 DEF SubmitException
<1>5. CASE SubmitAdvance(p)
  <2> DEFINE shown == page[p].seen[page[p].open]
             request == [step |-> "sent", op |-> "ADVANCE", record |-> page[p].open,
                         target |-> shown.phase + 1, version |-> shown.version]
  <2>1. page[p].open \in WasteRecords /\ page[p].open \in Made
    BY <1>1, <1>5 DEF SubmitAdvance, WastePage, Shows
  <2>2. shown \in [phase : Nat, version : Nat]
    BY <1>1, <2>1 DEF WastePage
  <2>3. request \in AskedAdvance
    BY <2>1, <2>2 DEF AskedAdvance
  <2>4. request \in WasteRequest /\ Names(request, Made)
    BY <2>1, <2>3 DEF WasteRequest, Names
  <2> QED
    BY <1>2, <1>5, <2>4 DEF SubmitAdvance
<1>6. Free \in WasteRequest /\ Free.step # "locked" /\ Names(Free, Made)
  BY DEF WasteRequest, Free, Names, AskedAdvance, AskedException, Committed
<1>7. CASE Answer(p)
  <2> DEFINE q == page[p].waits
             new == [page[p] EXCEPT
               !.waits = None,
               !.forms = @ \ {requests[q].op},
               !.open = IF requests[q].op = "CREATE" THEN requests[q].record ELSE @,
               !.seen = [r \in WasteRecords |-> Fetched(r)]]
  <2>1. q \in Requests /\ requests[q] \in WasteRequest /\ requests[q].step = "committed"
    BY <1>1, <1>7 DEF Answer, WastePage
  <2>2. requests[q] \in Committed
    BY <2>1, RequestShapes
  <2>3. requests[q].record \in WasteRecords /\ requests[q].record \in Made
    BY <2>1, <2>2 DEF KnownExist, Names, Committed
  <2>4. \A r \in WasteRecords : /\ Fetched(r) \in [phase : Nat, version : Nat]
                                /\ Fetched(r) # Unseen => r \in Made
    BY DEF Fetched, Unseen, WasteRow, Made, NoRow
  <2>5. new \in WastePage /\ Shows(new, Made)
    BY <1>1, <2>3, <2>4 DEF WastePage, Shows
  <2>6. page' = [page EXCEPT ![p] = new]
    BY <1>7 DEF Answer
  <2>7. page' \in [Pages -> WastePage] /\ \A o \in Pages : Shows(page'[o], Made)
    BY <1>1, <2>5, <2>6
  <2> QED
    BY <1>6, <1>7, <2>1, <2>7, RequestKeeps DEF Answer
<1>8. CASE Lose(p)
  <2> DEFINE q == page[p].waits
             new == IF requests[q].step = "committed" THEN Free ELSE requests[q]
  <2>1. q \in Requests /\ requests[q] \in WasteRequest /\ Names(requests[q], Made)
    BY <1>1, <1>8 DEF Lose, WastePage, KnownExist
  <2>2. page' \in [Pages -> WastePage] /\ \A o \in Pages : Shows(page'[o], Made)
    BY <1>1, <1>8 DEF Lose, WastePage, Shows
  <2>3. CASE requests[q].step = "locked"
    <3>1. requests' = requests /\ rows' = rows /\ Made' = Made
      BY <1>8, <2>1, <2>3 DEF Lose, Made
    <3> QED
      BY <2>2, <3>1 DEF HistoriesRight, KnownExist, LockedIsRead
  <2>4. CASE requests[q].step # "locked"
    <3>1. requests' = [requests EXCEPT ![q] = new]
      BY <1>8 DEF Lose
    <3>2. new \in WasteRequest /\ new.step # "locked" /\ Names(new, Made)
      BY <1>6, <2>1, <2>4
    <3> QED
      BY <1>8, <2>1, <2>2, <3>1, <3>2, RequestKeeps DEF Lose
  <2> QED
    BY <2>3, <2>4
<1> QED
  BY <1>3, <1>4, <1>5, <1>7, <1>8

\* The API takes a request up, writes and commits, or rolls back.
LEMMA ServingKeeps ==
  ASSUME WasteInv, NEW q \in Requests,
         RollBack(q) \/ Create(q) \/ CreateException(q) \/ ReadForUpdate(q) \/ Advance(q)
  PROVE  WasteInv'
<1> USE DEF WasteInv, WasteTypeOK
<1>1. requests[q] \in WasteRequest /\ Names(requests[q], Made)
  BY DEF KnownExist
<1>2. Free \in WasteRequest /\ Free.step # "locked"
      /\ \A there : Names(Free, there)
  BY DEF WasteRequest, Free, Names, AskedAdvance, AskedException, Committed
<1>3. CASE RollBack(q)
  <2>1. page' \in [Pages -> WastePage] /\ \A p \in Pages : Shows(page'[p], Made)
    <3>1. \A p \in Pages : [page[p] EXCEPT !.waits = None] \in WastePage
      BY DEF WastePage
    <3>2. \A p \in Pages : Shows(page[p], Made) /\ Shows([page[p] EXCEPT !.waits = None], Made)
      BY DEF WastePage, KnownExist, Shows
    <3> QED
      BY <1>3, <3>1, <3>2 DEF RollBack
  <2>2. requests' = [requests EXCEPT ![q] = Free] /\ UNCHANGED rows
    BY <1>3 DEF RollBack
  <2> QED
    BY <1>2, <2>1, <2>2, RequestKeeps
<1>4. ASSUME NEW r \in WasteRecords, NEW row \in WasteRow, Chronicle(row), row.version > 0,
             requests[q].op \in {"CREATE", "ADVANCE", "EXCEPTION"},
             \A o \in Requests \ {q} : requests[o].step = "locked" => requests[o].record # r,
             rows' = [rows EXCEPT ![r] = row], Commit(q, r)
      PROVE  WasteInv'
  <2> DEFINE done == [step |-> "committed", op |-> requests[q].op, record |-> r]
             new == IF Waited(q) THEN done ELSE Free
  <2>1. done \in WasteRequest /\ done.step # "locked" /\ Names(done, Made \cup {r})
    BY <1>4 DEF WasteRequest, Committed, Names
  <2>2. new \in WasteRequest /\ new.step # "locked" /\ Names(new, Made \cup {r})
    BY <1>2, <2>1
  <2>3. requests' = [requests EXCEPT ![q] = new] /\ UNCHANGED page
    BY <1>4 DEF Commit
  <2> HIDE DEF new
  <2> QED
    BY <1>4, <2>2, <2>3, RecordKeeps
<1>5. CASE Create(q)
  <2> DEFINE row == [phase |-> 1, version |-> 1, exceptions |-> 0,
                     events |-> <<[from |-> 0, to |-> 1, shown |-> 0]>>]
  <2>1. PICK r \in WasteRecords \ Made : rows' = [rows EXCEPT ![r] = row] /\ Commit(q, r)
    BY <1>5 DEF Create
  <2>2. row \in WasteRow /\ Chronicle(row) /\ row.version > 0
    BY DEF WasteRow, WasteEvent, Chronicle
  <2>3. \A o \in Requests : requests[o].step = "locked" => requests[o].record # r
    BY <2>1, RequestShapes DEF KnownExist, Names
  <2> QED
    BY <1>4, <1>5, <2>1, <2>2, <2>3 DEF Create, Asked
<1>6. CASE CreateException(q)
  <2> DEFINE r == requests[q].record
             row == [rows[r] EXCEPT !.exceptions = @ + 1]
  <2>1. r \in WasteRecords /\ r \in Made
    BY <1>1, <1>6, RequestShapes DEF CreateException, Asked, Names, AskedException, Made
  <2>2. row \in WasteRow /\ Chronicle(row) /\ row.version > 0
    <3>1. rows[r] \in WasteRow /\ Chronicle(rows[r]) /\ rows[r].version > 0
      BY <2>1 DEF HistoriesRight, Made
    <3>2. /\ row \in WasteRow
          /\ row.phase = rows[r].phase /\ row.version = rows[r].version /\ row.events = rows[r].events
      BY <3>1, RowWithException
    <3> QED
      BY <3>1, <3>2 DEF Chronicle
  <2>3. rows' = [rows EXCEPT ![r] = row] /\ Commit(q, r) /\ ~Locked(r) /\ requests[q].op = "EXCEPTION"
    BY <1>6 DEF CreateException, Asked
  <2>4. \A o \in Requests : requests[o].step = "locked" => requests[o].record # r
    BY <2>3 DEF Locked
  <2> QED
    BY <1>4, <2>1, <2>2, <2>3, <2>4
<1>7. CASE ReadForUpdate(q)
  <2> DEFINE new == [requests[q] EXCEPT !.step = "locked"]
  <2>1. requests[q] \in AskedAdvance
    BY <1>1, <1>7, RequestShapes DEF ReadForUpdate, Asked
  <2>2. new \in AskedAdvance /\ new.record = requests[q].record /\ new.target = requests[q].target
        /\ new.version = requests[q].version /\ new.record \in Made
    BY <1>1, <2>1 DEF AskedAdvance, Names
  <2>3. /\ requests' \in [Requests -> WasteRequest]
        /\ \A o \in Requests : requests'[o] = IF o = q THEN new ELSE requests[o]
        /\ rows' = rows /\ page' = page /\ Made' = Made
    BY <1>7, <2>2 DEF ReadForUpdate, WasteRequest, Made
  <2>4. HistoriesRight' /\ KnownExist'
    BY <2>2, <2>3 DEF HistoriesRight, KnownExist, Names
  <2>5. LockedIsRead'
    BY <1>7, <2>2, <2>3 DEF LockedIsRead, ReadForUpdate, Locked, MayAdvance
  <2> QED
    BY <2>3, <2>4, <2>5
<1>8. CASE Advance(q)
  <2> DEFINE r == requests[q].record
             event == [from |-> requests[q].target - 1, to |-> requests[q].target,
                       shown |-> requests[q].version]
             row == [rows[r] EXCEPT !.phase = requests[q].target, !.version = @ + 1,
                                    !.events = Append(@, event)]
  <2>1. requests[q] \in AskedAdvance /\ requests[q].step = "locked"
    BY <1>1, <1>8, RequestShapes DEF Advance
  <2>2. r \in WasteRecords /\ rows[r] \in WasteRow /\ Chronicle(rows[r])
        /\ MayAdvance(rows[r], requests[q])
    BY <2>1 DEF AskedAdvance, HistoriesRight, LockedIsRead
  <2>3. event = [from |-> Len(rows[r].events), to |-> Len(rows[r].events) + 1,
                 shown |-> Len(rows[r].events)]
    BY <2>1, <2>2 DEF MayAdvance, Chronicle, WasteRow
  <2>4. event \in WasteEvent
    BY <2>2, <2>3 DEF WasteEvent, WasteRow
  <2>5. Append(rows[r].events, event) \in Seq(WasteEvent)
    BY <2>2, <2>4 DEF WasteRow
  <2>6. /\ row \in WasteRow /\ row.phase = rows[r].phase + 1 /\ row.version = rows[r].version + 1
        /\ row.events = Append(rows[r].events, event)
    <3>1. rows[r].version \in Nat /\ requests[q].target \in Nat
          /\ requests[q].target = rows[r].phase + 1
      BY <2>1, <2>2 DEF WasteRow, AskedAdvance, MayAdvance
    <3>2. rows[r].version + 1 \in Nat
      BY <3>1
    <3> DEFINE phase == requests[q].target
               version == rows[r].version + 1
               events == Append(rows[r].events, event)
    <3>3. row = [rows[r] EXCEPT !.phase = phase, !.version = version, !.events = events]
      BY <2>2
    <3>4. phase \in Nat /\ version \in Nat /\ events \in Seq(WasteEvent)
      BY <2>5, <3>1, <3>2
    <3>5. phase = rows[r].phase + 1
      BY <3>1
    <3> HIDE DEF phase, version, events, row
    <3>6. row \in WasteRow /\ row.phase = phase /\ row.version = version /\ row.events = events
      BY <2>2, <3>3, <3>4 DEF WasteRow
    <3> QED
      BY <3>5, <3>6 DEF version, events
  <2>7. Chronicle(row) /\ row.version > 0
    <3> DEFINE before == rows[r].events
    <3>1. before \in Seq(WasteEvent) /\ row.events = Append(before, event)
      BY <2>2, <2>6 DEF WasteRow
    <3>2. /\ rows[r].version = Len(before) /\ rows[r].phase = Len(before) /\ Len(before) \in Nat
          /\ \A n \in 1 .. Len(before) : before[n] = [from |-> n - 1, to |-> n, shown |-> n - 1]
      BY <2>2, <3>1 DEF Chronicle
    <3>3. row.version = Len(before) + 1 /\ row.phase = Len(before) + 1
      BY <2>6, <3>2
    <3>4. event = [from |-> (Len(before) + 1) - 1, to |-> Len(before) + 1,
                   shown |-> (Len(before) + 1) - 1]
      BY <2>3, <3>2
    <3> HIDE DEF before, row, event
    <3>5. Len(row.events) = Len(before) + 1
      BY <3>1
    <3>6. ASSUME NEW n \in 1 .. Len(row.events)
          PROVE  row.events[n] = [from |-> n - 1, to |-> n, shown |-> n - 1]
      <4>1. CASE n = Len(before) + 1
        BY <3>1, <3>4, <4>1
      <4>2. CASE n # Len(before) + 1
        BY <3>1, <3>2, <3>5, <4>2
      <4> QED
        BY <4>1, <4>2
    <3> QED
      BY <3>2, <3>3, <3>5, <3>6 DEF Chronicle
  <2>8. rows' = [rows EXCEPT ![r] = row] /\ Commit(q, r)
    BY <1>8 DEF Advance
  <2>9. \A o \in Requests \ {q} : requests[o].step = "locked" => requests[o].record # r
    BY <2>1 DEF LockedIsRead
  <2>10. requests[q].op = "ADVANCE"
    BY <2>1 DEF AskedAdvance
  <2> HIDE DEF row
  <2> QED
    BY <1>4, <2>2, <2>6, <2>7, <2>8, <2>9, <2>10
<1> QED
  BY <1>3, <1>5, <1>6, <1>7, <1>8

\* WasteInv says more than the property: every record has the one history of its version.
LEMMA HistoryFollows == WasteInv => LifecycleIsItsHistory
<1> SUFFICES ASSUME WasteInv, NEW r \in Made
             PROVE  LET events == rows[r].events
                    IN  /\ Len(events) = rows[r].version
                        /\ rows[r].phase = events[Len(events)].to
                        /\ \A n \in DOMAIN events :
                             /\ events[n].to = events[n].from + 1
                             /\ events[n].from = IF n = 1 THEN 0 ELSE events[n - 1].to
                             /\ events[n].shown = n - 1
  BY DEF LifecycleIsItsHistory
<1> DEFINE events == rows[r].events
<1>1. /\ events \in Seq(WasteEvent) /\ Chronicle(rows[r])
      /\ rows[r].version > 0
  BY DEF WasteInv, WasteTypeOK, HistoriesRight, Made, WasteRow
<1>2. Len(events) \in Nat \ {0} /\ DOMAIN events = 1 .. Len(events)
      /\ rows[r].version = Len(events) /\ rows[r].phase = Len(events)
  BY <1>1 DEF Chronicle
<1>3. ASSUME NEW n \in 1 .. Len(events)
      PROVE  events[n].from = n - 1 /\ events[n].to = n /\ events[n].shown = n - 1
  <2>1. events[n] = [from |-> n - 1, to |-> n, shown |-> n - 1]
    BY <1>1 DEF Chronicle
  <2> QED
    BY <2>1
<1> HIDE DEF events
<1>4. ASSUME NEW n \in DOMAIN events
      PROVE  /\ events[n].to = events[n].from + 1
             /\ events[n].from = IF n = 1 THEN 0 ELSE events[n - 1].to
             /\ events[n].shown = n - 1
  BY <1>2, <1>3
<1>5. rows[r].phase = events[Len(events)].to
  BY <1>2, <1>3
<1> QED
  BY <1>2, <1>4, <1>5 DEF events

\* The history of a record of waste is unbroken, whatever pages and requests there are
\* (waste.service.ts advances under a row lock and a version).
THEOREM LifecycleIsKept == OperationsSpec => []LifecycleIsItsHistory
<1>1. WasteInv /\ [OperationsNext]_operationsVars => WasteInv'
  <2> SUFFICES ASSUME WasteInv, [WasteNext]_wasteVars PROVE WasteInv'
    BY AreaSteps
  <2>1. CASE UNCHANGED wasteVars
    BY <2>1 DEF wasteVars, WasteInv, WasteTypeOK, HistoriesRight, KnownExist, LockedIsRead, Made
  <2>2. CASE WasteNext
    BY <2>2, PageKeeps, AskingKeeps, ServingKeeps DEF WasteNext
  <2> QED
    BY <2>1, <2>2
<1>2. OperationsInit => WasteInv
  BY WasteStarts DEF OperationsInit
<1> QED
  BY <1>1, <1>2, HistoryFollows, PTL DEF OperationsSpec

-----------------------------------------------------------------------------
(* Governance: what a user accepts stays accepted, once, or revoked.       *)

LegalDocument == [status : {"none", "draft", "published", "active"}, published : BOOLEAN]
Someone == {UserOf[s] : s \in Sessions}
Acceptance == [code : LegalCodes, user : Someone]
Written ==
  {Nothing}
  \cup [kind : {"DOCUMENT", "PUBLICATION"}, code : LegalCodes]
  \cup [kind : {"ACCEPTANCE"}, code : LegalCodes, user : Someone]
  \cup [kind : {"REVOCATION", "WITHDRAWAL"}, of : Nat]
  \cup [kind : {"CONSENT"}, consent : Consents, user : Someone, granted : BOOLEAN]
  \cup [kind : {"REQUEST"}, number : Numbers]

GovernanceTypeOK ==
  /\ documents \in [LegalCodes -> LegalDocument]
  /\ acceptances \in Seq(Acceptance)
  /\ revocations \subseteq DOMAIN acceptances
  /\ consents \in Seq([consent : Consents, user : Someone, granted : BOOLEAN])
  /\ writing \in [Sessions -> Written]

Published(c) == documents[c].published
AcceptedBy(c, u) == \E n \in DOMAIN acceptances : acceptances[n] = [code |-> c, user |-> u]

\* What a transaction has written may still be committed: the key it found free is free,
\* and what it refers to is there.
Committable(row) ==
  /\ row.kind = "ACCEPTANCE"  => Published(row.code) /\ ~AcceptedBy(row.code, row.user)
  /\ row.kind = "DOCUMENT"    => documents[row.code] = NoDocument
  /\ row.kind = "PUBLICATION" => documents[row.code] # NoDocument
  /\ row.kind = "REVOCATION"  => row.of \in DOMAIN acceptances

\* And the key is no other transaction's.
WritesAreFree ==
  /\ \A s \in Sessions : Committable(writing[s])
  /\ \A s, t \in Sessions :
       writing[s].kind \in {"ACCEPTANCE", "DOCUMENT"} /\ writing[s] = writing[t] => s = t

AcceptedOnce ==
  /\ \A n \in DOMAIN acceptances : Published(acceptances[n].code)
  /\ \A m, n \in DOMAIN acceptances : acceptances[m] = acceptances[n] => m = n

GovernanceInv == GovernanceTypeOK /\ AcceptedOnce /\ WritesAreFree

LEMMA GovernanceStarts == GovernanceInit => GovernanceInv
<1> SUFFICES ASSUME GovernanceInit PROVE GovernanceInv
  OBVIOUS
<1>1. GovernanceTypeOK
  <2>1. documents \in [LegalCodes -> LegalDocument]
    BY DEF GovernanceInit, NoDocument, LegalDocument
  <2>2. writing \in [Sessions -> Written]
    BY DEF GovernanceInit, Written
  <2>3. acceptances = <<>> /\ revocations = {} /\ consents = <<>>
    BY DEF GovernanceInit
  <2> QED
    BY <2>1, <2>2, <2>3 DEF GovernanceTypeOK
<1>2. AcceptedOnce /\ WritesAreFree
  BY DEF GovernanceInit, AcceptedOnce, WritesAreFree, Committable, Nothing
<1> QED
  BY <1>1, <1>2 DEF GovernanceInv

\* A transaction that writes a row it may write.
LEMMA WritingKeeps ==
  ASSUME GovernanceInv, NEW s \in Sessions, NEW row \in Written, Committable(row), Write(s, row)
  PROVE  GovernanceInv'
<1>1. /\ documents' = documents /\ acceptances' = acceptances
      /\ revocations' = revocations /\ consents' = consents
      /\ writing' \in [Sessions -> Written]
      /\ \A t \in Sessions : writing'[t] = IF t = s THEN row ELSE writing[t]
  BY DEF Write, GovernanceInv, GovernanceTypeOK
<1>2. GovernanceTypeOK' /\ AcceptedOnce'
  BY <1>1 DEF GovernanceInv, GovernanceTypeOK, AcceptedOnce, Published
<1>3. row.kind \in {"ACCEPTANCE", "DOCUMENT"} => \A t \in Sessions : writing[t] # row
  BY DEF Write, Conflict
<1>4. WritesAreFree'
  BY <1>1, <1>3 DEF GovernanceInv, WritesAreFree, Committable, Published, AcceptedBy
<1> QED
  BY <1>2, <1>4 DEF GovernanceInv

LEMMA CommitKeeps == ASSUME GovernanceInv, NEW s \in Sessions, CommitRow(s) PROVE GovernanceInv'
<1> DEFINE row == writing[s]
<1> USE DEF GovernanceInv
<1>1. /\ row \in Written /\ row # Nothing /\ Committable(row)
      /\ writing' \in [Sessions -> Written]
      /\ \A t \in Sessions : writing'[t] = IF t = s THEN Nothing ELSE writing[t]
  BY DEF CommitRow, Ends, GovernanceTypeOK, WritesAreFree, Written
<1>2. consents' \in Seq([consent : Consents, user : Someone, granted : BOOLEAN])
  <2>1. CASE row.kind = "CONSENT"
    <3> DEFINE new == [consent |-> row.consent, user |-> row.user, granted |-> row.granted]
    <3>1. new \in [consent : Consents, user : Someone, granted : BOOLEAN]
      BY <1>1, <2>1 DEF Written, Nothing
    <3>2. consents' = Append(consents, new)
      BY <2>1 DEF CommitRow
    <3> HIDE DEF new
    <3> QED
      BY <3>1, <3>2 DEF GovernanceTypeOK
  <2>2. CASE row.kind # "CONSENT"
    BY <2>2 DEF CommitRow, GovernanceTypeOK
  <2> QED
    BY <2>1, <2>2
<1>3. \A t \in Sessions \ {s} : row.kind \in {"ACCEPTANCE", "DOCUMENT"} => writing[t] # row
  BY DEF WritesAreFree
<1>4. \A t, o \in Sessions :
        writing'[t].kind \in {"ACCEPTANCE", "DOCUMENT"} /\ writing'[t] = writing'[o] => t = o
  BY <1>1 DEF WritesAreFree, Nothing
<1>5. CASE row.kind = "ACCEPTANCE"
  <2>1. row = [kind |-> "ACCEPTANCE", code |-> row.code, user |-> row.user]
        /\ row.code \in LegalCodes /\ row.user \in Someone
    BY <1>1, <1>5 DEF Written, Nothing
  <2> DEFINE new == [code |-> row.code, user |-> row.user]
  <2>2. new \in Acceptance /\ Published(new.code) /\ \A n \in DOMAIN acceptances : acceptances[n] # new
    BY <1>1, <1>5, <2>1 DEF Acceptance, Committable, AcceptedBy
  <2>3. acceptances' = Append(acceptances, new) /\ documents' = documents /\ revocations' = revocations
    BY <1>5 DEF CommitRow
  <2> HIDE DEF new
  <2>4. /\ acceptances' \in Seq(Acceptance)
        /\ DOMAIN acceptances' = DOMAIN acceptances \cup {Len(acceptances) + 1}
        /\ Len(acceptances) + 1 \notin DOMAIN acceptances
        /\ acceptances'[Len(acceptances) + 1] = new
        /\ \A n \in DOMAIN acceptances : acceptances'[n] = acceptances[n]
    BY <2>2, <2>3 DEF GovernanceTypeOK
  <2>5. GovernanceTypeOK' /\ AcceptedOnce'
    BY <1>1, <1>2, <2>2, <2>3, <2>4 DEF GovernanceTypeOK, AcceptedOnce, Published
  <2>6. ASSUME NEW t \in Sessions PROVE Committable(writing[t])'
    <3>1. CASE t = s
      BY <1>1, <3>1 DEF Committable, Nothing
    <3>2. CASE t # s /\ writing[t].kind = "ACCEPTANCE"
      <4>1. writing[t] \in Written /\ Committable(writing[t]) /\ writing[t] # row
        BY <1>3, <1>5, <3>2 DEF GovernanceTypeOK, WritesAreFree
      <4>2. writing[t] = [kind |-> "ACCEPTANCE", code |-> writing[t].code, user |-> writing[t].user]
        BY <3>2, <4>1 DEF Written, Nothing
      <4>3. [code |-> writing[t].code, user |-> writing[t].user] # new
        BY <2>1, <4>1, <4>2 DEF new
      <4> QED
        BY <1>1, <2>3, <2>4, <3>2, <4>1, <4>3 DEF Committable, Published, AcceptedBy
    <3>3. CASE t # s /\ writing[t].kind # "ACCEPTANCE"
      BY <1>1, <2>3, <2>4, <3>3 DEF WritesAreFree, Committable
    <3> QED
      BY <3>1, <3>2, <3>3
  <2> QED
    BY <1>4, <2>5, <2>6 DEF WritesAreFree
<1>6. CASE row.kind \in {"DOCUMENT", "PUBLICATION"}
  <2> DEFINE c == row.code
             new == IF row.kind = "DOCUMENT" THEN [status |-> "draft", published |-> FALSE]
                    ELSE [status |-> "active", published |-> TRUE]
  <2>1. row = [kind |-> row.kind, code |-> c] /\ c \in LegalCodes
    BY <1>1, <1>6 DEF Written, Nothing
  <2>2. acceptances' = acceptances /\ revocations' = revocations
    BY <1>6 DEF CommitRow
  <2>3. documents' = [documents EXCEPT ![c] = new]
    <3>1. CASE row.kind = "DOCUMENT"
      BY <3>1 DEF CommitRow
    <3>2. CASE row.kind = "PUBLICATION"
      BY <3>2 DEF CommitRow
    <3> QED
      BY <1>6, <3>1, <3>2
  <2>4. new \in LegalDocument /\ new # NoDocument
        /\ (row.kind = "PUBLICATION" => new.published)
    BY <1>6 DEF NoDocument, LegalDocument
  <2> HIDE DEF new
  <2>5. /\ documents' \in [LegalCodes -> LegalDocument]
        /\ \A d \in LegalCodes : documents'[d] = IF d = c THEN new ELSE documents[d]
    BY <2>1, <2>3, <2>4 DEF GovernanceTypeOK
  <2>6. \A d \in LegalCodes : Published(d) => Published(d)'
    BY <1>1, <1>6, <2>4, <2>5 DEF Published, Committable, NoDocument
  <2>7. GovernanceTypeOK'
    BY <1>1, <1>2, <2>2, <2>5 DEF GovernanceTypeOK
  <2>8. AcceptedOnce'
    <3>1. \A n \in DOMAIN acceptances : acceptances[n].code \in LegalCodes
      <4>1. \A n \in DOMAIN acceptances : acceptances[n] \in Acceptance
        BY DEF GovernanceTypeOK
      <4> QED
        BY <4>1 DEF Acceptance
    <3> QED
      BY <2>2, <2>6, <3>1 DEF AcceptedOnce
  <2>9. ASSUME NEW t \in Sessions PROVE Committable(writing[t])'
    <3>1. CASE t = s
      BY <1>1, <3>1 DEF Committable, Nothing
    <3>2. CASE t # s
      <4>1. writing[t] \in Written /\ Committable(writing[t]) /\ writing'[t] = writing[t]
        BY <1>1, <3>2 DEF GovernanceTypeOK, WritesAreFree
      <4>2. CASE writing[t].kind = "ACCEPTANCE"
        <5>1. writing[t].code \in LegalCodes
          BY <4>1, <4>2 DEF Written, Nothing
        <5> QED
          BY <2>2, <2>6, <4>1, <4>2, <5>1 DEF Committable, AcceptedBy
      <4>3. CASE writing[t].kind = "DOCUMENT"
        <5>1. writing[t] = [kind |-> "DOCUMENT", code |-> writing[t].code] /\ writing[t].code \in LegalCodes
          BY <4>1, <4>3 DEF Written, Nothing
        <5>2. writing[t].code # c
          BY <1>1, <1>3, <1>6, <2>1, <3>2, <4>1, <4>3, <5>1 DEF Committable
        <5> QED
          BY <2>5, <4>1, <4>3, <5>1, <5>2 DEF Committable
      <4>4. CASE writing[t].kind = "PUBLICATION"
        <5>1. writing[t].code \in LegalCodes
          BY <4>1, <4>4 DEF Written, Nothing
        <5> QED
          BY <2>4, <2>5, <4>1, <4>4, <5>1 DEF Committable
      <4> QED
        BY <2>2, <4>1, <4>2, <4>3, <4>4 DEF Committable
    <3> QED
      BY <3>1, <3>2
  <2> QED
    BY <1>4, <2>9, <2>7, <2>8 DEF WritesAreFree
<1>7. CASE row.kind \notin {"ACCEPTANCE", "DOCUMENT", "PUBLICATION"}
  <2>1. documents' = documents /\ acceptances' = acceptances
    BY <1>7 DEF CommitRow
  <2>2. revocations' \subseteq DOMAIN acceptances
    BY <1>1 DEF CommitRow, Committable, GovernanceTypeOK
  <2>3. GovernanceTypeOK' /\ AcceptedOnce'
    BY <1>1, <1>2, <2>1, <2>2 DEF GovernanceTypeOK, AcceptedOnce, Published
  <2>4. \A t \in Sessions : Committable(writing[t])'
    BY <1>1, <2>1 DEF WritesAreFree, Committable, Published, AcceptedBy, Nothing
  <2> QED
    BY <1>4, <2>3, <2>4 DEF WritesAreFree
<1> QED
  BY <1>5, <1>6, <1>7

LEMMA RollBackKeeps == ASSUME GovernanceInv, NEW s \in Sessions, RollBackRow(s) PROVE GovernanceInv'
<1>1. /\ documents' = documents /\ acceptances' = acceptances
      /\ revocations' = revocations /\ consents' = consents
      /\ writing' \in [Sessions -> Written]
      /\ \A t \in Sessions : writing'[t] = IF t = s THEN Nothing ELSE writing[t]
  BY DEF RollBackRow, Ends, GovernanceInv, GovernanceTypeOK, Written
<1>2. GovernanceTypeOK' /\ AcceptedOnce'
  BY <1>1 DEF GovernanceInv, GovernanceTypeOK, AcceptedOnce, Published
<1>3. WritesAreFree'
  BY <1>1 DEF GovernanceInv, WritesAreFree, Committable, Published, AcceptedBy, Nothing
<1> QED
  BY <1>2, <1>3 DEF GovernanceInv

\* Every request writes a row of one of the kinds, and only where it may.
LEMMA RequestsWrite ==
  ASSUME GovernanceInv, NEW s \in Sessions,
         \/ \E c \in LegalCodes :
              CreateLegalDocument(s, c) \/ PublishLegalVersion(s, c) \/ RecordAcceptance(s, c)
         \/ \E n \in DOMAIN acceptances : RevokeAcceptance(s, n)
         \/ \E c \in Consents, granted \in BOOLEAN : RecordConsent(s, c, granted)
         \/ \E n \in DOMAIN consents : WithdrawConsent(s, n)
         \/ \E number \in Numbers : CreatePrivacyRequest(s, number)
  PROVE  \E row \in Written : Committable(row) /\ Write(s, row)
<1> DEFINE Writes == \E row \in Written : Committable(row) /\ Write(s, row)
<1>1. ASSUME NEW c \in LegalCodes, CreateLegalDocument(s, c) PROVE Writes
  <2> DEFINE row == [kind |-> "DOCUMENT", code |-> c]
  <2>1. Write(s, row) /\ row \in Written
    BY <1>1 DEF CreateLegalDocument, Written
  <2>2. Committable(row)
    BY <2>1 DEF Write, Taken, Committable
  <2> QED
    BY <2>1, <2>2
<1>2. ASSUME NEW c \in LegalCodes, PublishLegalVersion(s, c) PROVE Writes
  <2> DEFINE row == [kind |-> "PUBLICATION", code |-> c]
  <2>1. Write(s, row) /\ row \in Written /\ Committable(row)
    BY <1>2 DEF PublishLegalVersion, Written, Committable
  <2> QED
    BY <2>1
<1>3. ASSUME NEW c \in LegalCodes, RecordAcceptance(s, c) PROVE Writes
  <2> DEFINE row == [kind |-> "ACCEPTANCE", code |-> c, user |-> UserOf[s]]
  <2>1. Write(s, row) /\ row \in Written /\ Published(c)
    BY <1>3 DEF RecordAcceptance, Written, Someone, Published
  <2>2. Committable(row)
    BY <2>1 DEF Write, Taken, Committable, AcceptedBy
  <2> QED
    BY <2>1, <2>2
<1>4. ASSUME NEW n \in DOMAIN acceptances, RevokeAcceptance(s, n) PROVE Writes
  <2> DEFINE row == [kind |-> "REVOCATION", of |-> n]
  <2>1. n \in Nat
    BY DEF GovernanceInv, GovernanceTypeOK
  <2>2. Write(s, row) /\ row \in Written /\ Committable(row)
    BY <1>4, <2>1 DEF RevokeAcceptance, Written, Committable
  <2> QED
    BY <2>2
<1>5. ASSUME NEW c \in Consents, NEW granted \in BOOLEAN, RecordConsent(s, c, granted) PROVE Writes
  <2> DEFINE row == [kind |-> "CONSENT", consent |-> c, user |-> UserOf[s], granted |-> granted]
  <2>1. Write(s, row) /\ row \in Written /\ Committable(row)
    BY <1>5 DEF RecordConsent, Written, Someone, Committable
  <2> QED
    BY <2>1
<1>6. ASSUME NEW n \in DOMAIN consents, WithdrawConsent(s, n) PROVE Writes
  <2> DEFINE row == [kind |-> "WITHDRAWAL", of |-> n]
  <2>1. n \in Nat
    BY DEF GovernanceInv, GovernanceTypeOK
  <2>2. Write(s, row) /\ row \in Written /\ Committable(row)
    BY <1>6, <2>1 DEF WithdrawConsent, Written, Committable
  <2> QED
    BY <2>2
<1>7. ASSUME NEW number \in Numbers, CreatePrivacyRequest(s, number) PROVE Writes
  <2> DEFINE row == [kind |-> "REQUEST", number |-> number]
  <2>1. Write(s, row) /\ row \in Written /\ Committable(row)
    BY <1>7 DEF CreatePrivacyRequest, Written, Committable
  <2> QED
    BY <2>1
<1> QED
  BY <1>1, <1>2, <1>3, <1>4, <1>5, <1>6, <1>7

\* A user accepts a document once and only a published one, and what was revoked is not in
\* effect again (the unique key of governance.service.ts's acceptances), for any number of
\* users, sessions, documents and acceptances.
THEOREM AcceptancesStayFinal == OperationsSpec => []AcceptancesAreFinal
<1>1. GovernanceInv /\ [OperationsNext]_operationsVars => GovernanceInv'
  <2> SUFFICES ASSUME GovernanceInv, [GovernanceNext]_governanceVars PROVE GovernanceInv'
    BY AreaSteps
  <2>1. CASE UNCHANGED governanceVars
    BY <2>1 DEF governanceVars, GovernanceInv, GovernanceTypeOK, AcceptedOnce, WritesAreFree,
                Committable, Published, AcceptedBy
  <2>2. CASE GovernanceNext
    BY <2>2, RequestsWrite, WritingKeeps, CommitKeeps, RollBackKeeps DEF GovernanceNext
  <2> QED
    BY <2>1, <2>2
<1>2. GovernanceInv => AcceptancesAreFinal
  BY DEF GovernanceInv, GovernanceTypeOK, AcceptedOnce, Published, AcceptancesAreFinal, ActiveAcceptances
<1>3. OperationsInit => GovernanceInv
  BY GovernanceStarts DEF OperationsInit
<1> QED
  BY <1>1, <1>2, <1>3, PTL DEF OperationsSpec

-----------------------------------------------------------------------------
(* CRM: an opportunity is where its events led it.                         *)

StageEvent == [previous : DOMAIN Stages, stage : DOMAIN Stages, status : {"OPEN", "WON", "LOST"},
               source : {"USER", "AI_RECOMMENDATION"}]
Opportunity == [status : {"OPEN", "WON", "LOST"}, first : DOMAIN Stages, stage : DOMAIN Stages,
                customer : BOOLEAN, reason : BOOLEAN, version : Nat, events : Seq(StageEvent)]

CrmInv ==
  /\ leads \in [Leads -> {"NEW", "QUALIFIED", "CONVERTED"}]
  /\ opportunities \in [Leads -> Opportunity \cup {NoOpportunity}]
  /\ OpportunitiesFollowTheirEvents

\* What OpportunitiesFollowTheirEvents says of one opportunity.
Follows(o) ==
  /\ o.version = Len(o.events) + 1
  /\ o.stage = IF Len(o.events) = 0 THEN o.first ELSE o.events[Len(o.events)].stage
  /\ \A i \in 1 .. Len(o.events) :
       o.events[i].previous = IF i = 1 THEN o.first ELSE o.events[i - 1].stage
  /\ \A i \in 1 .. Len(o.events) :
       o.events[i].status # "OPEN" => i = Len(o.events) /\ o.events[i].source = "USER"
  /\ o.status # "OPEN" <=> Len(o.events) > 0 /\ o.events[Len(o.events)].status # "OPEN"
  /\ o.status = "WON" => o.customer
  /\ o.status = "LOST" => o.reason

LEMMA FollowingAll ==
  OpportunitiesFollowTheirEvents <=>
    \A l \in Leads :
      /\ leads[l] = "CONVERTED" <=> opportunities[l] # NoOpportunity
      /\ opportunities[l] # NoOpportunity => Follows(opportunities[l])
  BY DEF OpportunitiesFollowTheirEvents, Follows

LEMMA OpportunityIsOne == \A o \in Opportunity : o # NoOpportunity
<1> SUFFICES ASSUME NEW o \in Opportunity, o = NoOpportunity PROVE FALSE
  OBVIOUS
<1>1. o.status # "none"
  BY DEF Opportunity
<1>2. NoOpportunity.status = "none"
  BY DEF NoOpportunity
<1> QED
  BY <1>1, <1>2

\* What transitionOpportunity makes of an opportunity.
Progressed(o, target, source, customer, reason) ==
  [o EXCEPT !.status = Stages[target], !.stage = target,
            !.customer = o.customer \/ customer,
            !.reason = o.reason \/ (reason /\ Stages[target] = "LOST"),
            !.version = o.version + 1,
            !.events = Append(o.events, [previous |-> o.stage, stage |-> target,
                                         status |-> Stages[target], source |-> source])]

\* A change of stage adds an event that leads on from the last one.
LEMMA MovingFollows ==
  ASSUME NEW o \in Opportunity, Follows(o), NEW target \in DOMAIN Stages,
         NEW source \in {"USER", "AI_RECOMMENDATION"}, NEW customer \in BOOLEAN,
         NEW reason \in BOOLEAN, MayMove(o, target, source, customer, reason)
  PROVE  /\ Progressed(o, target, source, customer, reason) \in Opportunity
         /\ Follows(Progressed(o, target, source, customer, reason))
<1> DEFINE e == [previous |-> o.stage, stage |-> target, status |-> Stages[target],
                 source |-> source]
           c == o.customer \/ customer
           r == o.reason \/ (reason /\ Stages[target] = "LOST")
           events == Append(o.events, e)
           p == [o EXCEPT !.status = Stages[target], !.stage = target, !.customer = c,
                          !.reason = r, !.version = o.version + 1, !.events = events]
           k == Len(o.events)
<1>1. /\ o.events \in Seq(StageEvent) /\ k \in Nat /\ o.version = k + 1
      /\ o.first \in DOMAIN Stages /\ o.stage \in DOMAIN Stages
      /\ o.customer \in BOOLEAN /\ o.reason \in BOOLEAN
      /\ o.status = "OPEN"
  BY LenProperties DEF Opportunity, Follows, MayMove
<1>2. Stages[target] \in {"OPEN", "WON", "LOST"}
  BY CrmAssumption
<1>3. /\ e \in StageEvent /\ e.previous = o.stage /\ e.stage = target
      /\ e.status = Stages[target] /\ e.source = source
  BY <1>1, <1>2 DEF StageEvent
<1> HIDE DEF e
<1>4. /\ Append(o.events, e) \in Seq(StageEvent)
      /\ Len(Append(o.events, e)) = k + 1
      /\ Append(o.events, e)[k + 1] = e
      /\ \A i \in 1 .. k : Append(o.events, e)[i] = o.events[i]
  BY <1>1, <1>3, AppendProperties
<1>5. c \in BOOLEAN /\ r \in BOOLEAN /\ events \in Seq(StageEvent)
  BY <1>1, <1>4
<1>6. p = Progressed(o, target, source, customer, reason)
  BY DEF Progressed, e
<1> HIDE DEF c, r, events
<1>7. /\ p.status = Stages[target] /\ p.stage = target /\ p.first = o.first
       /\ p.customer = c /\ p.reason = r /\ p.version = k + 2 /\ p.events = events
  BY <1>1 DEF Opportunity
<1>8. p \in Opportunity
  <2>1. [o EXCEPT !.status = Stages[target], !.stage = target, !.customer = c] \in Opportunity
    BY <1>2, <1>5 DEF Opportunity
  <2>2. \A q \in Opportunity : [q EXCEPT !.reason = r] \in Opportunity
    BY <1>5 DEF Opportunity
  <2>3. \A q \in Opportunity, v \in Nat : [q EXCEPT !.version = v] \in Opportunity
    BY DEF Opportunity
  <2>4. \A q \in Opportunity : [q EXCEPT !.events = events] \in Opportunity
    BY <1>5 DEF Opportunity
  <2>5. o.version + 1 \in Nat
    BY <1>1
  <2> QED
    BY <2>1, <2>2, <2>3, <2>4, <2>5
<1> HIDE DEF p, k
<1>9. Len(p.events) = k + 1 /\ p.events[k + 1] = e /\ \A i \in 1 .. k : p.events[i] = o.events[i]
  BY <1>4, <1>7 DEF events, k
<1>10. \A i \in 1 .. k : o.events[i].status = "OPEN"
  BY <1>1 DEF Follows, k
<1>11. \A i \in 1 .. k + 1 :
        p.events[i].previous = IF i = 1 THEN p.first ELSE p.events[i - 1].stage
  <2>1. \A i \in 1 .. k :
          o.events[i].previous = IF i = 1 THEN o.first ELSE o.events[i - 1].stage
    BY DEF Follows, k
  <2>2. o.stage = IF k = 0 THEN o.first ELSE o.events[k].stage
    BY DEF Follows, k
  <2> SUFFICES ASSUME NEW i \in 1 .. k + 1
               PROVE  p.events[i].previous = IF i = 1 THEN p.first ELSE p.events[i - 1].stage
    OBVIOUS
  <2>3. CASE i \in 1 .. k
    <3>1. i = 1 \/ i - 1 \in 1 .. k
      BY <1>1, <2>3
    <3> QED
      BY <1>7, <1>9, <2>1, <2>3, <3>1
  <2>4. CASE i = k + 1
    <3>1. CASE k = 0
      BY <1>1, <1>3, <1>7, <1>9, <2>2, <2>4, <3>1
    <3>2. CASE k # 0
      <4>1. k \in 1 .. k /\ i # 1 /\ i - 1 = k
        BY <1>1, <2>4, <3>2
      <4> QED
        BY <1>3, <1>9, <2>2, <2>4, <3>2, <4>1
    <3> QED
      BY <3>1, <3>2
  <2> QED
    BY <1>1, <2>3, <2>4
<1>12. \A i \in 1 .. k + 1 :
         p.events[i].status # "OPEN" => i = k + 1 /\ p.events[i].source = "USER"
  BY <1>1, <1>3, <1>9, <1>10 DEF MayMove
<1>13. k + 1 # 0 /\ k + 1 > 0 /\ k + 2 = (k + 1) + 1
  BY <1>1
<1>14. /\ p.stage = p.events[k + 1].stage
       /\ p.status # "OPEN" <=> p.events[k + 1].status # "OPEN"
       /\ p.status = "WON" => p.customer
       /\ p.status = "LOST" => p.reason
  BY <1>3, <1>7, <1>9 DEF MayMove, c, r
<1>15. Follows(p)
  BY <1>7, <1>9, <1>11, <1>12, <1>13, <1>14 DEF Follows
<1> QED
  BY <1>8, <1>15, <1>6

LEMMA CrmStarts == CrmInit => CrmInv
<1> SUFFICES ASSUME CrmInit PROVE CrmInv
  OBVIOUS
<1>1. \A l \in Leads : leads[l] = "NEW" /\ opportunities[l] = NoOpportunity
  BY DEF CrmInit
<1> QED
  BY <1>1, FollowingAll DEF CrmInv, CrmInit

LEMMA CrmKeeps == ASSUME CrmInv, [CrmNext]_crmVars PROVE CrmInv'
<1> USE DEF CrmInv
<1>1. CASE UNCHANGED crmVars
  BY <1>1 DEF crmVars, OpportunitiesFollowTheirEvents
<1>2. ASSUME NEW l \in Leads, QualifyLead(l) PROVE CrmInv'
  BY <1>2 DEF QualifyLead, OpportunitiesFollowTheirEvents
<1>3. ASSUME NEW l \in Leads, NEW g \in DOMAIN Stages, ConvertLeadToOpportunity(l, g) PROVE CrmInv'
  <2> DEFINE o == [status |-> "OPEN", first |-> g, stage |-> g, customer |-> FALSE,
                   reason |-> FALSE, version |-> 1, events |-> << >>]
  <2>1. /\ leads' = [leads EXCEPT ![l] = "CONVERTED"]
        /\ opportunities' = [opportunities EXCEPT ![l] = o]
    BY <1>3 DEF ConvertLeadToOpportunity
  <2>2. o \in Opportunity
    BY DEF Opportunity
  <2>3. Follows(o)
    BY DEF Follows
  <2>4. o # NoOpportunity
    BY <2>2, OpportunityIsOne
  <2> HIDE DEF o
  <2>5. \A k \in Leads :
          /\ leads'[k] = "CONVERTED" <=> opportunities'[k] # NoOpportunity
          /\ opportunities'[k] # NoOpportunity => Follows(opportunities'[k])
    BY <2>1, <2>3, <2>4, FollowingAll
  <2>6. OpportunitiesFollowTheirEvents'
    BY <2>5 DEF OpportunitiesFollowTheirEvents, Follows
  <2> QED
    BY <2>1, <2>2, <2>6
<1>4. ASSUME NEW l \in Leads, NEW g \in DOMAIN Stages, NEW source \in {"USER", "AI_RECOMMENDATION"},
             NEW customer \in BOOLEAN, NEW reason \in BOOLEAN,
             TransitionOpportunity(l, g, source, customer, reason)
      PROVE  CrmInv'
  <2> DEFINE o == opportunities[l]
             p == Progressed(o, g, source, customer, reason)
  <2>1. /\ o # NoOpportunity /\ MayMove(o, g, source, customer, reason)
        /\ leads' = leads
        /\ opportunities' = [opportunities EXCEPT ![l] = p]
    BY <1>4 DEF TransitionOpportunity, Progressed
  <2>2. o \in Opportunity /\ Follows(o) /\ leads[l] = "CONVERTED"
    BY <2>1, FollowingAll
  <2>3. p \in Opportunity /\ Follows(p)
    <3> HIDE DEF o
    <3> QED
      BY <2>1, <2>2, MovingFollows
  <2>4. p # NoOpportunity
    BY <2>3, OpportunityIsOne
  <2> HIDE DEF p
  <2>5. \A k \in Leads :
          /\ leads'[k] = "CONVERTED" <=> opportunities'[k] # NoOpportunity
          /\ opportunities'[k] # NoOpportunity => Follows(opportunities'[k])
    BY <2>1, <2>2, <2>3, <2>4, FollowingAll
  <2>6. OpportunitiesFollowTheirEvents'
    BY <2>5 DEF OpportunitiesFollowTheirEvents, Follows
  <2> QED
    BY <2>1, <2>3, <2>6
<1> QED
  BY <1>1, <1>2, <1>3, <1>4 DEF CrmNext

-----------------------------------------------------------------------------
(* Lifecycles: every status a record has been in was led to by another.    *)

LifecyclesInv ==
  /\ record = [kind |-> record.kind, status |-> record.status, been |-> record.been,
               shown |-> record.shown]
  /\ record.kind \in DOMAIN Transitions
  /\ record.status \in record.been
  /\ record.been \subseteq DOMAIN Transitions[record.kind]
  /\ \A s \in record.been \ {First[record.kind]} :
       \E r \in record.been : s \in Transitions[record.kind][r]
  /\ record.status \in Closing[record.kind] => record.shown
  /\ \A s \in record.been : Transitions[record.kind][s] = {} => record.status = s

\* The kinds of records.
LEMMA KindsOfRecords ==
  DOMAIN Transitions = {"PROJECT", "EMPLOYEE", "CORRECTIVE_ACTION", "INCIDENT", "WORK_ORDER"}
  BY DEF Transitions

\* A table leads nowhere but to the statuses it has.
LEMMA TablesAreClosed ==
  \A k \in DOMAIN Transitions : \A s \in DOMAIN Transitions[k] :
    Transitions[k][s] \subseteq DOMAIN Transitions[k]
<1> SUFFICES ASSUME NEW k \in DOMAIN Transitions, NEW s \in DOMAIN Transitions[k]
             PROVE  Transitions[k][s] \subseteq DOMAIN Transitions[k]
  OBVIOUS
<1>1. CASE k = "PROJECT"
  BY <1>1 DEF Transitions
<1>2. CASE k = "EMPLOYEE"
  BY <1>2 DEF Transitions
<1>3. CASE k = "CORRECTIVE_ACTION"
  BY <1>3 DEF Transitions
<1>4. CASE k = "INCIDENT"
  BY <1>4 DEF Transitions
<1>5. CASE k = "WORK_ORDER"
  BY <1>5 DEF Transitions
<1> QED
  BY <1>1, <1>2, <1>3, <1>4, <1>5, KindsOfRecords

\* A record begins in the first status of its kind, which is no closure and not the end.
LEMMA LifecyclesStart == LifecyclesInit => LifecyclesInv
<1> SUFFICES ASSUME NEW kind \in DOMAIN Transitions,
                    record = [kind |-> kind, status |-> First[kind], been |-> {First[kind]},
                              shown |-> FALSE]
             PROVE  LifecyclesInv
  BY DEF LifecyclesInit
<1>1. /\ record.kind = kind /\ record.status = First[kind] /\ record.been = {First[kind]}
  OBVIOUS
<1>2. First[kind] \in DOMAIN Transitions[kind] /\ First[kind] \notin Closing[kind]
  <2>1. CASE kind = "PROJECT"
    BY <2>1 DEF Transitions, First, Closing
  <2>2. CASE kind = "EMPLOYEE"
    BY <2>2 DEF Transitions, First, Closing
  <2>3. CASE kind = "CORRECTIVE_ACTION"
    BY <2>3 DEF Transitions, First, Closing
  <2>4. CASE kind = "INCIDENT"
    BY <2>4 DEF Transitions, First, Closing
  <2>5. CASE kind = "WORK_ORDER"
    BY <2>5 DEF Transitions, First, Closing
  <2> QED
    BY <2>1, <2>2, <2>3, <2>4, <2>5, KindsOfRecords
<1> QED
  BY <1>1, <1>2 DEF LifecyclesInv

\* A step goes on from where the record is, so that nothing ended before it.
LEMMA GoingOn ==
  ASSUME LifecyclesInv, NEW target \in Transitions[record.kind][record.status], NEW shown,
         target \in Closing[record.kind] => shown, Goes(target, shown)
  PROVE  LifecyclesInv'
<1> DEFINE k == record.kind
<1>1. record' = [kind |-> k, status |-> target, been |-> record.been \cup {target},
                 shown |-> shown]
  BY DEF LifecyclesInv, Goes
<1>2. /\ record'.kind = k /\ record'.status = target /\ record'.shown = shown
      /\ record'.been = record.been \cup {target}
  BY <1>1
<1>3. target \in DOMAIN Transitions[k]
  BY TablesAreClosed DEF LifecyclesInv
<1>4. \A s \in record'.been \ {First[k]} : \E r \in record'.been : s \in Transitions[k][r]
  BY <1>2 DEF LifecyclesInv
<1>5. \A s \in record'.been : Transitions[k][s] = {} => s = target
  BY <1>2 DEF LifecyclesInv
<1>6. record' = [kind |-> record'.kind, status |-> record'.status, been |-> record'.been,
                 shown |-> record'.shown]
  BY <1>1, <1>2
<1> HIDE DEF k
<1>7. k \in DOMAIN Transitions /\ record.been \subseteq DOMAIN Transitions[k]
  BY DEF LifecyclesInv, k
<1>8. target \in Closing[k] => shown
  BY DEF k
<1> QED
  BY <1>2, <1>3, <1>4, <1>5, <1>6, <1>7, <1>8 DEF LifecyclesInv

LEMMA LifecyclesKeep ==
  ASSUME LifecyclesInv, [LifecyclesNext]_record
  PROVE  LifecyclesInv'
<1>1. CASE UNCHANGED record
  BY <1>1 DEF LifecyclesInv
<1>2. ASSUME NEW target, NEW shown, Transition(target, shown)
      PROVE  LifecyclesInv'
  BY <1>2, GoingOn DEF Transition
<1>3. CASE CompleteEmployeeExit
  BY <1>3, GoingOn DEF CompleteEmployeeExit
<1> QED
  BY <1>1, <1>2, <1>3 DEF LifecyclesNext

\* Each status that comes before another is the only one, or one of two, to lead there.
LEMMA EarnedBySteps == LifecyclesInv => ClosuresAreEarned
<1> SUFFICES ASSUME LifecyclesInv PROVE ClosuresAreEarned
  OBVIOUS
<1> DEFINE been == record.been
<1>1. /\ record.status \in been
      /\ \A s \in been \ {First[record.kind]} : \E r \in been : s \in Transitions[record.kind][r]
      /\ been \subseteq DOMAIN Transitions[record.kind]
  BY DEF LifecyclesInv
<1> HIDE DEF been
<1>2. ASSUME record.kind = "PROJECT"
      PROVE  /\ "COMPLETED" \in been => {"ACTIVE", "AT_RISK"} \cap been # {}
             /\ "ARCHIVED" \in been => {"COMPLETED", "CANCELLED"} \cap been # {}
  BY <1>1, <1>2 DEF Transitions, First
<1>3. ASSUME record.kind = "EMPLOYEE"
      PROVE  "EXITED" \in been => {"INACTIVE"} \cap been # {}
  BY <1>1, <1>3 DEF Transitions, First
<1>4. ASSUME record.kind = "INCIDENT"
      PROVE  "CLOSED" \in been => {"UNDER_INVESTIGATION"} \cap been # {}
  <2>1. "ACTION_REQUIRED" \in been => "UNDER_INVESTIGATION" \in been
    BY <1>1, <1>4 DEF Transitions, First
  <2> QED
    BY <2>1, <1>1, <1>4 DEF Transitions, First
<1>5. ASSUME record.kind = "CORRECTIVE_ACTION", "CLOSED" \in been
      PROVE  "VERIFICATION_PENDING" \in been /\ "IN_PROGRESS" \in been
  <2>1. "VERIFICATION_PENDING" \in been
    BY <1>1, <1>5 DEF Transitions, First
  <2> QED
    BY <2>1, <1>1, <1>5 DEF Transitions, First
<1>6. ASSUME record.kind = "WORK_ORDER", "COMPLETED" \in been
      PROVE  "VERIFICATION_PENDING" \in been /\ "IN_PROGRESS" \in been
  <2>1. "VERIFICATION_PENDING" \in been
    BY <1>1, <1>6 DEF Transitions, First
  <2> QED
    BY <2>1, <1>1, <1>6 DEF Transitions, First
<1>7. /\ record.status \in Closing[record.kind] => record.shown
      /\ \A s \in record.been : Transitions[record.kind][s] = {} => record.status = s
  BY DEF LifecyclesInv
<1> QED
  BY <1>1, <1>2, <1>3, <1>4, <1>5, <1>6, <1>7 DEF ClosuresAreEarned, Comes, been

-----------------------------------------------------------------------------
(* Assets: an asset is where its last assignment, and no other, leaves it. *)

Assignment == [location : Locations, from : Nat, until : Int]

AssetsInv ==
  /\ assignments \in Seq(Assignment) /\ Len(assignments) > 0
  /\ \A n \in 1 .. Len(assignments) :
       assignments[n].until = NotYet => n = Len(assignments)
  /\ AssignmentsFollowEachOther

LEMMA AssetsStart == AssetsInit => AssetsInv
<1> SUFFICES ASSUME AssetsInit, NEW l \in Locations,
                    assignments = <<[location |-> l, from |-> 0, until |-> NotYet]>>
             PROVE  AssetsInv
  BY DEF AssetsInit
<1> DEFINE first == [location |-> l, from |-> 0, until |-> NotYet]
<1>1. first \in Assignment /\ first.until = NotYet
  BY DEF Assignment, NotYet
<1> HIDE DEF first
<1>2. /\ assignments \in Seq(Assignment) /\ Len(assignments) = 1 /\ assignments[1] = first
      /\ DOMAIN assignments = 1 .. 1
  BY <1>1 DEF first
<1>3. status # "RETIRED"
  BY DEF AssetsInit
<1> QED
  BY <1>1, <1>2, <1>3 DEF AssetsInv, AssignmentsFollowEachOther

\* A transfer ends the assignment that is not over, which is the last.
LEMMA TransferFollows ==
  ASSUME AssetsInv, NEW n \in DOMAIN assignments, NEW l \in Locations, NEW at \in Nat,
         TransferAsset(n, l, at)
  PROVE  AssetsInv'
<1> DEFINE last == [assignments[n] EXCEPT !.until = at]
           next == [location |-> l, from |-> at, until |-> NotYet]
           ended == [assignments EXCEPT ![n] = last]
<1> SUFFICES ASSUME NEW k, k = Len(assignments) PROVE AssetsInv'
  OBVIOUS
<1>1. /\ assignments \in Seq(Assignment) /\ k \in Nat /\ k > 0 /\ n \in 1 .. k
      /\ DOMAIN assignments = 1 .. k
  BY DEF AssetsInv
<1>2. \A i \in 1 .. k : assignments[i] \in Assignment
  BY <1>1, ElementOfSeq
<1>3. n = k
  BY <1>1 DEF TransferAsset, MayTransfer, AssetsInv
<1>4. /\ last \in Assignment /\ last.until = at /\ last.location = assignments[k].location
      /\ last.from = assignments[k].from
  BY <1>1, <1>2, <1>3 DEF Assignment
<1>5. next \in Assignment /\ next.location = l /\ next.from = at /\ next.until = NotYet
  BY DEF Assignment, NotYet
<1>6. /\ last.location # l /\ at >= last.from /\ status' = "ASSIGNED"
      /\ assignments' = Append(ended, next)
  BY <1>3, <1>4 DEF TransferAsset, MayTransfer
<1> HIDE DEF last, next
<1>7. /\ ended \in Seq(Assignment) /\ Len(ended) = k /\ ended[k] = last
      /\ \A i \in 1 .. k - 1 : ended[i] = assignments[i]
  BY <1>1, <1>3, <1>4
<1> HIDE DEF ended
<1>8. /\ assignments' \in Seq(Assignment) /\ Len(assignments') = k + 1
      /\ assignments'[k + 1] = next /\ assignments'[k] = last
      /\ \A i \in 1 .. k - 1 : assignments'[i] = assignments[i]
  BY <1>1, <1>5, <1>6, <1>7, AppendProperties
<1>9. \A i \in 1 .. k - 1 : /\ assignments[i].until = assignments[i + 1].from
                            /\ assignments[i].until >= assignments[i].from
                            /\ assignments[i].location # assignments[i + 1].location
                            /\ assignments[i].until # NotYet
  BY <1>1 DEF AssetsInv, AssignmentsFollowEachOther
<1>10. \A i \in 1 .. k : /\ assignments'[i].until = assignments'[i + 1].from
                         /\ assignments'[i].until >= assignments'[i].from
                         /\ assignments'[i].location # assignments'[i + 1].location
                         /\ assignments'[i].until # NotYet
  <2> TAKE i \in 1 .. k
  <2>1. CASE i = k
    BY <2>1, <1>1, <1>4, <1>5, <1>6, <1>8 DEF NotYet
  <2>2. CASE i = k - 1
    BY <2>2, <1>1, <1>3, <1>4, <1>8, <1>9
  <2>3. CASE i < k - 1
    BY <2>3, <1>1, <1>8, <1>9
  <2> QED
    BY <2>1, <2>2, <2>3, <1>1
<1>11. DOMAIN assignments' = 1 .. k + 1
  BY <1>8
<1> QED
  BY <1>1, <1>5, <1>6, <1>8, <1>10, <1>11 DEF AssetsInv, AssignmentsFollowEachOther

LEMMA AssetsKeep ==
  ASSUME AssetsInv, [AssetsNext]_assetsVars
  PROVE  AssetsInv'
<1>1. CASE UNCHANGED assetsVars
  BY <1>1 DEF assetsVars, AssetsInv, AssignmentsFollowEachOther
<1>2. CASE RetireAsset
  BY <1>2 DEF RetireAsset, AssetsInv, AssignmentsFollowEachOther
<1>3. ASSUME NEW n \in DOMAIN assignments, NEW l \in Locations, NEW at \in 0 .. Clock,
             TransferAsset(n, l, at)
      PROVE  AssetsInv'
  BY <1>3, TransferFollows
<1> QED
  BY <1>1, <1>2, <1>3 DEF AssetsNext

-----------------------------------------------------------------------------
(* Records: what is in work does not get in the way of what is kept.       *)

FirstStatuses == UNION {InitialStatuses(k) : k \in Kinds}
RowStatuses == FirstStatuses \cup {"completed"}
Row == [kind : Kinds, company : {CompanyAt[c] : c \in Clients}, code : Codes, parent : Nat,
        status : RowStatuses, version : Nat]
AuditEntry == [action : {"created"}, of : Nat]
         \cup [action : {"completed"}, of : Nat, document : DOMAIN Evidence]
Work == {Idle} \cup [op : {"create"}, row : Row]
               \cup [op : {"complete"}, of : Nat, document : DOMAIN Evidence]

RecordsTypeOK ==
  /\ table \in Seq(Row)
  /\ audit \in Seq(AuditEntry)
  /\ inWork \in [Clients -> Work]

\* A row that is being created may be put beside those there are.
CreatesWell(w) ==
  w.op = "create" =>
    /\ w.row.version = 1
    /\ w.row.kind = "workOrder" => w.row.status # "completed"
    /\ w.row.kind \in Checked => /\ w.row.parent \in 1 .. Len(table)
                                 /\ table[w.row.parent].company = w.row.company
    /\ \A n \in 1 .. Len(table) : ~SameKey(w.row, table[n])

\* A work order that is being completed is not yet.
CompletesWell(w) ==
  w.op = "complete" =>
    /\ w.of \in 1 .. Len(table)
    /\ table[w.of].kind = "workOrder"
    /\ table[w.of].status \in {"scheduled", "in_progress"}
    /\ Evidence[w.document] = table[w.of].company

Apart(v, w) ==
  /\ ~(v.op = "create" /\ w.op = "create" /\ SameKey(v.row, w.row))
  /\ ~(v.op = "complete" /\ w.op = "complete" /\ v.of = w.of)

WorkIsSound ==
  /\ \A c \in Clients : CreatesWell(inWork[c]) /\ CompletesWell(inWork[c])
  /\ \A c, d \in Clients : c # d => Apart(inWork[c], inWork[d])

\* What RecordsAreAudited says of one record, and that its parent is there.
Audited(n) ==
  /\ Cardinality(AuditedAs(n, "created")) = 1
  /\ Cardinality(AuditedAs(n, "completed")) =
       IF table[n].kind = "workOrder" /\ table[n].status = "completed" THEN 1 ELSE 0
  /\ table[n].version = 1 + Cardinality(AuditedAs(n, "completed"))
  /\ \A i \in AuditedAs(n, "completed") : Evidence[audit[i].document] = table[n].company
  /\ table[n].kind \in Checked => /\ table[n].parent \in 1 .. Len(table)
                                  /\ table[table[n].parent].company = table[n].company

RecordsInv ==
  /\ RecordsTypeOK
  /\ WorkIsSound
  /\ \A i \in 1 .. Len(audit) : audit[i].of \in 1 .. Len(table)
  /\ \A n \in 1 .. Len(table) : Audited(n)
  /\ \A m, n \in 1 .. Len(table) : SameKey(table[m], table[n]) => m = n

LEMMA AuditedAll == RecordsInv => RecordsAreAudited
<1> SUFFICES ASSUME RecordsInv PROVE RecordsAreAudited
  OBVIOUS
<1>1. DOMAIN table = 1 .. Len(table)
  BY DEF RecordsInv, RecordsTypeOK
<1> QED
  BY <1>1 DEF RecordsInv, Audited, RecordsAreAudited

LEMMA RecordsStart == RecordsInit => RecordsInv
<1> SUFFICES ASSUME RecordsInit PROVE RecordsInv
  OBVIOUS
<1>1. table = <<>> /\ audit = <<>> /\ Len(table) = 0 /\ Len(audit) = 0
  BY DEF RecordsInit
<1>2. \A c \in Clients : inWork[c] = Idle
  BY DEF RecordsInit
<1>3. RecordsTypeOK
  BY <1>1 DEF RecordsInit, RecordsTypeOK, Work
<1>4. WorkIsSound
  BY <1>2 DEF WorkIsSound, CreatesWell, CompletesWell, Apart, Idle
<1> QED
  BY <1>1, <1>3, <1>4 DEF RecordsInv

\* Two rows are in the way of each other, whichever is looked at.
LEMMA SameKeyIsMutual == \A r, s : SameKey(r, s) => SameKey(s, r)
  BY DEF SameKey

\* What was audited of a record is a finite set of places in the audit.
LEMMA AuditedIsFinite ==
  ASSUME RecordsTypeOK, NEW n, NEW action
  PROVE  IsFiniteSet(AuditedAs(n, action))
<1>1. DOMAIN audit = 1 .. Len(audit) /\ Len(audit) \in Nat
  BY LenProperties DEF RecordsTypeOK
<1>2. IsFiniteSet(1 .. Len(audit))
  BY <1>1, FS_Interval
<1> QED
  BY <1>1, <1>2, FS_Subset DEF AuditedAs

\* While a transaction works nothing is kept: it has only to be sound itself.
LEMMA WorkingIsKept ==
  ASSUME RecordsInv, NEW c \in Clients, NEW w \in Work,
         inWork' = [inWork EXCEPT ![c] = w], UNCHANGED <<table, audit>>,
         CreatesWell(w), CompletesWell(w),
         \A d \in Clients : d # c => Apart(w, inWork[d]) /\ Apart(inWork[d], w)
  PROVE  RecordsInv'
<1>1. RecordsTypeOK'
  BY DEF RecordsInv, RecordsTypeOK
<1>2. \A d \in Clients : inWork'[d] = IF d = c THEN w ELSE inWork[d]
  BY DEF RecordsInv, RecordsTypeOK
<1>3. ASSUME NEW v PROVE (CreatesWell(v) => CreatesWell(v)') /\ (CompletesWell(v) => CompletesWell(v)')
  BY DEF CreatesWell, CompletesWell
<1>4. WorkIsSound'
  <2>1. ASSUME NEW d \in Clients PROVE (CreatesWell(inWork[d]) /\ CompletesWell(inWork[d]))'
    <3>1. CreatesWell(inWork'[d])
      BY <1>2 DEF RecordsInv, WorkIsSound
    <3>2. CompletesWell(inWork'[d])
      BY <1>2 DEF RecordsInv, WorkIsSound
    <3> QED
      BY <3>1, <3>2 DEF CreatesWell, CompletesWell
  <2>2. ASSUME NEW d \in Clients, NEW e \in Clients, d # e
        PROVE  Apart(inWork'[d], inWork'[e])
    BY <2>2, <1>2 DEF RecordsInv, WorkIsSound
  <2> QED
    BY <2>1, <2>2 DEF WorkIsSound, Apart
<1>5. ASSUME NEW n \in 1 .. Len(table) PROVE Audited(n)'
  BY DEF RecordsInv, Audited, AuditedAs
<1> QED
  BY <1>1, <1>4, <1>5 DEF RecordsInv

LEMMA CreatingIsKept ==
  ASSUME RecordsInv, NEW c \in Clients, NEW kind \in Kinds, NEW code \in Codes,
         NEW parent \in {NoParent} \cup DOMAIN table, NEW status0,
         CreateRecord(c, kind, code, parent, status0)
  PROVE  RecordsInv'
<1> DEFINE row == [kind |-> kind, company |-> CompanyAt[c], code |-> code, parent |-> parent,
                   status |-> status0, version |-> 1]
           w == [op |-> "create", row |-> row]
<1>1. DOMAIN table = 1 .. Len(table) /\ Len(table) \in Nat
  BY LenProperties DEF RecordsInv, RecordsTypeOK
<1>2. /\ status0 \in InitialStatuses(kind)
      /\ MayBelong(kind, parent, CompanyAt[c])
      /\ \A n \in DOMAIN table : ~SameKey(row, table[n])
      /\ \A d \in Clients : inWork[d].op = "create" => ~SameKey(row, inWork[d].row)
      /\ inWork' = [inWork EXCEPT ![c] = w]
      /\ UNCHANGED <<table, audit>>
  BY DEF CreateRecord
<1>3. /\ row.kind = kind /\ row.company = CompanyAt[c] /\ row.parent = parent
      /\ row.status = status0 /\ row.version = 1
  OBVIOUS
<1>4. row \in Row
  BY <1>1, <1>2 DEF Row, RowStatuses, FirstStatuses, NoParent
<1>5. kind = "workOrder" => status0 # "completed"
  BY <1>2 DEF InitialStatuses
<1>6. kind \in Checked => /\ parent \in 1 .. Len(table)
                          /\ table[parent].company = CompanyAt[c]
  BY <1>1, <1>2, RecordsAssumption DEF MayBelong
<1> HIDE DEF row
<1>7. w \in Work /\ w.op = "create" /\ w.row = row
  BY <1>4 DEF Work
<1>8. CreatesWell(w)
  BY <1>1, <1>2, <1>3, <1>5, <1>6, <1>7 DEF CreatesWell
<1>9. CompletesWell(w)
  BY <1>7 DEF CompletesWell
<1>10. \A d \in Clients : Apart(w, inWork[d]) /\ Apart(inWork[d], w)
  BY <1>2, <1>7, SameKeyIsMutual DEF Apart
<1> HIDE DEF w
<1> QED
  BY <1>2, <1>7, <1>8, <1>9, <1>10, WorkingIsKept

LEMMA CompletingIsKept ==
  ASSUME RecordsInv, NEW c \in Clients, NEW n \in DOMAIN table,
         NEW document \in DOMAIN Evidence, CompleteWorkOrder(c, n, document)
  PROVE  RecordsInv'
<1> DEFINE w == [op |-> "complete", of |-> n, document |-> document]
<1>1. DOMAIN table = 1 .. Len(table) /\ Len(table) \in Nat
  BY LenProperties DEF RecordsInv, RecordsTypeOK
<1>2. /\ \A d \in Clients : inWork[d].op = "complete" => inWork[d].of # n
      /\ inWork' = [inWork EXCEPT ![c] = w]
      /\ UNCHANGED <<table, audit>>
  BY DEF CompleteWorkOrder, Updates
<1>3. w \in Work /\ w.op = "complete" /\ w.of = n /\ w.document = document
  BY <1>1 DEF Work
<1>4. CompletesWell(w) /\ CreatesWell(w)
  BY <1>1, <1>3 DEF CreatesWell, CompletesWell, CompleteWorkOrder
<1>5. \A d \in Clients : Apart(w, inWork[d]) /\ Apart(inWork[d], w)
  BY <1>2, <1>3 DEF Apart
<1> HIDE DEF w
<1> QED
  BY <1>2, <1>3, <1>4, <1>5, WorkingIsKept

LEMMA RollingBackIsKept ==
  ASSUME RecordsInv, NEW c \in Clients, RollBackWork(c)
  PROVE  RecordsInv'
<1>1. Idle \in Work /\ Idle.op = "none"
  BY DEF Work, Idle
<1>2. CreatesWell(Idle) /\ CompletesWell(Idle)
  BY <1>1 DEF CreatesWell, CompletesWell
<1>3. \A d \in Clients : Apart(Idle, inWork[d]) /\ Apart(inWork[d], Idle)
  BY <1>1 DEF Apart
<1> QED
  BY <1>1, <1>2, <1>3, WorkingIsKept DEF RollBackWork

\* What an entry that is added to the audit tells of.
LEMMA AuditingOneMore ==
  ASSUME RecordsTypeOK, NEW e \in AuditEntry, audit' = Append(audit, e), NEW n, NEW action
  PROVE  /\ ~(e.of = n /\ e.action = action) => AuditedAs(n, action)' = AuditedAs(n, action)
         /\ e.of = n /\ e.action = action =>
              /\ AuditedAs(n, action)' = AuditedAs(n, action) \cup {Len(audit) + 1}
              /\ Cardinality(AuditedAs(n, action)') = Cardinality(AuditedAs(n, action)) + 1
<1> SUFFICES ASSUME NEW k, k = Len(audit)
             PROVE  /\ ~(e.of = n /\ e.action = action) => AuditedAs(n, action)' = AuditedAs(n, action)
                    /\ e.of = n /\ e.action = action =>
                         /\ AuditedAs(n, action)' = AuditedAs(n, action) \cup {k + 1}
                         /\ Cardinality(AuditedAs(n, action)') = Cardinality(AuditedAs(n, action)) + 1
  OBVIOUS
<1>1. k \in Nat /\ DOMAIN audit = 1 .. k
  BY LenProperties DEF RecordsTypeOK
<1>2. /\ DOMAIN audit' = 1 .. k + 1 /\ audit'[k + 1] = e
      /\ \A i \in 1 .. k : audit'[i] = audit[i]
  BY <1>1 DEF RecordsTypeOK
<1>3. ~(e.of = n /\ e.action = action) => AuditedAs(n, action)' = AuditedAs(n, action)
  BY <1>1, <1>2 DEF AuditedAs
<1>4. e.of = n /\ e.action = action => AuditedAs(n, action)' = AuditedAs(n, action) \cup {k + 1}
  BY <1>1, <1>2 DEF AuditedAs
<1>5. k + 1 \notin AuditedAs(n, action)
  BY <1>1 DEF AuditedAs
<1>6. Cardinality(AuditedAs(n, action) \cup {k + 1}) = Cardinality(AuditedAs(n, action)) + 1
  <2> DEFINE S == AuditedAs(n, action)
  <2>1. IsFiniteSet(S) /\ k + 1 \notin S
    BY <1>5, AuditedIsFinite
  <2> HIDE DEF S
  <2>2. Cardinality(S \cup {k + 1}) = Cardinality(S) + 1
    BY <2>1, FS_AddElement
  <2> QED
    BY <2>2 DEF S
<1> QED
  BY <1>3, <1>4, <1>6

\* A row that is committed is new: nothing was audited of it, and no row has its key.
LEMMA CommittingCreated ==
  ASSUME RecordsInv, NEW c \in Clients, inWork[c].op = "create", CommitWork(c)
  PROVE  RecordsInv'
<1> DEFINE w == inWork[c]
           row == w.row
<1> SUFFICES ASSUME NEW k, k = Len(table) PROVE RecordsInv'
  OBVIOUS
<1>1. RecordsTypeOK /\ WorkIsSound
  BY DEF RecordsInv
<1>2. w \in Work /\ Idle.op = "none" /\ Idle \in Work
  BY <1>1 DEF RecordsTypeOK, Idle, Work
<1>3. row \in Row
  BY <1>2 DEF Work
<1>4. /\ k \in Nat /\ DOMAIN table = 1 .. k
      /\ table \in Seq(Row) /\ audit \in Seq(AuditEntry)
  BY <1>1, LenProperties DEF RecordsTypeOK
<1> DEFINE e == [action |-> "created", of |-> k + 1]
<1>5. /\ inWork' = [inWork EXCEPT ![c] = Idle]
      /\ table' = Append(table, row)
      /\ audit' = Append(audit, e)
  BY DEF CommitWork
<1>6. e \in AuditEntry /\ e.of = k + 1 /\ e.action = "created"
  BY <1>4 DEF AuditEntry
<1>7. /\ row.version = 1
      /\ row.kind = "workOrder" => row.status # "completed"
      /\ row.kind \in Checked => row.parent \in 1 .. k /\ table[row.parent].company = row.company
      /\ \A n \in 1 .. k : ~SameKey(row, table[n])
  BY <1>1 DEF WorkIsSound, CreatesWell
<1>8. \A d \in Clients : d # c /\ inWork[d].op = "create" => ~SameKey(inWork[d].row, row)
  BY <1>1 DEF WorkIsSound, Apart
<1> HIDE DEF e, row
<1>9. /\ table' \in Seq(Row) /\ Len(table') = k + 1 /\ table'[k + 1] = row
      /\ \A n \in 1 .. k : table'[n] = table[n]
  BY <1>3, <1>4, <1>5, AppendProperties
<1>10. RecordsTypeOK'
  BY <1>1, <1>2, <1>4, <1>5, <1>6, <1>9 DEF RecordsTypeOK
<1>11. \A d \in Clients : inWork'[d] = IF d = c THEN Idle ELSE inWork[d]
  BY <1>1, <1>5 DEF RecordsTypeOK
<1>12. WorkIsSound'
  <2>1. ASSUME NEW d \in Clients PROVE CreatesWell(inWork[d])'
    <3>1. CASE d = c
      BY <3>1, <1>2, <1>11 DEF CreatesWell
    <3>2. CASE d # c /\ inWork[d].op = "create"
      <4>1. CreatesWell(inWork[d])
        BY <1>1 DEF WorkIsSound
      <4>2. inWork'[d] = inWork[d] /\ \A n \in 1 .. k + 1 : ~SameKey(inWork[d].row, table'[n])
        BY <3>2, <4>1, <1>4, <1>8, <1>9, <1>11 DEF CreatesWell
      <4> QED
        BY <3>2, <4>1, <4>2, <1>4, <1>9 DEF CreatesWell
    <3>3. CASE d # c /\ inWork[d].op # "create"
      BY <3>3, <1>11 DEF CreatesWell
    <3> QED
      BY <3>1, <3>2, <3>3
  <2>2. ASSUME NEW d \in Clients PROVE CompletesWell(inWork[d])'
    <3>1. CASE d = c
      BY <3>1, <1>2, <1>11 DEF CompletesWell
    <3>2. CASE d # c
      <4>1. CompletesWell(inWork[d])
        BY <1>1 DEF WorkIsSound
      <4> QED
        BY <3>2, <4>1, <1>4, <1>9, <1>11 DEF CompletesWell
    <3> QED
      BY <3>1, <3>2
  <2>3. ASSUME NEW d \in Clients, NEW f \in Clients, d # f
        PROVE  Apart(inWork'[d], inWork'[f])
    BY <2>3, <1>1, <1>2, <1>11 DEF WorkIsSound, Apart
  <2> QED
    BY <2>1, <2>2, <2>3 DEF WorkIsSound, Apart
<1>13. \A i \in 1 .. Len(audit) : audit[i].of \in 1 .. k
  BY DEF RecordsInv
<1>14. \A i \in 1 .. Len(audit') : audit'[i].of \in 1 .. k + 1
  BY <1>13, <1>4, <1>5, <1>6
<1>15. ASSUME NEW n \in 1 .. k PROVE Audited(n)'
  <2>1. Audited(n)
    BY DEF RecordsInv
  <2>2. /\ AuditedAs(n, "created")' = AuditedAs(n, "created")
        /\ AuditedAs(n, "completed")' = AuditedAs(n, "completed")
    BY <1>1, <1>4, <1>5, <1>6, AuditingOneMore
  <2>3. \A i \in AuditedAs(n, "completed") : audit'[i] = audit[i]
    BY <1>4, <1>5 DEF AuditedAs
  <2>4. table[n].kind \in Checked => table'[table[n].parent] = table[table[n].parent]
    BY <2>1, <1>9 DEF Audited
  <2> QED
    BY <2>1, <2>2, <2>3, <2>4, <1>4, <1>9 DEF Audited
<1>16. Audited(k + 1)'
  <2>1. AuditedAs(k + 1, "created") = {} /\ AuditedAs(k + 1, "completed") = {}
    BY <1>4, <1>13 DEF AuditedAs
  <2>2. Cardinality(AuditedAs(k + 1, "created")) = 0
    BY <2>1, FS_EmptySet
  <2>3. /\ Cardinality(AuditedAs(k + 1, "created")') = 1
        /\ AuditedAs(k + 1, "completed")' = {}
    BY <2>1, <2>2, <1>1, <1>5, <1>6, AuditingOneMore
  <2>5. Cardinality(AuditedAs(k + 1, "completed")') = 0
    BY <2>3, FS_EmptySet
  <2>4. row.kind \in Checked => table'[row.parent] = table[row.parent]
    BY <1>7, <1>9
  <2>6. k + 1 \in 1 .. k + 1 /\ k + 1 > 0
    BY <1>4
  <2> QED
    BY <2>3, <2>4, <2>5, <2>6, <1>4, <1>7, <1>9 DEF Audited
<1>17. ASSUME NEW m \in 1 .. k + 1, NEW n \in 1 .. k + 1, SameKey(table'[m], table'[n])
       PROVE  m = n
  BY <1>17, <1>4, <1>7, <1>9, SameKeyIsMutual DEF RecordsInv
<1>18. ASSUME NEW n \in 1 .. k + 1 PROVE Audited(n)'
  <2>1. n \in 1 .. k \/ n = k + 1
    BY <1>4
  <2> QED
    BY <2>1, <1>15, <1>16
<1>19. \A m, n \in 1 .. k + 1 : SameKey(table'[m], table'[n]) => m = n
  BY <1>17
<1> QED
  BY <1>9, <1>10, <1>12, <1>14, <1>18, <1>19 DEF RecordsInv, SameKey

\* A work order that is completed was not, and nobody else completes it.
LEMMA CommittingCompleted ==
  ASSUME RecordsInv, NEW c \in Clients, inWork[c].op = "complete", CommitWork(c)
  PROVE  RecordsInv'
<1> DEFINE w == inWork[c]
<1> SUFFICES ASSUME NEW k, k = Len(table), NEW n, n = w.of PROVE RecordsInv'
  OBVIOUS
<1> DEFINE row == [table[n] EXCEPT !.status = "completed", !.version = @ + 1]
           e == [action |-> "completed", of |-> n, document |-> w.document]
<1>1. RecordsTypeOK /\ WorkIsSound
  BY DEF RecordsInv
<1>2. w \in Work /\ Idle.op = "none" /\ Idle \in Work
  BY <1>1 DEF RecordsTypeOK, Idle, Work
<1>3. n \in Nat /\ w.document \in DOMAIN Evidence
  BY <1>2 DEF Work, Idle
<1>4. /\ k \in Nat /\ DOMAIN table = 1 .. k
      /\ table \in Seq(Row) /\ audit \in Seq(AuditEntry)
  BY <1>1, LenProperties DEF RecordsTypeOK
<1>5. /\ n \in 1 .. k
      /\ table[n].kind = "workOrder"
      /\ table[n].status \in {"scheduled", "in_progress"}
      /\ Evidence[w.document] = table[n].company
  BY <1>1 DEF WorkIsSound, CompletesWell
<1>6. /\ inWork' = [inWork EXCEPT ![c] = Idle]
      /\ table' = [table EXCEPT ![n] = row]
      /\ audit' = Append(audit, e)
  BY DEF CommitWork
<1>7. e \in AuditEntry /\ e.of = n /\ e.action = "completed" /\ e.document = w.document
  BY <1>3 DEF AuditEntry
<1>8. table[n] \in Row
  BY <1>4, <1>5, ElementOfSeq
<1>9. /\ row \in Row /\ row.status = "completed" /\ row.version = table[n].version + 1
      /\ row.kind = table[n].kind /\ row.company = table[n].company
      /\ row.code = table[n].code /\ row.parent = table[n].parent
  <2>1. \A q \in Row : [q EXCEPT !.status = "completed"] \in Row
    <3>1. "completed" \in RowStatuses
      BY DEF RowStatuses
    <3> QED
      BY <3>1 DEF Row
  <2>2. \A q \in Row : [q EXCEPT !.version = q.version + 1] \in Row
    BY DEF Row
  <2>3. row = [[table[n] EXCEPT !.status = "completed"] EXCEPT !.version = table[n].version + 1]
    BY <1>8 DEF Row
  <2>4. [table[n] EXCEPT !.status = "completed"].version = table[n].version
    BY <1>8 DEF Row
  <2>5. row \in Row
    BY <2>1, <2>2, <2>3, <2>4, <1>8
  <2> QED
    BY <2>5, <1>8 DEF Row
<1>10. \A d \in Clients : d # c /\ inWork[d].op = "complete" => inWork[d].of # n
  BY <1>1 DEF WorkIsSound, Apart
<1> HIDE DEF e, row
<1>11. /\ table' \in Seq(Row) /\ Len(table') = k /\ DOMAIN table' = 1 .. k
       /\ \A m \in 1 .. k : table'[m] = IF m = n THEN row ELSE table[m]
  BY <1>4, <1>5, <1>6, <1>9
<1>12. \A m \in 1 .. k : /\ table'[m].kind = table[m].kind /\ table'[m].company = table[m].company
                         /\ table'[m].code = table[m].code /\ table'[m].parent = table[m].parent
  BY <1>9, <1>11
<1>13. \A r, m : m \in 1 .. k => (SameKey(r, table'[m]) <=> SameKey(r, table[m]))
  BY <1>12 DEF SameKey
<1>14. RecordsTypeOK'
  BY <1>1, <1>2, <1>4, <1>6, <1>7, <1>11 DEF RecordsTypeOK
<1>15. \A d \in Clients : inWork'[d] = IF d = c THEN Idle ELSE inWork[d]
  BY <1>1, <1>6 DEF RecordsTypeOK
<1>16. WorkIsSound'
  <2>1. ASSUME NEW d \in Clients PROVE CreatesWell(inWork[d])'
    <3>1. CASE d = c
      BY <3>1, <1>2, <1>15 DEF CreatesWell
    <3>2. CASE d # c
      <4>1. CreatesWell(inWork[d]) /\ inWork'[d] = inWork[d]
        BY <3>2, <1>1, <1>15 DEF WorkIsSound
      <4>2. ASSUME inWork[d].op = "create"
            PROVE  /\ inWork[d].row.kind \in Checked =>
                        /\ inWork[d].row.parent \in 1 .. k
                        /\ table'[inWork[d].row.parent].company = inWork[d].row.company
                   /\ \A m \in 1 .. k : ~SameKey(inWork[d].row, table'[m])
        BY <4>1, <4>2, <1>12, <1>13 DEF CreatesWell
      <4> QED
        BY <4>1, <4>2, <1>11 DEF CreatesWell
    <3> QED
      BY <3>1, <3>2
  <2>2. ASSUME NEW d \in Clients PROVE CompletesWell(inWork[d])'
    <3>1. CASE d = c
      BY <3>1, <1>2, <1>15 DEF CompletesWell
    <3>2. CASE d # c
      <4>1. CompletesWell(inWork[d]) /\ inWork'[d] = inWork[d]
        BY <3>2, <1>1, <1>15 DEF WorkIsSound
      <4> QED
        BY <3>2, <4>1, <1>4, <1>10, <1>11 DEF CompletesWell
    <3> QED
      BY <3>1, <3>2
  <2>3. ASSUME NEW d \in Clients, NEW f \in Clients, d # f
        PROVE  Apart(inWork'[d], inWork'[f])
    BY <2>3, <1>1, <1>2, <1>15 DEF WorkIsSound, Apart
  <2> QED
    BY <2>1, <2>2, <2>3 DEF WorkIsSound, Apart
<1>17. \A i \in 1 .. Len(audit') : audit'[i].of \in 1 .. k
  BY <1>4, <1>5, <1>6, <1>7 DEF RecordsInv
<1>18. \A m \in 1 .. k : \A i \in AuditedAs(m, "completed") : audit'[i] = audit[i]
  BY <1>4, <1>6 DEF AuditedAs
<1>19. ASSUME NEW m \in 1 .. k, m # n PROVE Audited(m)'
  <2>1. Audited(m)
    BY DEF RecordsInv
  <2>2. /\ AuditedAs(m, "created")' = AuditedAs(m, "created")
        /\ AuditedAs(m, "completed")' = AuditedAs(m, "completed")
    BY <1>1, <1>6, <1>7, <1>19, AuditingOneMore
  <2>3. table'[m] = table[m]
    BY <1>11, <1>19
  <2>4. table[m].kind \in Checked => table'[table[m].parent].company = table[table[m].parent].company
    BY <2>1, <1>12 DEF Audited
  <2> QED
    BY <2>1, <2>2, <2>3, <2>4, <1>11, <1>18 DEF Audited
<1>20. Audited(n)'
  <2>1. Audited(n) /\ Cardinality(AuditedAs(n, "completed")) = 0
    BY <1>5 DEF RecordsInv, Audited
  <2>2. AuditedAs(n, "created")' = AuditedAs(n, "created")
    BY <1>1, <1>6, <1>7, AuditingOneMore
  <2>3. /\ AuditedAs(n, "completed")' = AuditedAs(n, "completed") \cup {Len(audit) + 1}
        /\ Cardinality(AuditedAs(n, "completed")') = 1
    BY <2>1, <1>1, <1>6, <1>7, AuditingOneMore
  <2>4. AuditedAs(n, "completed") = {}
    BY <2>1, <1>1, AuditedIsFinite, FS_EmptySet
  <2>5. audit'[Len(audit) + 1] = e
    BY <1>4, <1>6
  <2>6. \A i \in AuditedAs(n, "completed")' : Evidence[audit'[i].document] = row.company
    BY <2>3, <2>4, <2>5, <1>5, <1>7, <1>9
  <2>7. table'[n] = row /\ row.version = 1 + 1
    BY <2>1, <1>5, <1>9, <1>11 DEF Audited
  <2>8. row.kind \in Checked => row.parent \in 1 .. k /\ table'[row.parent].company = row.company
    BY <2>1, <1>9, <1>12 DEF Audited
  <2> QED
    BY <2>1, <2>2, <2>3, <2>6, <2>7, <2>8, <1>5, <1>9, <1>11 DEF Audited
<1>21. \A m, j \in 1 .. k : SameKey(table'[m], table'[j]) => m = j
  BY <1>12 DEF RecordsInv, SameKey
<1>22. ASSUME NEW m \in 1 .. k PROVE Audited(m)'
  BY <1>19, <1>20
<1> QED
  BY <1>11, <1>14, <1>16, <1>17, <1>21, <1>22 DEF RecordsInv, SameKey

LEMMA RecordsKeep ==
  ASSUME RecordsInv, [RecordsNext]_recordsVars
  PROVE  RecordsInv'
<1>1. CASE UNCHANGED recordsVars
  <2>1. UNCHANGED <<table, audit, inWork>>
    BY <1>1 DEF recordsVars
  <2>2. RecordsTypeOK'
    BY <2>1 DEF RecordsInv, RecordsTypeOK
  <2>3. WorkIsSound'
    BY <2>1 DEF RecordsInv, WorkIsSound, CreatesWell, CompletesWell, Apart
  <2>4. ASSUME NEW n \in 1 .. Len(table) PROVE Audited(n)'
    BY <2>1 DEF RecordsInv, Audited, AuditedAs
  <2> QED
    BY <2>1, <2>2, <2>3, <2>4 DEF RecordsInv
<1>2. ASSUME NEW c \in Clients, CommitWork(c)
      PROVE  RecordsInv'
  BY <1>2, CommittingCreated, CommittingCompleted DEF CommitWork
<1> QED
  BY <1>1, <1>2, CreatingIsKept, CompletingIsKept, RollingBackIsKept DEF RecordsNext

-----------------------------------------------------------------------------
(* Company: a page with the version of the company shows what it is now.   *)

CompanyData == [CompanyFields -> CompanyValues]
Firm == [values : CompanyData, version : Nat]
CompanyForm == [company : Firms, values : CompanyData, defaults : CompanyData, version : Nat,
                kept : SUBSET CompanyFields]
Change == [before : CompanyData, after : CompanyData, version : Nat, kept : SUBSET CompanyFields]

\* A form is not newer than the company, and if it is as new it shows those fields of it.
UpToDate(f, fields) ==
  /\ f.version <= firm[f.company].version
  /\ f.version = firm[f.company].version =>
       \A x \in fields : f.values[x] = firm[f.company].values[x]

\* What a request read of the company is what it still is if it may save.
Asks(s) ==
  /\ s.form \in CompanyForm
  /\ UpToDate(s.form, s.form.kept)
  /\ s.step = "read" => /\ s.before \in CompanyData
                        /\ s.form.version = firm[s.form.company].version =>
                             s.before = firm[s.form.company].values
  /\ s.step = "done" => UpToDate(s.form, CompanyFields)

\* What CompanyIsNotOverwritten says of one company with these updates.
ToldBy(f, updates) ==
  /\ f.version = Len(updates) + 1
  /\ Len(updates) > 0 => f.values = updates[Len(updates)].after
  /\ \A i \in 1 .. Len(updates) :
       /\ updates[i].version = i + 1
       /\ i > 1 => updates[i].before = updates[i - 1].after
       /\ \A x \in updates[i].kept : updates[i].after[x] = updates[i].before[x]

Told(c) == ToldBy(firm[c], changes[c])

CompanyInv ==
  /\ firm \in [Firms -> Firm] /\ changes \in [Firms -> Seq(Change)]
  /\ DOMAIN form = Browsers /\ DOMAIN draft = Browsers /\ DOMAIN saving = Browsers
  /\ \A b \in Browsers : form[b] # NoForm => form[b] \in CompanyForm /\ UpToDate(form[b], form[b].kept)
  /\ \A b \in Browsers : draft[b] # NoForm => draft[b] \in CompanyData
  /\ \A b \in Browsers : saving[b] # NoForm => Asks(saving[b])
  /\ \A c \in Firms : Told(c)

LEMMA ToldAll == CompanyInv => CompanyIsNotOverwritten
  BY DEF CompanyInv, Told, ToldBy, CompanyIsNotOverwritten

\* One more update, from what the last one made of the company.
LEMMA ToldOneMore ==
  ASSUME NEW f \in Firm, NEW updates \in Seq(Change), ToldBy(f, updates),
         NEW u \in Change, u.before = f.values, u.version = f.version + 1,
         \A x \in u.kept : u.after[x] = u.before[x],
         NEW g, g.values = u.after, g.version = u.version
  PROVE  ToldBy(g, Append(updates, u))
<1> DEFINE n == Len(updates)
           all == Append(updates, u)
<1>1. /\ n \in Nat /\ all \in Seq(Change) /\ Len(all) = n + 1 /\ all[n + 1] = u
      /\ \A i \in 1 .. n : all[i] = updates[i]
  BY LenProperties, AppendProperties
<1>2. /\ f.version = n + 1
      /\ n > 0 => f.values = updates[n].after
      /\ \A i \in 1 .. n :
           /\ updates[i].version = i + 1
           /\ i > 1 => updates[i].before = updates[i - 1].after
           /\ \A x \in updates[i].kept : updates[i].after[x] = updates[i].before[x]
  BY DEF ToldBy
<1> HIDE DEF n, all
<1>3. ASSUME NEW i \in 1 .. n + 1
      PROVE  /\ all[i].version = i + 1
             /\ i > 1 => all[i].before = all[i - 1].after
             /\ \A x \in all[i].kept : all[i].after[x] = all[i].before[x]
  <2>1. CASE i = n + 1
    <3>1. all[i] = u /\ u.version = i + 1
      BY <2>1, <1>1, <1>2
    <3>2. i > 1 => n > 0 /\ n \in 1 .. n /\ all[i - 1] = updates[n]
      BY <2>1, <1>1
    <3> QED
      BY <3>1, <3>2, <1>2
  <2>2. CASE i \in 1 .. n
    <3>1. all[i] = updates[i] /\ (i > 1 => i - 1 \in 1 .. n /\ all[i - 1] = updates[i - 1])
      BY <2>2, <1>1
    <3> QED
      BY <3>1, <2>2, <1>2
  <2> QED
    BY <2>1, <2>2, <1>1
<1>4. g.version = n + 1 + 1 /\ g.values = all[n + 1].after
  BY <1>1, <1>2
<1> QED
  BY <1>1, <1>3, <1>4 DEF ToldBy, all

LEMMA CompanyStarts == CompanyInit => CompanyInv
<1> SUFFICES ASSUME CompanyInit PROVE CompanyInv
  OBVIOUS
<1>1. /\ firm = [c \in Firms |-> [values |-> [f \in CompanyFields |-> Founded[c]], version |-> 1]]
      /\ changes = [c \in Firms |-> <<>>]
  BY DEF CompanyInit
<1>2. /\ firm \in [Firms -> Firm] /\ changes \in [Firms -> Seq(Change)]
      /\ \A c \in Firms : firm[c].version = 1 /\ changes[c] = <<>>
  BY <1>1, CompanyAssumption DEF Firm, CompanyData
<1>3. ASSUME NEW c \in Firms PROVE Told(c)
  <2>1. Len(changes[c]) = 0 /\ firm[c].version = 1
    BY <1>2
  <2> QED
    BY <2>1, <1>2 DEF Told, ToldBy
<1>4. \A b \in Browsers : form[b] = NoForm /\ draft[b] = NoForm /\ saving[b] = NoForm
  BY DEF CompanyInit
<1>5. DOMAIN form = Browsers /\ DOMAIN draft = Browsers /\ DOMAIN saving = Browsers
  BY DEF CompanyInit
<1> QED
  BY <1>2, <1>3, <1>4, <1>5 DEF CompanyInv

\* Nothing is saved: what the company is told stays, and only pages and requests change.
LEMMA EditingIsKept ==
  ASSUME CompanyInv, UNCHANGED <<firm, changes>>,
         DOMAIN form' = Browsers, DOMAIN draft' = Browsers, DOMAIN saving' = Browsers,
         NEW b \in Browsers,
         \A d \in Browsers \ {b} :
           form'[d] = form[d] /\ draft'[d] = draft[d] /\ saving'[d] = saving[d],
         form'[b] # NoForm => form'[b] \in CompanyForm /\ UpToDate(form'[b], form'[b].kept),
         draft'[b] # NoForm => draft'[b] \in CompanyData,
         saving'[b] # NoForm => Asks(saving'[b])
  PROVE  CompanyInv'
<1>1. ASSUME NEW d \in Browsers, form'[d] # NoForm
      PROVE  form'[d] \in CompanyForm /\ UpToDate(form'[d], form'[d].kept)
  BY <1>1 DEF CompanyInv
<1>2. ASSUME NEW d \in Browsers, draft'[d] # NoForm PROVE draft'[d] \in CompanyData
  BY <1>2 DEF CompanyInv
<1>3. ASSUME NEW d \in Browsers, saving'[d] # NoForm PROVE Asks(saving'[d])
  BY <1>3 DEF CompanyInv
<1>4. ASSUME NEW c \in Firms PROVE Told(c)'
  BY DEF CompanyInv, Told
<1> HIDE DEF CompanyInv
<1>5. ASSUME NEW d \in Browsers, form'[d] # NoForm PROVE UpToDate(form[d], form[d].kept)'
  BY <1>1, <1>5 DEF UpToDate
<1>6. ASSUME NEW d \in Browsers, saving'[d] # NoForm PROVE Asks(saving[d])'
  BY <1>3, <1>6 DEF Asks, UpToDate
<1>7. firm' \in [Firms -> Firm] /\ changes' \in [Firms -> Seq(Change)]
  BY DEF CompanyInv
<1> QED
  BY <1>1, <1>2, <1>4, <1>5, <1>6, <1>7 DEF CompanyInv

LEMMA OpeningIsKept ==
  ASSUME CompanyInv, NEW b \in Browsers, NEW c \in Firms, OpenForm(b, c)
  PROVE  CompanyInv'
<1> DEFINE values == IF draft[b] # NoForm THEN draft[b] ELSE firm[c].values
           kept == IF draft[b] # NoForm THEN {} ELSE CompanyFields
           opened == [company |-> c, values |-> values, defaults |-> values,
                      version |-> firm[c].version, kept |-> kept]
<1>1. /\ form' = [form EXCEPT ![b] = opened]
      /\ UNCHANGED <<firm, changes, draft, saving>>
  BY DEF OpenForm
<1>2. values \in CompanyData /\ kept \in SUBSET CompanyFields /\ firm[c].version \in Nat
  BY DEF CompanyInv, Firm
<1>3. kept # {} => values = firm[c].values
  OBVIOUS
<1> HIDE DEF values, kept
<1>4. /\ opened \in CompanyForm /\ opened.company = c /\ opened.values = values
      /\ opened.kept = kept /\ opened.version = firm[c].version
  BY <1>2 DEF CompanyForm
<1> HIDE DEF opened
<1>5. UpToDate(opened, opened.kept)
  BY <1>2, <1>3, <1>4 DEF UpToDate
<1>6. /\ DOMAIN form' = Browsers /\ DOMAIN draft' = Browsers /\ DOMAIN saving' = Browsers
      /\ \A d \in Browsers \ {b} :
           form'[d] = form[d] /\ draft'[d] = draft[d] /\ saving'[d] = saving[d]
      /\ form'[b] = opened /\ draft'[b] = draft[b] /\ saving'[b] = saving[b]
  BY <1>1 DEF CompanyInv
<1>7. /\ draft'[b] # NoForm => draft'[b] \in CompanyData
      /\ saving'[b] # NoForm => Asks(saving'[b])
  BY <1>6 DEF CompanyInv
<1> QED
  BY <1>1, <1>4, <1>5, <1>6, <1>7, EditingIsKept

LEMMA TypingIsKept ==
  ASSUME CompanyInv, NEW b \in Browsers, NEW f \in CompanyFields, NEW x \in CompanyValues,
         Type(b, f, x)
  PROVE  CompanyInv'
<1> DEFINE was == form[b]
           values == [was.values EXCEPT ![f] = x]
           kept == was.kept \ {f}
           typed == [was EXCEPT !.values = values, !.kept = kept]
<1>1. /\ was \in CompanyForm /\ UpToDate(was, was.kept)
      /\ UNCHANGED <<firm, changes, saving>>
  BY DEF Type, CompanyInv
<1>2. form' = [form EXCEPT ![b] = typed]
  BY DEF Type
<1>3. /\ values \in CompanyData /\ kept \in SUBSET CompanyFields
      /\ \A g \in kept : g \in was.kept /\ values[g] = was.values[g]
  BY <1>1 DEF CompanyForm, CompanyData
<1> HIDE DEF values, kept
<1>4. /\ typed \in CompanyForm /\ typed.values = values /\ typed.kept = kept
      /\ typed.company = was.company /\ typed.version = was.version
  BY <1>1, <1>3 DEF CompanyForm
<1> HIDE DEF typed
<1>5. UpToDate(typed, typed.kept)
  BY <1>1, <1>3, <1>4 DEF UpToDate
<1>6. form'[b] = typed /\ DOMAIN form' = Browsers
  BY <1>2 DEF CompanyInv
<1>7. draft' = IF was.values # was.defaults THEN [draft EXCEPT ![b] = form'[b].values] ELSE draft
  BY DEF Type
<1>8. /\ DOMAIN draft' = Browsers /\ draft'[b] \in {draft[b], values}
      /\ \A d \in Browsers \ {b} : draft'[d] = draft[d]
  BY <1>4, <1>6, <1>7 DEF CompanyInv
<1> HIDE DEF was
<1>9. /\ DOMAIN saving' = Browsers
      /\ \A d \in Browsers \ {b} :
           form'[d] = form[d] /\ draft'[d] = draft[d] /\ saving'[d] = saving[d]
      /\ draft'[b] # NoForm => draft'[b] \in CompanyData
      /\ saving'[b] # NoForm => Asks(saving'[b])
  BY <1>1, <1>2, <1>3, <1>8 DEF CompanyInv
<1> QED
  BY <1>1, <1>4, <1>5, <1>6, <1>8, <1>9, EditingIsKept

LEMMA SavingIsKept ==
  ASSUME CompanyInv, NEW b \in Browsers, Save(b)
  PROVE  CompanyInv'
<1> DEFINE saved == [form[b] EXCEPT !.defaults = form[b].values]
           s == [step |-> "sent", form |-> saved]
<1>1. form[b] \in CompanyForm /\ UpToDate(form[b], form[b].kept)
  BY DEF Save, CompanyInv
<1>2. /\ saving' = [saving EXCEPT ![b] = s]
      /\ UNCHANGED <<firm, changes, form, draft>>
  BY DEF Save
<1>3. /\ saved \in CompanyForm /\ saved.company = form[b].company /\ saved.kept = form[b].kept
      /\ saved.version = form[b].version /\ saved.values = form[b].values
  BY <1>1 DEF CompanyForm
<1> HIDE DEF saved
<1>4. UpToDate(saved, saved.kept)
  BY <1>1, <1>3 DEF UpToDate
<1>5. s.step = "sent" /\ s.form = saved
  OBVIOUS
<1> HIDE DEF s
<1>6. Asks(s)
  BY <1>3, <1>4, <1>5 DEF Asks
<1>7. /\ DOMAIN form' = Browsers /\ DOMAIN draft' = Browsers /\ DOMAIN saving' = Browsers
      /\ saving'[b] = s
      /\ \A d \in Browsers \ {b} :
           form'[d] = form[d] /\ draft'[d] = draft[d] /\ saving'[d] = saving[d]
  BY <1>2 DEF CompanyInv
<1>8. /\ form'[b] # NoForm => form'[b] \in CompanyForm /\ UpToDate(form'[b], form'[b].kept)
      /\ draft'[b] # NoForm => draft'[b] \in CompanyData
  BY <1>2 DEF CompanyInv
<1> QED
  BY <1>2, <1>6, <1>7, <1>8, EditingIsKept

\* What is read of the company is what it is now.
LEMMA ReadingIsKept ==
  ASSUME CompanyInv, NEW b \in Browsers, ReadBefore(b)
  PROVE  CompanyInv'
<1> DEFINE sent == saving[b].form
           s == [step |-> "read", form |-> sent, before |-> firm[sent.company].values]
<1>1. /\ sent \in CompanyForm /\ UpToDate(sent, sent.kept)
  BY DEF ReadBefore, CompanyInv, Asks
<1>2. /\ saving' = [saving EXCEPT ![b] = s]
      /\ UNCHANGED <<firm, changes, form, draft>>
  BY DEF ReadBefore
<1> HIDE DEF sent
<1>3. /\ s.step = "read" /\ s.form = sent /\ s.before = firm[sent.company].values
      /\ firm[sent.company].values \in CompanyData
  BY <1>1 DEF CompanyInv, CompanyForm, Firm
<1> HIDE DEF s
<1>4. Asks(s)
  BY <1>1, <1>3 DEF Asks
<1>5. /\ DOMAIN form' = Browsers /\ DOMAIN draft' = Browsers /\ DOMAIN saving' = Browsers
      /\ saving'[b] = s
      /\ \A d \in Browsers \ {b} :
           form'[d] = form[d] /\ draft'[d] = draft[d] /\ saving'[d] = saving[d]
  BY <1>2 DEF CompanyInv
<1>6. /\ form'[b] # NoForm => form'[b] \in CompanyForm /\ UpToDate(form'[b], form'[b].kept)
      /\ draft'[b] # NoForm => draft'[b] \in CompanyData
  BY <1>2 DEF CompanyInv
<1> QED
  BY <1>2, <1>4, <1>5, <1>6, EditingIsKept

\* A page that is left, and a request that is given up, take what they showed with them.
LEMMA LeavingIsKept ==
  ASSUME CompanyInv, NEW b \in Browsers, LeaveForm(b) \/ NotSaved(b)
  PROVE  CompanyInv'
<1>1. /\ UNCHANGED <<firm, changes, draft>>
      /\ DOMAIN form' = Browsers /\ DOMAIN draft' = Browsers /\ DOMAIN saving' = Browsers
      /\ \A d \in Browsers \ {b} :
           form'[d] = form[d] /\ draft'[d] = draft[d] /\ saving'[d] = saving[d]
  BY DEF LeaveForm, NotSaved, CompanyInv
<1>2. form'[b] \in {form[b], NoForm} /\ saving'[b] \in {saving[b], NoForm}
  BY DEF LeaveForm, NotSaved, CompanyInv
<1>3. /\ form'[b] # NoForm => form'[b] \in CompanyForm /\ UpToDate(form'[b], form'[b].kept)
      /\ draft'[b] # NoForm => draft'[b] \in CompanyData
      /\ saving'[b] # NoForm => Asks(saving'[b])
  BY <1>1, <1>2 DEF CompanyInv
<1> QED
  BY <1>1, <1>3, EditingIsKept

\* The page shows what was saved: nothing newer is there, or the version tells.
LEMMA AnsweringIsKept ==
  ASSUME CompanyInv, NEW b \in Browsers, Saved(b)
  PROVE  CompanyInv'
<1> DEFINE saved == saving[b].form
           shown == [saved EXCEPT !.kept = CompanyFields]
<1>1. saved \in CompanyForm /\ UpToDate(saved, CompanyFields)
  BY DEF Saved, CompanyInv, Asks
<1>2. /\ UNCHANGED <<firm, changes>>
      /\ saving' = [saving EXCEPT ![b] = NoForm]
      /\ draft' = [draft EXCEPT ![b] = NoForm]
      /\ form' = IF form[b] = NoForm THEN form ELSE [form EXCEPT ![b] = shown]
  BY DEF Saved
<1>3. /\ shown \in CompanyForm /\ shown.kept = CompanyFields /\ shown.company = saved.company
      /\ shown.values = saved.values /\ shown.version = saved.version
  BY <1>1 DEF CompanyForm
<1> HIDE DEF shown
<1>4. UpToDate(shown, shown.kept)
  BY <1>1, <1>3 DEF UpToDate
<1>5. /\ DOMAIN form' = Browsers /\ DOMAIN draft' = Browsers /\ DOMAIN saving' = Browsers
      /\ form'[b] # NoForm => form'[b] = shown
      /\ draft'[b] = NoForm /\ saving'[b] = NoForm
      /\ \A d \in Browsers \ {b} :
           form'[d] = form[d] /\ draft'[d] = draft[d] /\ saving'[d] = saving[d]
  BY <1>2 DEF CompanyInv
<1> QED
  BY <1>2, <1>3, <1>4, <1>5, EditingIsKept

\* The version of a company moves on: who shows an older one is told apart from then on.
LEMMA WritingIsKept ==
  ASSUME CompanyInv, NEW b \in Browsers, WriteCompany(b)
  PROVE  CompanyInv'
<1> SUFFICES ASSUME NEW s, s = saving[b], NEW sent, sent = s.form, NEW c, c = sent.company
             PROVE  CompanyInv'
  OBVIOUS
<1> DEFINE made == [values |-> sent.values, version |-> sent.version + 1]
           change == [before |-> s.before, after |-> sent.values, version |-> sent.version + 1,
                      kept |-> sent.kept]
           done == [sent EXCEPT !.version = sent.version + 1]
           t == [step |-> "done", form |-> done]
<1>1. /\ sent \in CompanyForm /\ UpToDate(sent, sent.kept) /\ c \in Firms
      /\ s.before \in CompanyData /\ s.before = firm[c].values
      /\ firm[c].version = sent.version
  BY DEF WriteCompany, SameVersion, CompanyInv, Asks, CompanyForm
<1>2. /\ sent.values \in CompanyData /\ sent.version \in Nat /\ sent.kept \in SUBSET CompanyFields
      /\ firm[c].values \in CompanyData
  BY <1>1 DEF CompanyForm, CompanyInv, Firm
<1>3. /\ firm' = [firm EXCEPT ![c] = made]
      /\ changes' = [changes EXCEPT ![c] = Append(@, change)]
      /\ saving' = [saving EXCEPT ![b] = t]
      /\ UNCHANGED <<form, draft>>
  <2>1. firm' = [firm EXCEPT ![c] = made]
    BY <1>1 DEF WriteCompany
  <2>2. changes' = [changes EXCEPT ![c] = Append(@, change)]
    BY <1>1 DEF WriteCompany
  <2>3. saving' = [saving EXCEPT ![b] = t]
    <3>1. saving' = [saving EXCEPT ![b] =
                       [step |-> "done", form |-> [s.form EXCEPT !.version = s.form.version + 1]]]
      BY DEF WriteCompany
    <3> QED
      BY <3>1
  <2> QED
    BY <2>1, <2>2, <2>3 DEF WriteCompany
<1>4. made \in Firm /\ made.values = sent.values /\ made.version = sent.version + 1
  BY <1>2 DEF Firm
<1>5. /\ change \in Change /\ change.before = firm[c].values /\ change.after = sent.values
      /\ change.version = sent.version + 1 /\ change.kept = sent.kept
  BY <1>1, <1>2 DEF Change
<1>6. /\ done \in CompanyForm /\ done.version = sent.version + 1 /\ done.values = sent.values
      /\ done.company = c /\ done.kept = sent.kept
  BY <1>1, <1>2 DEF CompanyForm
<1>7. t.step = "done" /\ t.form = done
  OBVIOUS
<1> HIDE DEF made, change, done, t
<1>8. /\ firm' \in [Firms -> Firm]
      /\ \A d \in Firms : firm'[d] = IF d = c THEN made ELSE firm[d]
      /\ \A d \in Firms : firm[d].version \in Nat
  BY <1>1, <1>3, <1>4 DEF CompanyInv, Firm
<1>9. changes[c] \in Seq(Change) /\ firm[c] \in Firm
  BY <1>1 DEF CompanyInv
<1>10. Append(changes[c], change) \in Seq(Change)
  BY <1>5, <1>9, AppendProperties
<1>11. /\ changes' \in [Firms -> Seq(Change)]
       /\ changes'[c] = Append(changes[c], change)
       /\ \A d \in Firms \ {c} : changes'[d] = changes[d]
  BY <1>1, <1>3, <1>10 DEF CompanyInv
<1>12. Told(c)'
  <2>1. ToldBy(firm[c], changes[c])
    BY <1>1 DEF CompanyInv, Told
  <2>2. \A x \in change.kept : change.after[x] = change.before[x]
    BY <1>1, <1>5 DEF UpToDate
  <2>3. change.before = firm[c].values /\ change.version = firm[c].version + 1
    BY <1>1, <1>5
  <2>4. made.values = change.after /\ made.version = change.version
    BY <1>4, <1>5
  <2>5. ToldBy(made, Append(changes[c], change))
    BY <2>1, <2>2, <2>3, <2>4, <1>5, <1>9, ToldOneMore
  <2> QED
    BY <2>5, <1>1, <1>8, <1>11 DEF Told
<1>13. ASSUME NEW d \in Firms, d # c PROVE Told(d)'
  <2>1. firm'[d] = firm[d] /\ changes'[d] = changes[d] /\ Told(d)
    BY <1>13, <1>8, <1>11 DEF CompanyInv
  <2> QED
    BY <2>1 DEF Told
<1>14. ASSUME NEW f \in CompanyForm, NEW fields, UpToDate(f, fields) PROVE UpToDate(f, fields)'
  BY <1>14, <1>2, <1>4, <1>8, <1>1 DEF UpToDate, CompanyForm
<1>15. UpToDate(done, CompanyFields)'
  BY <1>1, <1>4, <1>6, <1>8 DEF UpToDate, CompanyForm
<1>16. /\ DOMAIN form' = Browsers /\ DOMAIN draft' = Browsers /\ DOMAIN saving' = Browsers
       /\ saving'[b] = t /\ \A d \in Browsers \ {b} : saving'[d] = saving[d]
  BY <1>3 DEF CompanyInv
<1>17. ASSUME NEW d \in Browsers, form'[d] # NoForm
       PROVE  form[d] \in CompanyForm /\ UpToDate(form[d], form[d].kept)'
  <2>1. form[d] \in CompanyForm /\ UpToDate(form[d], form[d].kept) /\ form'[d] = form[d]
    BY <1>17, <1>3 DEF CompanyInv
  <2>2. \A f \in CompanyForm : UpToDate(f, f.kept) => UpToDate(f, f.kept)'
    BY <1>14
  <2> QED
    BY <2>1, <2>2 DEF UpToDate
<1>18. ASSUME NEW d \in Browsers, saving'[d] # NoForm PROVE Asks(saving[d])'
  <2>1. CASE d = b
    <3>1. UpToDate(done, done.kept)'
      BY <1>6, <1>15, <1>2 DEF UpToDate
    <3>2. saving'[d] = t
      BY <2>1, <1>16
    <3> QED
      BY <3>1, <3>2, <1>6, <1>7, <1>15 DEF Asks, UpToDate
  <2>2. CASE d # b
    <3> SUFFICES ASSUME NEW r, r = saving[d] PROVE Asks(saving[d])'
      OBVIOUS
    <3>1. Asks(r) /\ saving'[d] = r
      BY <2>2, <1>16, <1>18 DEF CompanyInv
    <3>2. r.form \in CompanyForm /\ UpToDate(r.form, r.form.kept)'
      BY <3>1, <1>14 DEF Asks
    <3>3. r.step = "done" => UpToDate(r.form, CompanyFields)'
      BY <3>1, <3>2, <1>14 DEF Asks
    <3>4. r.step = "read" =>
            /\ r.before \in CompanyData
            /\ r.form.version = firm'[r.form.company].version =>
                 r.before = firm'[r.form.company].values
      BY <3>1, <3>2, <1>1, <1>2, <1>4, <1>8 DEF Asks, UpToDate, CompanyForm
    <3> QED
      BY <3>1, <3>2, <3>3, <3>4 DEF Asks, UpToDate
  <2> QED
    BY <2>1, <2>2
<1>19. \A d \in Browsers : draft'[d] # NoForm => draft'[d] \in CompanyData
  BY <1>3 DEF CompanyInv
<1> QED
  BY <1>3, <1>8, <1>11, <1>12, <1>13, <1>16, <1>17, <1>18, <1>19 DEF CompanyInv

LEMMA CompanyKeeps ==
  ASSUME CompanyInv, [CompanyNext]_companyVars
  PROVE  CompanyInv'
<1>1. CASE UNCHANGED companyVars
  <2>1. UNCHANGED <<firm, changes, form, draft, saving>>
    BY <1>1 DEF companyVars
  <2> QED
    BY <2>1 DEF CompanyInv, UpToDate, Asks, Told
<1> QED
  BY <1>1, OpeningIsKept, TypingIsKept, SavingIsKept, ReadingIsKept, LeavingIsKept,
     AnsweringIsKept, WritingIsKept DEF CompanyNext

-----------------------------------------------------------------------------
(* Demo: what a reset takes away it takes with what belongs to it.         *)

\* The row a transaction has inserted belongs to one that is there and stays.
Belongs(r) ==
  /\ \E i \in DOMAIN Tables : r.table = Tables[i]
  /\ r.parent # NoTable =>
       \E p \in demoRows : IsParent(p, r) /\ (reset # NoReset => p \notin reset.deleted)

\* A reset has still to come to the table.
ToCome(t) == \E i \in DOMAIN Tables : i > reset.begun /\ Tables[i] = t

\* A reset has deleted, or is deleting, what there was in the tables it has begun with when
\* it began with them, and nothing that is preserved. What has lost its parent will be
\* deleted yet, or is of a table that comes before its parent's.
ResetIsSound ==
  reset # NoReset =>
    /\ matched = ResetGuards /\ seedings > 0
    /\ reset.past \in Nat /\ reset.begun \in {reset.past, reset.past + 1}
    /\ reset.begun <= Len(Tables)
    /\ \A r \in reset.deleted \cup reset.doomed : r.table \notin Preserved
    /\ \A r \in reset.doomed : reset.begun # reset.past /\ r.table = Tables[reset.begun]
    /\ \A i \in 1 .. reset.begun : \A r \in demoRows :
         r.table = Tables[i] /\ r.table \notin Preserved =>
           r \in reset.deleted \cup reset.doomed \cup slipped
    /\ \A r \in demoRows \ (reset.deleted \cup reset.doomed) :
         Dangling(r, demoRows \ reset.deleted) =>
           r.table \notin Preserved /\ (NotAfterItsParent(r.table) \/ ToCome(r.table))

\* The balance is never more than the opening stock, which bounds what a seeding adds to
\* the distance between balance and movements.
StockOK ==
  /\ stock.balance \in 0 .. Opening /\ stock.ledger \in Int
  /\ seedings = 0 => stock.balance = 0 /\ stock.ledger = 0
  /\ seedings > 0 => /\ stock.ledger - stock.balance >= 0
                     /\ stock.ledger - stock.balance <= Opening * (seedings - 1)

DemoInv ==
  /\ matched \subseteq ResetGuards
  /\ seedings \in Nat /\ stock = [balance |-> stock.balance, ledger |-> stock.ledger]
  /\ StockOK
  /\ DOMAIN inserting = Writers
  /\ \A r \in demoRows : \E i \in DOMAIN Tables : r.table = Tables[i]
  /\ \A w \in Writers : inserting[w] # NoDemoRow => Belongs(inserting[w])
  /\ ResetIsSound
  /\ DemoIsWhole

LEMMA DemoStarts == DemoInit => DemoInv
<1> SUFFICES ASSUME DemoInit PROVE DemoInv
  OBVIOUS
<1>1. /\ matched \subseteq ResetGuards /\ seedings = 0 /\ demoRows = {} /\ written = {}
      /\ reset = NoReset /\ DOMAIN inserting = Writers
      /\ \A w \in Writers : inserting[w] = NoDemoRow
  BY DEF DemoInit
<1>2. stock = [balance |-> 0, ledger |-> 0] /\ stock.balance = 0 /\ stock.ledger = 0
  BY DEF DemoInit
<1>3. StockOK
  BY <1>1, <1>2, DemoAssumption DEF StockOK
<1> QED
  BY <1>1, <1>2, <1>3 DEF DemoInv, ResetIsSound, DemoIsWhole

\* More rows leave none without its parent that had it.
LEMMA DanglingLess ==
  ASSUME NEW r, NEW few, NEW many, few \subseteq many, Dangling(r, many)
  PROVE  Dangling(r, few)
  BY DEF Dangling

\* A row that loses its parent has lost one.
LEMMA ParentLost ==
  ASSUME NEW r, NEW few, NEW many, Dangling(r, few), ~Dangling(r, many)
  PROVE  \E p \in many \ few : IsParent(p, r)
  BY DEF Dangling

\* The seed makes good what the rows of the seed belong to.
LEMMA SeedBelongs ==
  ASSUME NEW r \in SeedRows, NEW all, SeedRows \subseteq all
  PROVE  ~Dangling(r, all) /\ \E i \in DOMAIN Tables : r.table = Tables[i]
  BY DemoAssumption DEF Dangling

LEMMA SeedingIsKept ==
  ASSUME DemoInv, Seed
  PROVE  DemoInv'
<1>1. /\ demoRows' = demoRows \cup SeedRows /\ seedings' = seedings + 1 /\ reset = NoReset
      /\ stock' = [balance |-> Opening, ledger |-> stock.ledger + Opening]
      /\ UNCHANGED <<matched, inserting, written, slipped, reset>>
  BY DEF Seed, WithSeed, SeedStock
<1>2. stock'.balance = Opening /\ stock'.ledger = stock.ledger + Opening /\ Opening \in Nat
  BY <1>1, DemoAssumption
<1>3. seedings \in Nat /\ DOMAIN inserting = Writers /\ StockOK
  BY DEF DemoInv
<1>4. \A r \in demoRows' : \E i \in DOMAIN Tables : r.table = Tables[i]
  BY <1>1, SeedBelongs DEF DemoInv
<1>5. ASSUME NEW w \in Writers, inserting'[w] # NoDemoRow PROVE Belongs(inserting[w])'
  BY <1>1, <1>5 DEF DemoInv, Belongs
<1>6. ASSUME NEW r \in demoRows', Dangling(r, demoRows')
      PROVE  r \in slipped /\ r.table \notin Preserved /\ NotAfterItsParent(r.table)
  <2>1. r \notin SeedRows
    BY <1>1, <1>6, SeedBelongs
  <2>2. r \in demoRows /\ Dangling(r, demoRows)
    BY <2>1, <1>1, <1>6, DanglingLess
  <2> QED
    BY <2>2 DEF DemoInv, DemoIsWhole
<1>7. \A r \in written : r.table \in Preserved \/ matched # ResetGuards => r \in demoRows
  BY DEF DemoInv, DemoIsWhole
<1>8. StockOK'
  <2>1. CASE seedings = 0
    <3>1. stock.ledger = 0 /\ seedings' - 1 = 0 /\ Opening * 0 = 0
      BY <2>1, <1>1, <1>2, <1>3 DEF StockOK
    <3>2. Opening * (seedings' - 1) = 0
      BY <3>1
    <3> QED
      BY <3>1, <3>2, <1>1, <1>2, <1>3, <2>1 DEF StockOK
  <2>2. CASE seedings > 0
    <3>1. /\ stock.balance \in 0 .. Opening /\ stock.ledger \in Int
          /\ stock.ledger - stock.balance >= 0
          /\ stock.ledger - stock.balance <= Opening * (seedings - 1)
      BY <2>2, <1>3 DEF StockOK
    <3>2. Opening * seedings = Opening * (seedings - 1) + Opening /\ Opening * (seedings - 1) \in Int
      BY <1>2, <1>3
    <3>3. stock.ledger >= 0 /\ stock.ledger <= Opening * seedings
      BY <3>1, <3>2, <1>2, <1>3
    <3>4. seedings' - 1 = seedings
      BY <1>1, <1>3
    <3> QED
      BY <3>1, <3>3, <3>4, <1>1, <1>2, <1>3 DEF StockOK
  <2> QED
    BY <2>1, <2>2, <1>3
<1>9. DemoIsWhole'
  <2>1. \A r \in written' : r.table \in Preserved \/ matched' # ResetGuards => r \in demoRows'
    BY <1>1, <1>7
  <2>2. seedings' # 0
    BY <1>1, <1>3
  <2>3. \A r \in demoRows' : Dangling(r, demoRows') =>
          r \in slipped' /\ r.table \notin Preserved /\ NotAfterItsParent(r.table)
    BY <1>1, <1>6
  <2> QED
    BY <2>1, <2>2, <2>3, <1>8 DEF DemoIsWhole, StockOK, Dangling
<1>10. ResetIsSound'
  BY <1>1 DEF ResetIsSound
<1>11. stock' = [balance |-> stock'.balance, ledger |-> stock'.ledger]
  BY <1>1, <1>2
<1>12. matched' \subseteq ResetGuards
  BY <1>1 DEF DemoInv
<1> QED
  BY <1>1, <1>3, <1>4, <1>5, <1>8, <1>9, <1>10, <1>11, <1>12 DEF DemoInv

\* What a step of a reset has to show while it leaves the rows as they are.
LEMMA WhileRowsStay ==
  ASSUME DemoInv, ResetIsSound',
         UNCHANGED <<matched, demoRows, stock, inserting, written, slipped, seedings>>,
         \A w \in Writers : inserting[w] # NoDemoRow => Belongs(inserting[w])'
  PROVE  DemoInv'
<1>1. DemoIsWhole'
  BY DEF DemoInv, DemoIsWhole, Dangling
<1>2. StockOK'
  BY DEF DemoInv, StockOK
<1>3. \A w \in Writers : inserting'[w] # NoDemoRow => Belongs(inserting[w])'
  OBVIOUS
<1> QED
  BY <1>1, <1>2, <1>3 DEF DemoInv

LEMMA StartingIsKept ==
  ASSUME DemoInv, StartReset
  PROVE  DemoInv'
<1>1. /\ reset' = [past |-> 0, begun |-> 0, deleted |-> {}, doomed |-> {}]
      /\ seedings > 0 /\ matched = ResetGuards
      /\ UNCHANGED <<matched, demoRows, stock, inserting, written, slipped, seedings>>
  BY DEF StartReset, DemoInv
<1>2. reset'.past = 0 /\ reset'.begun = 0 /\ reset'.deleted = {} /\ reset'.doomed = {}
  BY <1>1
<1>3. \A r \in demoRows : Dangling(r, demoRows) => r.table \notin Preserved /\ NotAfterItsParent(r.table)
  BY DEF DemoInv, DemoIsWhole
<1>4. Len(Tables) \in Nat
  BY DemoAssumption
<1>5. ResetIsSound'
  BY <1>1, <1>2, <1>3, <1>4 DEF ResetIsSound, Dangling
<1>6. ASSUME NEW w \in Writers, inserting[w] # NoDemoRow PROVE Belongs(inserting[w])'
  BY <1>1, <1>2, <1>6 DEF DemoInv, Belongs
<1> QED
  BY <1>1, <1>5, <1>6, WhileRowsStay

LEMMA FailingIsKept ==
  ASSUME DemoInv, FailReset
  PROVE  DemoInv'
<1>1. /\ reset' = NoReset
      /\ UNCHANGED <<matched, demoRows, stock, inserting, written, slipped, seedings>>
  BY DEF FailReset
<1>2. ResetIsSound'
  BY <1>1 DEF ResetIsSound
<1>3. ASSUME NEW w \in Writers, inserting[w] # NoDemoRow PROVE Belongs(inserting[w])'
  BY <1>1, <1>3 DEF DemoInv, Belongs
<1> QED
  BY <1>1, <1>2, <1>3, WhileRowsStay

\* The statement dooms all there is in its table, if the table is not preserved.
LEMMA DoomingIsKept ==
  ASSUME DemoInv, BeginDelete
  PROVE  DemoInv'
<1> DEFINE doomed == ToDelete(Tables[reset.past + 1])
<1>1. /\ reset # NoReset /\ reset.begun = reset.past /\ reset.past < Len(Tables)
      /\ reset' = [past |-> reset.past, begun |-> reset.past + 1, deleted |-> reset.deleted,
                   doomed |-> doomed]
      /\ UNCHANGED <<matched, demoRows, stock, inserting, written, slipped, seedings>>
  BY DEF BeginDelete
<1>2. \A r : r \in doomed <=> /\ r \in demoRows /\ r.table = Tables[reset.past + 1]
                              /\ r.table \notin Preserved
  BY DEF ToDelete
<1> HIDE DEF doomed
<1>3. /\ reset'.past = reset.past /\ reset'.begun = reset.past + 1
      /\ reset'.deleted = reset.deleted /\ reset'.doomed = doomed
  BY <1>1
<1>4. /\ matched = ResetGuards /\ seedings > 0 /\ reset.past \in Nat
      /\ \A r \in reset.deleted : r.table \notin Preserved
      /\ \A r \in reset.doomed : FALSE
      /\ \A i \in 1 .. reset.past : \A r \in demoRows :
           r.table = Tables[i] /\ r.table \notin Preserved => r \in reset.deleted \cup reset.doomed \cup slipped
      /\ \A r \in demoRows \ (reset.deleted \cup reset.doomed) :
           Dangling(r, demoRows \ reset.deleted) =>
             r.table \notin Preserved /\ (NotAfterItsParent(r.table) \/ ToCome(r.table))
  BY <1>1 DEF DemoInv, ResetIsSound
<1>5. Len(Tables) \in Nat
  BY DemoAssumption
<1>6. ASSUME NEW i \in 1 .. reset.past + 1, NEW r \in demoRows,
             r.table = Tables[i], r.table \notin Preserved
      PROVE  r \in reset.deleted \cup doomed \cup slipped
  <2>1. CASE i = reset.past + 1
    BY <2>1, <1>2, <1>6
  <2>2. CASE i \in 1 .. reset.past
    BY <2>2, <1>4, <1>6
  <2> QED
    BY <2>1, <2>2, <1>4
<1>7. ASSUME NEW r \in demoRows \ (reset.deleted \cup doomed), Dangling(r, demoRows \ reset.deleted)
      PROVE  r.table \notin Preserved /\ (NotAfterItsParent(r.table) \/ ToCome(r.table)')
  <2>1. r.table \notin Preserved /\ (NotAfterItsParent(r.table) \/ ToCome(r.table))
    BY <1>4, <1>7
  <2>2. r.table # Tables[reset.past + 1]
    BY <2>1, <1>2, <1>7
  <2>3. ASSUME NEW i \in DOMAIN Tables, i > reset.begun, Tables[i] = r.table PROVE i > reset'.begun
    BY <2>2, <2>3, <1>1, <1>3, <1>4, DemoAssumption
  <2> QED
    BY <2>1, <2>3 DEF ToCome
<1>8. ResetIsSound'
  <2>1. reset' # NoReset =>
    /\ matched' = ResetGuards /\ seedings' > 0
    /\ reset'.past \in Nat /\ reset'.begun \in {reset'.past, reset'.past + 1}
    /\ reset'.begun <= Len(Tables)
    BY <1>1, <1>3, <1>4, <1>5
  <2>2. /\ \A r \in reset'.deleted \cup reset'.doomed : r.table \notin Preserved
        /\ \A r \in reset'.doomed : reset'.begun # reset'.past /\ r.table = Tables[reset'.begun]
    BY <1>2, <1>3, <1>4
  <2>3. \A i \in 1 .. reset'.begun : \A r \in demoRows' :
         r.table = Tables[i] /\ r.table \notin Preserved =>
           r \in reset'.deleted \cup reset'.doomed \cup slipped'
    BY <1>1, <1>3, <1>6
  <2>4. \A r \in demoRows' \ (reset'.deleted \cup reset'.doomed) :
         Dangling(r, demoRows' \ reset'.deleted) =>
           r.table \notin Preserved /\ (NotAfterItsParent(r.table) \/ ToCome(r.table)')
    BY <1>1, <1>3, <1>7
  <2> QED
    BY <2>1, <2>2, <2>3, <2>4 DEF ResetIsSound, Dangling
<1>9. ASSUME NEW w \in Writers, inserting[w] # NoDemoRow PROVE Belongs(inserting[w])'
  BY <1>1, <1>3, <1>9 DEF DemoInv, Belongs
<1> QED
  BY <1>1, <1>8, <1>9, WhileRowsStay

\* A row that loses its parent to the statement is of a table that is to come, or of one
\* that does not come after.
LEMMA DeletingIsKept ==
  ASSUME DemoInv, DeleteRows
  PROVE  DemoInv'
<1>1. /\ reset # NoReset /\ reset.begun # reset.past
      /\ \A w \in Writers : inserting[w] # NoDemoRow =>
           \A r \in reset.doomed : ~IsParent(r, inserting[w])
      /\ reset' = [past |-> reset.begun, begun |-> reset.begun,
                   deleted |-> reset.deleted \cup reset.doomed, doomed |-> {}]
      /\ UNCHANGED <<matched, demoRows, stock, inserting, written, slipped, seedings>>
  BY DEF DeleteRows
<1>2. /\ reset'.past = reset.begun /\ reset'.begun = reset.begun
      /\ reset'.deleted = reset.deleted \cup reset.doomed /\ reset'.doomed = {}
  BY <1>1
<1>3. /\ matched = ResetGuards /\ seedings > 0 /\ reset.past \in Nat
      /\ reset.begun = reset.past + 1 /\ reset.begun <= Len(Tables)
      /\ \A r \in reset.deleted \cup reset.doomed : r.table \notin Preserved
      /\ \A r \in reset.doomed : r.table = Tables[reset.begun]
      /\ \A i \in 1 .. reset.begun : \A r \in demoRows :
           r.table = Tables[i] /\ r.table \notin Preserved => r \in reset.deleted \cup reset.doomed \cup slipped
      /\ \A r \in demoRows \ (reset.deleted \cup reset.doomed) :
           Dangling(r, demoRows \ reset.deleted) =>
             r.table \notin Preserved /\ (NotAfterItsParent(r.table) \/ ToCome(r.table))
  BY <1>1 DEF DemoInv, ResetIsSound
<1>4. DOMAIN Tables = 1 .. Len(Tables) /\ Len(Tables) \in Nat /\ reset.begun \in DOMAIN Tables
  BY <1>3, DemoAssumption
<1>5. ASSUME NEW r \in demoRows \ (reset.deleted \cup reset.doomed),
             Dangling(r, demoRows \ (reset.deleted \cup reset.doomed))
      PROVE  r.table \notin Preserved /\ (NotAfterItsParent(r.table) \/ ToCome(r.table)')
  <2>1. CASE Dangling(r, demoRows \ reset.deleted)
    BY <2>1, <1>2, <1>3, <1>5 DEF ToCome
  <2>2. CASE ~Dangling(r, demoRows \ reset.deleted)
    <3>1. PICK p \in (demoRows \ reset.deleted) \ (demoRows \ (reset.deleted \cup reset.doomed)) :
            IsParent(p, r)
      BY <2>2, <1>5, ParentLost
    <3>2. p \in reset.doomed /\ p.table = ParentTable[r.table]
      BY <3>1 DEF IsParent
    <3>3. Tables[reset.begun] = ParentTable[r.table] /\ ParentTable[r.table] \notin Preserved
      BY <3>2, <1>3
    <3>4. PICK i \in DOMAIN Tables : r.table = Tables[i]
      BY DEF DemoInv
    <3>5. r.table \notin Preserved
      BY <3>3, <1>4, DemoAssumption
    <3>6. CASE i <= reset.begun
      BY <3>3, <3>4, <3>5, <3>6, <1>4 DEF NotAfterItsParent
    <3>7. CASE i > reset.begun
      BY <3>4, <3>5, <3>7, <1>2 DEF ToCome
    <3> QED
      BY <3>6, <3>7, <1>3, <1>4
  <2> QED
    BY <2>1, <2>2
<1>6. ResetIsSound'
  <2>1. /\ matched' = ResetGuards /\ seedings' > 0
        /\ reset'.past \in Nat /\ reset'.begun \in {reset'.past, reset'.past + 1}
        /\ reset'.begun <= Len(Tables)
    BY <1>1, <1>2, <1>3
  <2>2. /\ \A r \in reset'.deleted \cup reset'.doomed : r.table \notin Preserved
        /\ \A r \in reset'.doomed : reset'.begun # reset'.past /\ r.table = Tables[reset'.begun]
    BY <1>2, <1>3
  <2>3. \A i \in 1 .. reset'.begun : \A r \in demoRows' :
         r.table = Tables[i] /\ r.table \notin Preserved =>
           r \in reset'.deleted \cup reset'.doomed \cup slipped'
    BY <1>1, <1>2, <1>3
  <2>4. \A r \in demoRows' \ (reset'.deleted \cup reset'.doomed) :
         Dangling(r, demoRows' \ reset'.deleted) =>
           r.table \notin Preserved /\ (NotAfterItsParent(r.table) \/ ToCome(r.table)')
    BY <1>1, <1>2, <1>5
  <2> QED
    BY <2>1, <2>2, <2>3, <2>4 DEF ResetIsSound, Dangling
<1>7. ASSUME NEW w \in Writers, inserting[w] # NoDemoRow PROVE Belongs(inserting[w])'
  BY <1>1, <1>2, <1>7 DEF DemoInv, Belongs
<1> QED
  BY <1>1, <1>6, <1>7, WhileRowsStay

\* What a reset leaves without its parent was written behind its back: the table was
\* passed, or the row would be deleted too.
LEMMA CommittingResetIsKept ==
  ASSUME DemoInv, CommitReset
  PROVE  DemoInv'
<1> DEFINE left == (demoRows \ reset.deleted) \cup SeedRows
<1>1. /\ reset # NoReset /\ reset.past = Len(Tables)
      /\ demoRows' = left /\ seedings' = 1 /\ reset' = NoReset
      /\ UNCHANGED <<matched, inserting, written, slipped>>
  BY DEF CommitReset, WithSeed
<1>2. stock' = SeedStock([stock EXCEPT !.ledger = 0])
  BY DEF CommitReset
<1>3. [stock EXCEPT !.ledger = 0].ledger = 0 /\ Opening \in Nat
  BY DemoAssumption DEF DemoInv
<1>4. stock' = [balance |-> Opening, ledger |-> Opening]
  BY <1>2, <1>3 DEF SeedStock
<1>5. DOMAIN Tables = 1 .. Len(Tables) /\ Len(Tables) \in Nat
  BY DemoAssumption
<1>6. /\ matched = ResetGuards
      /\ reset.begun = Len(Tables)
      /\ \A r \in reset.deleted : r.table \notin Preserved
      /\ \A i \in 1 .. reset.begun : \A r \in demoRows :
           r.table = Tables[i] /\ r.table \notin Preserved => r \in reset.deleted \cup reset.doomed \cup slipped
      /\ \A r \in demoRows \ (reset.deleted \cup reset.doomed) :
           Dangling(r, demoRows \ reset.deleted) =>
             r.table \notin Preserved /\ (NotAfterItsParent(r.table) \/ ToCome(r.table))
  <2>1. ResetIsSound /\ reset # NoReset
    BY <1>1 DEF DemoInv
  <2>2. reset.begun = Len(Tables)
    BY <2>1, <1>1, <1>5 DEF ResetIsSound
  <2> QED
    BY <2>1, <2>2 DEF ResetIsSound
<1>7. \A r : r \notin reset.doomed
  BY <1>1, <1>6 DEF DemoInv, ResetIsSound
<1>8. \A r \in demoRows : \E i \in DOMAIN Tables : r.table = Tables[i]
  BY DEF DemoInv
<1>9. ASSUME NEW r \in left, Dangling(r, left)
      PROVE  r \in slipped /\ r.table \notin Preserved /\ NotAfterItsParent(r.table)
  <2>1. r \notin SeedRows
    BY <1>9, SeedBelongs
  <2>2. r \in demoRows /\ r \notin reset.deleted /\ Dangling(r, demoRows \ reset.deleted)
    BY <2>1, <1>9, DanglingLess
  <2>3. r.table \notin Preserved /\ (NotAfterItsParent(r.table) \/ ToCome(r.table))
    BY <2>2, <1>6, <1>7
  <2>4. ~ToCome(r.table)
    BY <1>5, <1>6 DEF ToCome
  <2>5. r \in slipped
    <3>1. PICK i \in DOMAIN Tables : r.table = Tables[i]
      BY <2>2, <1>8
    <3>2. i \in 1 .. reset.begun
      BY <3>1, <1>5, <1>6
    <3>3. r \in reset.deleted \cup reset.doomed \cup slipped
      BY <3>1, <3>2, <2>2, <2>3, <1>6
    <3> QED
      BY <3>3, <2>2, <1>7
  <2> QED
    BY <2>3, <2>4, <2>5
<1>10. \A r \in left : \E i \in DOMAIN Tables : r.table = Tables[i]
  BY <1>8, SeedBelongs
<1>11. \A r \in written : r.table \in Preserved \/ matched # ResetGuards => r \in left
  BY <1>6 DEF DemoInv, DemoIsWhole
<1>12. ASSUME NEW w \in Writers, inserting[w] # NoDemoRow
       PROVE  /\ \E i \in DOMAIN Tables : inserting[w].table = Tables[i]
              /\ inserting[w].parent # NoTable => \E p \in left : IsParent(p, inserting[w])
  BY <1>1, <1>12 DEF DemoInv, Belongs
<1> HIDE DEF left
<1>13. ASSUME NEW w \in Writers, inserting'[w] # NoDemoRow PROVE Belongs(inserting[w])'
  BY <1>1, <1>12, <1>13 DEF Belongs
<1>14. stock'.balance = Opening /\ stock'.ledger = Opening /\ Opening * (seedings' - 1) = 0
  BY <1>1, <1>3, <1>4
<1>15. StockOK'
  BY <1>1, <1>3, <1>14 DEF StockOK
<1>16. DemoIsWhole'
  BY <1>1, <1>9, <1>11, <1>15 DEF DemoIsWhole, StockOK, Dangling
<1>17. ResetIsSound'
  BY <1>1 DEF ResetIsSound
<1>18. matched' \subseteq ResetGuards /\ DOMAIN inserting' = Writers
  BY <1>1 DEF DemoInv
<1>19. stock' = [balance |-> stock'.balance, ledger |-> stock'.ledger]
  BY <1>4, <1>14
<1> QED
  BY <1>1, <1>10, <1>13, <1>15, <1>16, <1>17, <1>18, <1>19 DEF DemoInv

LEMMA BeginningIsKept ==
  ASSUME DemoInv, NEW w \in Writers, NEW i \in DOMAIN Tables, BeginWrite(w, Tables[i])
  PROVE  DemoInv'
<1>1. PICK p \in demoRows \cup {[table |-> NoTable, key |-> NoTable]} :
        /\ p.table = ParentTable[Tables[i]]
        /\ reset # NoReset => p \notin reset.deleted
        /\ inserting' = [inserting EXCEPT ![w] =
             [table |-> Tables[i], key |-> <<w, Cardinality(written)>>, parent |-> p.key]]
  BY DEF BeginWrite
<1> DEFINE new == [table |-> Tables[i], key |-> <<w, Cardinality(written)>>, parent |-> p.key]
<1>2. UNCHANGED <<matched, demoRows, stock, written, slipped, reset, seedings>>
  BY DEF BeginWrite
<1>3. new.table = Tables[i] /\ new.parent = p.key
  OBVIOUS
<1>4. new.parent # NoTable => p \in demoRows
  BY <1>3
<1> HIDE DEF new
<1>5. Belongs(new)
  BY <1>1, <1>3, <1>4 DEF Belongs, IsParent
<1>6. DOMAIN inserting' = Writers /\ \A v \in Writers : inserting'[v] = IF v = w THEN new ELSE inserting[v]
  BY <1>1 DEF DemoInv, new
<1>7. \A v \in Writers : inserting'[v] # NoDemoRow => Belongs(inserting'[v])
  BY <1>5, <1>6 DEF DemoInv
<1>8. \A v \in Writers : inserting'[v] # NoDemoRow => Belongs(inserting[v])'
  BY <1>2, <1>7 DEF Belongs
<1>9. ResetIsSound' /\ DemoIsWhole'
  BY <1>2 DEF DemoInv, ResetIsSound, ToCome, DemoIsWhole, Dangling
<1>10. StockOK'
  BY <1>2 DEF DemoInv, StockOK
<1> QED
  BY <1>2, <1>6, <1>8, <1>9, <1>10 DEF DemoInv

\* A row is committed beside its parent; a reset that has begun with its table will not
\* know it.
LEMMA CommittingWriteIsKept ==
  ASSUME DemoInv, NEW w \in Writers, CommitWrite(w)
  PROVE  DemoInv'
<1> SUFFICES ASSUME NEW r, r = inserting[w] PROVE DemoInv'
  OBVIOUS
<1>1. /\ Belongs(r) /\ demoRows' = demoRows \cup {r} /\ written' = written \cup {r}
      /\ slipped' = IF BegunWith(r.table) THEN slipped \cup {r} ELSE slipped
      /\ inserting' = [inserting EXCEPT ![w] = NoDemoRow]
      /\ UNCHANGED <<matched, stock, reset, seedings>>
  BY DEF CommitWrite, DemoInv
<1>2. slipped \subseteq slipped'
  BY <1>1
<1>3. DOMAIN inserting' = Writers
  BY <1>1 DEF DemoInv
<1>4. \A v \in Writers \ {w} : inserting'[v] = inserting[v]
  BY <1>1 DEF DemoInv
<1>5. inserting'[w] = NoDemoRow
  BY <1>1 DEF DemoInv
<1>6. ASSUME NEW v \in Writers, inserting'[v] # NoDemoRow PROVE Belongs(inserting[v])'
  <2>1. inserting'[v] = inserting[v] /\ Belongs(inserting[v])
    BY <1>4, <1>5, <1>6 DEF DemoInv
  <2> QED
    BY <2>1, <1>1 DEF Belongs
<1>7. ~Dangling(r, demoRows') /\ (reset # NoReset => ~Dangling(r, demoRows' \ reset.deleted))
  BY <1>1 DEF Belongs, Dangling
<1>8. ASSUME NEW q \in demoRows', Dangling(q, demoRows')
      PROVE  q \in slipped' /\ q.table \notin Preserved /\ NotAfterItsParent(q.table)
  <2>1. q \in demoRows /\ Dangling(q, demoRows)
    BY <1>1, <1>7, <1>8, DanglingLess
  <2> QED
    BY <2>1, <1>2 DEF DemoInv, DemoIsWhole
<1>9. StockOK'
  BY <1>1 DEF DemoInv, StockOK
<1>10. DemoIsWhole'
  <2>1. \A q \in written' : q.table \in Preserved \/ matched' # ResetGuards => q \in demoRows'
    BY <1>1 DEF DemoInv, DemoIsWhole
  <2>2. seedings' = 0 => demoRows' = written'
    BY <1>1 DEF DemoInv, DemoIsWhole
  <2> QED
    BY <2>1, <2>2, <1>8, <1>9 DEF DemoIsWhole, StockOK, Dangling
<1>11. ResetIsSound'
  <2> SUFFICES ASSUME reset # NoReset PROVE ResetIsSound'
    BY <1>1 DEF ResetIsSound
  <2>1. ASSUME NEW i \in 1 .. reset.begun, r.table = Tables[i] PROVE r \in slipped'
    BY <2>1, <1>1 DEF BegunWith
  <2>2. \A i \in 1 .. reset.begun : \A q \in demoRows' :
         q.table = Tables[i] /\ q.table \notin Preserved =>
           q \in reset.deleted \cup reset.doomed \cup slipped'
    BY <2>1, <1>1, <1>2 DEF DemoInv, ResetIsSound
  <2>3. ASSUME NEW q \in demoRows' \ (reset.deleted \cup reset.doomed),
               Dangling(q, demoRows' \ reset.deleted)
        PROVE  q.table \notin Preserved /\ (NotAfterItsParent(q.table) \/ ToCome(q.table)')
    <3>1. q \in demoRows /\ Dangling(q, demoRows \ reset.deleted)
      BY <2>3, <1>1, <1>7, DanglingLess
    <3>2. q.table \notin Preserved /\ (NotAfterItsParent(q.table) \/ ToCome(q.table))
      BY <3>1, <2>3 DEF DemoInv, ResetIsSound
    <3> QED
      BY <3>2, <1>1 DEF ToCome
  <2> QED
    BY <2>2, <2>3, <1>1 DEF DemoInv, ResetIsSound, Dangling
<1>12. \A q \in demoRows' : \E i \in DOMAIN Tables : q.table = Tables[i]
  BY <1>1 DEF DemoInv, Belongs
<1>13. stock' = [balance |-> stock'.balance, ledger |-> stock'.ledger]
  BY <1>1 DEF DemoInv
<1> QED
  BY <1>1, <1>3, <1>6, <1>9, <1>10, <1>11, <1>12, <1>13 DEF DemoInv

LEMMA DemoKeeps ==
  ASSUME DemoInv, [DemoNext]_demoVars
  PROVE  DemoInv'
<1>1. ASSUME UNCHANGED <<matched, demoRows, written, slipped, reset, seedings>>,
             DOMAIN inserting' = Writers,
             \A w \in Writers : inserting'[w] # NoDemoRow => inserting'[w] = inserting[w],
             stock' = stock \/ TakeStock
      PROVE  DemoInv'
  <2>1. \A w \in Writers : inserting'[w] # NoDemoRow => Belongs(inserting[w])'
    BY <1>1 DEF DemoInv, Belongs
  <2>2. ResetIsSound'
    BY <1>1 DEF DemoInv, ResetIsSound, ToCome
  <2>3. stock' = [balance |-> stock'.balance, ledger |-> stock'.ledger] /\ StockOK'
    <3>1. CASE stock' = stock
      BY <3>1, <1>1 DEF DemoInv, StockOK
    <3>2. CASE TakeStock
      <4>1. /\ stock.balance > 0
            /\ stock' = [balance |-> stock.balance - 1, ledger |-> stock.ledger - 1]
        BY <3>2 DEF TakeStock
      <4>2. stock'.balance = stock.balance - 1 /\ stock'.ledger = stock.ledger - 1
        BY <4>1
      <4>3. StockOK /\ Opening \in Nat /\ seedings \in Nat
        BY DemoAssumption DEF DemoInv
      <4>4. stock'.ledger - stock'.balance = stock.ledger - stock.balance
        BY <4>2, <4>3 DEF StockOK
      <4>5. StockOK'
        BY <4>1, <4>2, <4>3, <4>4, <1>1 DEF StockOK
      <4> QED
        BY <4>1, <4>2, <4>5
    <3> QED
      BY <3>1, <3>2, <1>1
  <2>4. DemoIsWhole'
    BY <1>1, <2>3 DEF DemoInv, DemoIsWhole, StockOK, Dangling
  <2> QED
    BY <1>1, <2>1, <2>2, <2>3, <2>4 DEF DemoInv
<1>2. CASE UNCHANGED demoVars
  BY <1>1, <1>2 DEF demoVars, DemoInv
<1>3. CASE TakeStock
  BY <1>1, <1>3 DEF TakeStock, DemoInv
<1>4. ASSUME NEW w \in Writers, RollBackWrite(w)
      PROVE  DemoInv'
  BY <1>1, <1>4 DEF RollBackWrite, DemoInv
<1> QED
  BY <1>2, <1>3, <1>4, SeedingIsKept, StartingIsKept, FailingIsKept, DoomingIsKept, DeletingIsKept,
     CommittingResetIsKept, BeginningIsKept, CommittingWriteIsKept DEF DemoNext

-----------------------------------------------------------------------------
(* OCR: what is answered is a reading of what was asked for.               *)

\* What a company chose for a category is a provider it can see.
ChoicesAreVisible ==
  \A c \in Companies, k \in Categories :
    active[c][k] # NoChoice => active[c][k] \in ProviderIds /\ Visible(c, active[c][k])

ProvidersInv ==
  /\ active \in [Companies -> [Categories -> ProviderIds \cup {NoChoice}]]
  /\ ChoicesAreVisible

\* What any step makes of the choices.
ChoicesMove ==
  \/ UNCHANGED active
  \/ active' = NoChoices
  \/ \E c \in Companies, i \in ProviderIds : Activate(c, i) \/ Deactivate(c, i)

LEMMA ProvidersStart == ProvidersInit => ProvidersInv
  BY DEF ProvidersInit, ProvidersInv, ChoicesAreVisible, NoChoices

LEMMA ProvidersKeep ==
  ASSUME ProvidersInv, ChoicesMove
  PROVE  ProvidersInv'
<1>1. CASE UNCHANGED active
  BY <1>1 DEF ProvidersInv, ChoicesAreVisible
<1>2. CASE active' = NoChoices
  BY <1>2 DEF ProvidersInv, ChoicesAreVisible, NoChoices
<1>3. ASSUME NEW c \in Companies, NEW i \in ProviderIds, Activate(c, i) \/ Deactivate(c, i)
      PROVE  ProvidersInv'
  <2>1. PICK chosen \in {i, NoChoice} :
          active' = [active EXCEPT ![c] = [@ EXCEPT ![ChosenFor(i)] = chosen]]
    BY <1>3 DEF Activate, Deactivate
  <2>2. Visible(c, i)
    BY <1>3 DEF Activate, Deactivate
  <2>3. [active[c] EXCEPT ![ChosenFor(i)] = chosen] \in [Categories -> ProviderIds \cup {NoChoice}]
    BY DEF ProvidersInv
  <2>4. active' \in [Companies -> [Categories -> ProviderIds \cup {NoChoice}]]
    BY <2>1, <2>3 DEF ProvidersInv
  <2>5. ASSUME NEW d \in Companies, NEW k \in Categories
        PROVE  active'[d][k] \in {active[d][k], IF d = c THEN chosen ELSE active[d][k]}
    BY <2>1 DEF ProvidersInv
  <2>6. ChoicesAreVisible'
    BY <2>2, <2>5 DEF ProvidersInv, ChoicesAreVisible
  <2> QED
    BY <2>4, <2>6 DEF ProvidersInv
<1> QED
  BY <1>1, <1>2, <1>3 DEF ChoicesMove

\* The provider that reads for a company is one it can see.
LEMMA ReaderIsVisible ==
  ASSUME ProvidersInv, NEW c \in Companies
  PROVE  ActiveOf(c, "OCR") \in ProviderIds /\ Visible(c, ActiveOf(c, "OCR"))
  BY OcrAssumption, ProvidersAssumption DEF ProvidersInv, ChoicesAreVisible, ActiveOf, Visible, ProviderIds

Job == [company : Companies, key : Keys, document : Documents,
        content : {Stored[d].content : d \in Documents}, provider : ProviderIds,
        review : {"PENDING", "DRAFT_APPROVED", "REJECTED"}]
Call == [reader : Readers, key : Keys, document : Documents,
         content : {Stored[d].content : d \in Documents}, provider : ProviderIds]
Reading == [company : Companies, key : Keys, document : Documents, job : Nat]

\* A reading is of the document of its company, by a provider of that company.
Reads(company, document, content, provider) ==
  /\ content = Stored[document].content
  /\ Visible(company, provider)

OcrTypeOK ==
  /\ jobs \in Seq(Job)
  /\ jobByKey \in [Companies -> [Keys -> Nat]]
  /\ calls \subseteq Call
  /\ answers \subseteq Reading

OcrInv ==
  /\ OcrTypeOK
  /\ \A n \in 1 .. Len(jobs) :
       Reads(jobs[n].company, jobs[n].document, jobs[n].content, jobs[n].provider)
  /\ \A call \in calls :
       Reads(CompanyOf[call.reader], call.document, call.content, call.provider)
  /\ \A x \in answers : /\ x.job \in 1 .. Len(jobs)
                        /\ jobs[x.job].document = x.document
                        /\ jobs[x.job].company = x.company
  /\ \A c \in Companies, k \in Keys :
       jobByKey[c][k] # NoJob => /\ jobByKey[c][k] \in 1 .. Len(jobs)
                                 /\ jobs[jobByKey[c][k]].company = c
                                 /\ jobs[jobByKey[c][k]].key = k

LEMMA ReadingsAnswer == OcrInv => AnswersAreOfTheirDocument
<1> SUFFICES ASSUME OcrInv PROVE AnswersAreOfTheirDocument
  OBVIOUS
<1>1. ASSUME NEW x \in answers
      PROVE  /\ jobs[x.job].document = x.document
             /\ jobs[x.job].company = x.company
             /\ jobs[x.job].content = Stored[x.document].content
             /\ Visible(x.company, jobs[x.job].provider)
  BY <1>1 DEF OcrInv, Reads
<1> QED
  BY <1>1 DEF OcrInv, AnswersAreOfTheirDocument

LEMMA OcrStarts == OcrInit => OcrInv
  BY DEF OcrInit, OcrInv, OcrTypeOK, NoJob

\* A new process has answered nothing.
LEMMA RestartingIsKept == OcrInv /\ Restart => OcrInv'
  BY DEF Restart, OcrInv, OcrTypeOK, NoJob

LEMMA RepeatingIsKept ==
  ASSUME OcrInv, NEW r \in Readers, NEW k \in Keys, NEW d \in Documents,
         Repeat(r, k, d, Stored[d].content)
  PROVE  OcrInv'
<1> SUFFICES ASSUME NEW n, n = jobByKey[CompanyOf[r]][k] PROVE OcrInv'
  OBVIOUS
<1> DEFINE x == [company |-> CompanyOf[r], key |-> k, document |-> d, job |-> n]
<1>1. /\ n # NoJob /\ jobs[n].document = d /\ answers' = answers \cup {x}
      /\ UNCHANGED <<jobs, jobByKey, calls>>
  BY DEF Repeat, Same, Answers
<1>2. CompanyOf[r] \in Companies
  BY OcrAssumption
<1>3. n \in 1 .. Len(jobs) /\ jobs[n].company = CompanyOf[r] /\ n \in Nat
  BY <1>1, <1>2 DEF OcrInv, OcrTypeOK
<1>4. x \in Reading /\ x.job = n /\ x.document = d /\ x.company = CompanyOf[r]
  BY <1>2, <1>3 DEF Reading
<1> HIDE DEF x
<1>5. OcrTypeOK'
  BY <1>1, <1>4 DEF OcrInv, OcrTypeOK
<1>6. \A y \in answers' : /\ y.job \in 1 .. Len(jobs)
                          /\ jobs[y.job].document = y.document
                          /\ jobs[y.job].company = y.company
  BY <1>1, <1>3, <1>4 DEF OcrInv
<1> QED
  BY <1>1, <1>5, <1>6 DEF OcrInv

\* The provider is called with the content of the document.
LEMMA CallingIsKept ==
  ASSUME OcrInv, ProvidersInv, NEW r \in Readers, NEW k \in Keys, NEW d \in Documents,
         Extract(r, k, d, Stored[d].content)
  PROVE  OcrInv'
<1> SUFFICES ASSUME NEW i, i = ActiveOf(CompanyOf[r], "OCR") PROVE OcrInv'
  OBVIOUS
<1> DEFINE call == [reader |-> r, key |-> k, document |-> d, content |-> Stored[d].content,
                    provider |-> i]
<1>1. calls' = calls \cup {call} /\ UNCHANGED <<jobs, jobByKey, answers>>
  BY DEF Extract
<1>2. i \in ProviderIds /\ Visible(CompanyOf[r], i)
  BY OcrAssumption, ReaderIsVisible
<1>3. /\ call \in Call /\ call.reader = r /\ call.document = d
      /\ call.content = Stored[d].content /\ call.provider = i
  BY <1>2 DEF Call
<1> HIDE DEF call
<1>4. Reads(CompanyOf[call.reader], call.document, call.content, call.provider)
  BY <1>2, <1>3 DEF Reads
<1>5. OcrTypeOK'
  BY <1>1, <1>3 DEF OcrInv, OcrTypeOK
<1>6. \A e \in calls' : Reads(CompanyOf[e.reader], e.document, e.content, e.provider)
  BY <1>1, <1>4 DEF OcrInv
<1> QED
  BY <1>1, <1>5, <1>6 DEF OcrInv

\* A job is stored of what was read, whoever was stored meanwhile.
LEMMA StoringIsKept ==
  ASSUME OcrInv, NEW call \in calls, Extracted(call)
  PROVE  OcrInv'
<1> SUFFICES ASSUME NEW c, c = CompanyOf[call.reader], NEW n, n = Len(jobs) + 1 PROVE OcrInv'
  OBVIOUS
<1> DEFINE job == [company |-> c, key |-> call.key, document |-> call.document,
                   content |-> call.content, provider |-> call.provider, review |-> "PENDING"]
           x == [company |-> c, key |-> call.key, document |-> call.document, job |-> n]
<1>1. /\ jobs' = Append(jobs, job)
      /\ jobByKey' = [jobByKey EXCEPT ![c][call.key] = n]
      /\ answers' = answers \cup {x}
      /\ calls' = calls \ {call}
  BY DEF Extracted, Answers
<1>2. /\ call \in Call /\ c \in Companies /\ jobs \in Seq(Job) /\ n \in Nat
      /\ Reads(c, call.document, call.content, call.provider)
  BY OcrAssumption, LenProperties DEF OcrInv, OcrTypeOK, Call
<1>3. /\ job \in Job /\ job.company = c /\ job.key = call.key /\ job.document = call.document
      /\ job.content = call.content /\ job.provider = call.provider
  BY <1>2 DEF Job, Call
<1>4. x \in Reading /\ x.job = n /\ x.document = call.document /\ x.company = c
  BY <1>2 DEF Reading, Call
<1> HIDE DEF job, x
<1>5. /\ jobs' \in Seq(Job) /\ Len(jobs') = n /\ jobs'[n] = job
      /\ \A m \in 1 .. Len(jobs) : jobs'[m] = jobs[m]
  BY <1>1, <1>2, <1>3, AppendProperties
<1>6. [jobByKey[c] EXCEPT ![call.key] = n] \in [Keys -> Nat]
  BY <1>2 DEF OcrInv, OcrTypeOK
<1>7. /\ jobByKey' \in [Companies -> [Keys -> Nat]]
      /\ \A e \in Companies, k \in Keys :
           jobByKey'[e][k] = IF e = c /\ k = call.key THEN n ELSE jobByKey[e][k]
  BY <1>1, <1>2, <1>6 DEF OcrInv, OcrTypeOK
<1>8. OcrTypeOK'
  BY <1>1, <1>4, <1>5, <1>7 DEF OcrInv, OcrTypeOK
<1>9. \A m \in 1 .. n : m \in 1 .. Len(jobs) \/ m = n
  BY <1>2, LenProperties
<1>10. \A m \in 1 .. Len(jobs) : m \in 1 .. n
  BY <1>2, LenProperties
<1>11. ASSUME NEW m \in 1 .. n
       PROVE  Reads(jobs'[m].company, jobs'[m].document, jobs'[m].content, jobs'[m].provider)
  BY <1>2, <1>3, <1>5, <1>9 DEF OcrInv
<1>12. ASSUME NEW y \in answers'
       PROVE  /\ y.job \in 1 .. n
              /\ jobs'[y.job].document = y.document
              /\ jobs'[y.job].company = y.company
  <2>1. CASE y = x
    BY <2>1, <1>2, <1>3, <1>4, <1>5, LenProperties
  <2>2. CASE y \in answers
    BY <2>2, <1>5, <1>10 DEF OcrInv
  <2> QED
    BY <2>1, <2>2, <1>1
<1>13. ASSUME NEW e \in Companies, NEW k \in Keys, jobByKey'[e][k] # NoJob
       PROVE  /\ jobByKey'[e][k] \in 1 .. n
              /\ jobs'[jobByKey'[e][k]].company = e
              /\ jobs'[jobByKey'[e][k]].key = k
  <2>1. CASE e = c /\ k = call.key
    BY <2>1, <1>2, <1>3, <1>5, <1>7, LenProperties
  <2>2. CASE ~(e = c /\ k = call.key)
    BY <2>2, <1>5, <1>7, <1>10, <1>13 DEF OcrInv
  <2> QED
    BY <2>1, <2>2
<1>14. \A e \in calls' : Reads(CompanyOf[e.reader], e.document, e.content, e.provider)
  BY <1>1 DEF OcrInv
<1> QED
  BY <1>5, <1>8, <1>11, <1>12, <1>13, <1>14 DEF OcrInv, Reads

\* A review changes nothing of what was read.
LEMMA ReviewingIsKept ==
  ASSUME OcrInv, NEW r \in Readers, NEW n \in DOMAIN jobs,
         NEW outcome \in {"DRAFT_APPROVED", "REJECTED"}, Confirm(r, n, outcome)
  PROVE  OcrInv'
<1> DEFINE job == [jobs[n] EXCEPT !.review = outcome]
<1>1. /\ jobs \in Seq(Job) /\ Len(jobs) \in Nat /\ DOMAIN jobs = 1 .. Len(jobs)
  BY LenProperties DEF OcrInv, OcrTypeOK
<1>2. jobs[n] \in Job
  BY <1>1, ElementOfSeq
<1>3. job \in Job
  BY <1>2 DEF Job
<1>4. /\ job.company = jobs[n].company /\ job.key = jobs[n].key
      /\ job.document = jobs[n].document /\ job.content = jobs[n].content
      /\ job.provider = jobs[n].provider
  BY <1>2 DEF Job
<1>5. jobs' = [jobs EXCEPT ![n] = job] /\ UNCHANGED <<jobByKey, calls, answers>>
  BY DEF Confirm
<1> HIDE DEF job
<1>6. /\ jobs' \in Seq(Job) /\ Len(jobs') = Len(jobs)
      /\ \A m \in 1 .. Len(jobs) : jobs'[m] = IF m = n THEN job ELSE jobs[m]
  BY <1>1, <1>3, <1>5
<1>7. \A m \in 1 .. Len(jobs) :
        /\ jobs'[m].company = jobs[m].company /\ jobs'[m].key = jobs[m].key
        /\ jobs'[m].document = jobs[m].document /\ jobs'[m].content = jobs[m].content
        /\ jobs'[m].provider = jobs[m].provider
  BY <1>4, <1>6
<1>8. OcrTypeOK'
  BY <1>5, <1>6 DEF OcrInv, OcrTypeOK
<1> QED
  BY <1>5, <1>6, <1>7, <1>8 DEF OcrInv, Reads

LEMMA OcrKeeps ==
  ASSUME OcrInv, ProvidersInv, OcrNext \/ UNCHANGED ocrVars
  PROVE  OcrInv'
<1>1. CASE UNCHANGED ocrVars
  BY <1>1 DEF ocrVars, OcrInv, OcrTypeOK, Reads
<1>2. ASSUME NEW call \in calls, NotExtracted(call)
      PROVE  OcrInv'
  BY <1>2 DEF NotExtracted, OcrInv, OcrTypeOK, Reads
<1> QED
  BY <1>1, <1>2, RepeatingIsKept, CallingIsKept, StoringIsKept, ReviewingIsKept,
     RestartingIsKept DEF OcrNext

-----------------------------------------------------------------------------
(* Assistant: the budget and what is sent; the breakers of all providers.  *)

\* The questions of a company that are worked on.
Working(c) ==
  {q \in Questions : questions[q] # NoQuestion /\ AskerCompany[questions[q].asker] = c}

\* The questions answered and the ones worked on are within the budget together: each was
\* asked when the answered ones were.  Nobody asks where no question is allowed.
WithinBudgets ==
  \A c \in Companies :
    /\ Working(c) # {} => MaxLimit > 0
    /\ usage[c] + Cardinality(Working(c)) <= MaxLimit + Cardinality(Questions) - 1

\* Sources were chosen without what is always prohibited.
SourcesAreAllowed ==
  \A q \in Questions :
    questions[q] # NoQuestion =>
      \A s \in questions[q].sources : Sources[s] \cap AlwaysProhibited = {}

AssistantInv ==
  /\ policy.enabled => policy \in Policies
  /\ usage \in [Companies -> Nat]
  /\ DOMAIN questions = Questions
  /\ WithinBudgets
  /\ SourcesAreAllowed

LEMMA LimitsHaveGreatest ==
  MaxLimit \in Nat /\ \A p \in Policies : p.limit <= MaxLimit
  BY AssistantAssumption DEF MaxLimit

LEMMA WorkingIsFew ==
  ASSUME NEW c
  PROVE  /\ IsFiniteSet(Working(c)) /\ Cardinality(Working(c)) \in Nat
         /\ Cardinality(Questions) \in Nat /\ Cardinality(Questions) > 0
         /\ Cardinality(Working(c)) <= Cardinality(Questions)
<1>1. Working(c) \in SUBSET Questions /\ IsFiniteSet(Questions) /\ Questions # {}
  BY AssistantAssumption DEF Working
<1> QED
  BY <1>1, FS_Subset, FS_EmptySet, FS_CardinalityType

LEMMA AssistantStarts == AssistantInit => AssistantInv
<1> SUFFICES ASSUME AssistantInit PROVE AssistantInv
  OBVIOUS
<1>1. ~policy.enabled /\ usage \in [Companies -> Nat] /\ DOMAIN questions = Questions
  BY DEF AssistantInit, NoPolicy, NoUsage
<1>2. \A c : Working(c) = {}
  BY DEF AssistantInit, Working
<1>3. \A c \in Companies : usage[c] = 0
  BY DEF AssistantInit, NoUsage
<1>4. WithinBudgets
  <2>1. Cardinality({}) = 0
    BY FS_EmptySet
  <2>2. Cardinality(Questions) \in Nat /\ Cardinality(Questions) > 0 /\ MaxLimit \in Nat
    BY LimitsHaveGreatest, WorkingIsFew
  <2>3. 0 + 0 <= MaxLimit + Cardinality(Questions) - 1
    BY <2>2
  <2> QED
    BY <2>1, <2>3, <1>2, <1>3 DEF WithinBudgets
<1>5. SourcesAreAllowed
  BY DEF AssistantInit, SourcesAreAllowed
<1> QED
  BY <1>1, <1>4, <1>5 DEF AssistantInv

\* Where no company works on more questions and none answers more, budgets are kept.
LEMMA FewerAreWithin ==
  ASSUME AssistantInv,
         \A c \in Companies : /\ Working(c)' \subseteq Working(c)
                              /\ usage'[c] \in Nat /\ usage'[c] <= usage[c]
  PROVE  WithinBudgets'
<1> SUFFICES ASSUME NEW c \in Companies
             PROVE  /\ Working(c)' # {} => MaxLimit > 0
                    /\ usage'[c] + Cardinality(Working(c)')
                         <= MaxLimit + Cardinality(Questions) - 1
  BY DEF WithinBudgets
<1> DEFINE W == Working(c)
<1> SUFFICES ASSUME NEW V, V = W', V \subseteq W
             PROVE  /\ V # {} => MaxLimit > 0
                    /\ usage'[c] + Cardinality(V) <= MaxLimit + Cardinality(Questions) - 1
  OBVIOUS
<1>1. /\ W # {} => MaxLimit > 0
      /\ usage[c] + Cardinality(W) <= MaxLimit + Cardinality(Questions) - 1
      /\ usage[c] \in Nat
  BY DEF AssistantInv, WithinBudgets
<1>2. IsFiniteSet(W) /\ Cardinality(W) \in Nat /\ Cardinality(Questions) \in Nat
  BY WorkingIsFew
<1> HIDE DEF W
<1>3. Cardinality(V) <= Cardinality(W) /\ Cardinality(V) \in Nat
  BY <1>2, FS_Subset, FS_CardinalityType
<1> QED
  BY <1>1, <1>2, <1>3, LimitsHaveGreatest

\* A question that is asked is within the budget with all that can be worked on.
LEMMA AskingIsKept ==
  ASSUME AssistantInv, NEW q \in Questions, NEW u \in Askers, MayAsk(u),
         questions[q] = NoQuestion, NEW question,
         questions' = [questions EXCEPT ![q] = question],
         question # NoQuestion, question.asker = u,
         \A s \in question.sources : Sources[s] \cap AlwaysProhibited = {},
         UNCHANGED <<policy, usage>>
  PROVE  AssistantInv'
<1>1. /\ DOMAIN questions' = Questions /\ questions'[q] = question
      /\ \A o \in Questions : o # q => questions'[o] = questions[o]
  BY DEF AssistantInv
<1>2. SourcesAreAllowed'
  BY <1>1 DEF AssistantInv, SourcesAreAllowed
<1>3. policy \in Policies /\ usage \in [Companies -> Nat]
  BY DEF AssistantInv, MayAsk
<1>4. policy.limit <= MaxLimit /\ policy.limit \in Nat /\ MaxLimit \in Nat
  BY <1>3, LimitsHaveGreatest, AssistantAssumption
<1>5. ASSUME NEW c \in Companies
      PROVE  /\ Working(c)' # {} => MaxLimit > 0
             /\ usage[c] + Cardinality(Working(c)') <= MaxLimit + Cardinality(Questions) - 1
  <2> DEFINE W == Working(c)
  <2> SUFFICES ASSUME NEW V, V = W'
               PROVE  /\ V # {} => MaxLimit > 0
                      /\ usage[c] + Cardinality(V) <= MaxLimit + Cardinality(Questions) - 1
    OBVIOUS
  <2>1. /\ W # {} => MaxLimit > 0
        /\ usage[c] + Cardinality(W) <= MaxLimit + Cardinality(Questions) - 1
        /\ usage[c] \in Nat
    BY DEF AssistantInv, WithinBudgets
  <2>2. CASE AskerCompany[u] # c
    <3>1. V = W
      BY <2>2, <1>1 DEF Working
    <3> QED
      BY <3>1, <2>1
  <2>3. CASE AskerCompany[u] = c
    <3>1. usage[c] < policy.limit
      BY <2>3 DEF MayAsk, WithinBudget
    <3>2. V \in SUBSET Questions
      BY DEF Working
    <3>3. Cardinality(V) <= Cardinality(Questions) /\ Cardinality(V) \in Nat
          /\ Cardinality(Questions) \in Nat
      BY <3>2, AssistantAssumption, FS_Subset, FS_CardinalityType
    <3> QED
      BY <3>1, <3>3, <2>1, <1>4
  <2> QED
    BY <2>2, <2>3
<1>6. WithinBudgets'
  BY <1>5 DEF WithinBudgets
<1> QED
  BY <1>1, <1>2, <1>3, <1>6 DEF AssistantInv

\* An answer is counted for the question that is over.
LEMMA CountingIsKept ==
  ASSUME AssistantInv, NEW q \in Questions, Answered(q)
  PROVE  AssistantInv'
<1> SUFFICES ASSUME NEW d, d = AskerCompany[questions[q].asker] PROVE AssistantInv'
  OBVIOUS
<1>1. /\ usage' = [usage EXCEPT ![d] = @ + 1]
      /\ questions' = [questions EXCEPT ![q] = NoQuestion]
      /\ policy' = policy /\ questions[q] # NoQuestion
  BY DEF Answered, NoQuestion
<1>2. /\ DOMAIN questions' = Questions /\ questions'[q] = NoQuestion
      /\ \A o \in Questions : o # q => questions'[o] = questions[o]
  BY <1>1 DEF AssistantInv
<1>3. SourcesAreAllowed'
  BY <1>2 DEF AssistantInv, SourcesAreAllowed
<1>4. /\ usage \in [Companies -> Nat] /\ usage' \in [Companies -> Nat]
      /\ \A c \in Companies : usage'[c] = IF c = d THEN usage[c] + 1 ELSE usage[c]
  <2>1. usage \in [Companies -> Nat]
    BY DEF AssistantInv
  <2>2. usage' = [c \in Companies |-> IF c = d THEN usage[c] + 1 ELSE usage[c]]
    BY <2>1, <1>1
  <2>3. \A c \in Companies : (IF c = d THEN usage[c] + 1 ELSE usage[c]) \in Nat
    BY <2>1
  <2> QED
    BY <2>1, <2>2, <2>3
<1>5. ASSUME NEW c \in Companies
      PROVE  /\ Working(c)' # {} => MaxLimit > 0
             /\ usage'[c] + Cardinality(Working(c)') <= MaxLimit + Cardinality(Questions) - 1
  <2> DEFINE W == Working(c)
  <2> SUFFICES ASSUME NEW V, V = W'
               PROVE  /\ V # {} => MaxLimit > 0
                      /\ usage'[c] + Cardinality(V) <= MaxLimit + Cardinality(Questions) - 1
    OBVIOUS
  <2>1. /\ W # {} => MaxLimit > 0
        /\ usage[c] + Cardinality(W) <= MaxLimit + Cardinality(Questions) - 1
        /\ usage[c] \in Nat
    BY <1>4 DEF AssistantInv, WithinBudgets
  <2>2. IsFiniteSet(W) /\ Cardinality(W) \in Nat /\ Cardinality(Questions) \in Nat
    BY WorkingIsFew
  <2>3. V = W \ {q} /\ (d = c <=> q \in W)
    BY <1>1, <1>2 DEF Working
  <2> HIDE DEF W
  <2>4. Cardinality(V) = IF d = c THEN Cardinality(W) - 1 ELSE Cardinality(W)
    BY <2>2, <2>3, FS_RemoveElement
  <2>5. V # {} => MaxLimit > 0
    BY <2>1, <2>3
  <2> QED
    BY <2>1, <2>2, <2>4, <2>5, <1>4, LimitsHaveGreatest
<1>6. WithinBudgets'
  BY <1>5 DEF WithinBudgets
<1> QED
  BY <1>1, <1>2, <1>3, <1>4, <1>6 DEF AssistantInv

LEMMA AssistantKeeps ==
  ASSUME AssistantInv, AssistantNext \/ UNCHANGED assistantVars
  PROVE  AssistantInv'
<1>1. CASE UNCHANGED assistantVars
  BY <1>1 DEF assistantVars, AssistantInv, WithinBudgets, Working, SourcesAreAllowed
<1>2. ASSUME NEW new \in Policies, ConfigurePolicy(new) PROVE AssistantInv'
  BY <1>2 DEF ConfigurePolicy, AssistantInv, WithinBudgets, Working, SourcesAreAllowed
<1>3. ASSUME NEW q \in Questions, NEW u \in Askers, NEW sources \in SUBSET DOMAIN Sources,
             Ask(q, u, sources) \/ AskWithTool(q, u, sources)
      PROVE  AssistantInv'
  <2>1. \A s \in Accepted(sources) : Sources[s] \cap AlwaysProhibited = {}
    BY DEF Accepted
  <2>2. PICK question :
          /\ questions' = [questions EXCEPT ![q] = question]
          /\ question # NoQuestion /\ question.asker = u /\ question.sources = Accepted(sources)
    <3> DEFINE waiting == [step |-> "tool", asker |-> u, sources |-> Accepted(sources)]
               calling == [step |-> "calling", asker |-> u, sources |-> Accepted(sources),
                           provider |-> ActiveOf(AskerCompany[u], "AI"),
                           allowed |-> policy.categories]
    <3>1. \/ questions' = [questions EXCEPT ![q] = waiting]
          \/ questions' = [questions EXCEPT ![q] = calling]
      BY <1>3 DEF Ask, AskWithTool, CallProvider
    <3>2. /\ waiting # NoQuestion /\ waiting.asker = u /\ waiting.sources = Accepted(sources)
          /\ calling # NoQuestion /\ calling.asker = u /\ calling.sources = Accepted(sources)
      <4>1. waiting.step # NoQuestion.step /\ calling.step # NoQuestion.step
        BY DEF NoQuestion
      <4> QED
        BY <4>1
    <3> HIDE DEF waiting, calling
    <3> QED
      BY <3>1, <3>2
  <2>3. MayAsk(u) /\ questions[q] = NoQuestion /\ UNCHANGED <<policy, usage>>
    BY <1>3 DEF Ask, AskWithTool
  <2>4. \A s \in question.sources : Sources[s] \cap AlwaysProhibited = {}
    BY <2>1, <2>2
  <2>5. question # NoQuestion /\ question.asker = u
    BY <2>2
  <2>6. questions' = [questions EXCEPT ![q] = question]
    BY <2>2
  <2> HIDE DEF MayAsk
  <2> QED
    BY <2>3, <2>4, <2>5, <2>6, AskingIsKept
<1>4. ASSUME NEW q \in Questions, AfterTool(q) PROVE AssistantInv'
  <2>1. PICK question :
          /\ questions' = [questions EXCEPT ![q] = question]
          /\ question # NoQuestion /\ question.asker = questions[q].asker
          /\ question.sources = questions[q].sources
    <3> DEFINE calling == [step |-> "calling", asker |-> questions[q].asker,
                           sources |-> questions[q].sources,
                           provider |-> ActiveOf(AskerCompany[questions[q].asker], "AI"),
                           allowed |-> policy.categories]
    <3>1. questions' = [questions EXCEPT ![q] = calling]
      BY <1>4 DEF AfterTool, CallProvider
    <3>2. calling.step # NoQuestion.step
      BY DEF NoQuestion
    <3>3. /\ calling # NoQuestion /\ calling.asker = questions[q].asker
          /\ calling.sources = questions[q].sources
      BY <3>2
    <3> HIDE DEF calling
    <3> QED
      BY <3>1, <3>3
  <2>2. questions[q] # NoQuestion /\ UNCHANGED <<policy, usage>>
    BY <1>4 DEF AfterTool, NoQuestion
  <2>3. /\ DOMAIN questions' = Questions
        /\ \A o \in Questions : /\ questions'[o] # NoQuestion <=> questions[o] # NoQuestion
                                /\ questions'[o].asker = questions[o].asker
                                     \/ questions[o] = NoQuestion
                                /\ questions'[o].sources = questions[o].sources
                                     \/ questions[o] = NoQuestion
    BY <2>1, <2>2 DEF AssistantInv
  <2>4. \A c : Working(c)' = Working(c)
    BY <2>3 DEF Working
  <2>5. WithinBudgets' /\ SourcesAreAllowed'
    BY <2>2, <2>3, <2>4 DEF AssistantInv, WithinBudgets, SourcesAreAllowed
  <2> QED
    BY <2>2, <2>3, <2>5 DEF AssistantInv
<1>5. ASSUME NEW q \in Questions, ToolFails(q) \/ NotAnswered(q) PROVE AssistantInv'
  <2>1. questions' = [questions EXCEPT ![q] = NoQuestion] /\ UNCHANGED <<policy, usage>>
    BY <1>5 DEF ToolFails, NotAnswered
  <2>2. /\ DOMAIN questions' = Questions
        /\ \A o \in Questions : questions'[o] \in {questions[o], NoQuestion}
    BY <2>1 DEF AssistantInv
  <2>3. \A c \in Companies : /\ Working(c)' \subseteq Working(c)
                             /\ usage'[c] \in Nat /\ usage'[c] <= usage[c]
    BY <2>1, <2>2 DEF AssistantInv, Working
  <2>4. WithinBudgets'
    BY <2>3, FewerAreWithin
  <2> QED
    BY <2>1, <2>2, <2>4 DEF AssistantInv, SourcesAreAllowed
<1>6. CASE Midnight
  <2>1. usage' = NoUsage /\ UNCHANGED <<policy, questions>>
    BY <1>6 DEF Midnight
  <2>2. \A c \in Companies : /\ Working(c)' \subseteq Working(c)
                             /\ usage'[c] \in Nat /\ usage'[c] <= usage[c]
    BY <2>1 DEF AssistantInv, Working, NoUsage
  <2>3. WithinBudgets'
    BY <2>2, FewerAreWithin
  <2> QED
    BY <2>1, <2>3 DEF AssistantInv, SourcesAreAllowed, NoUsage
<1>7. CASE RestartAssistant
  <2>1. policy' = NoPolicy /\ questions' = [q \in Questions |-> NoQuestion] /\ usage' = NoUsage
    BY <1>7 DEF RestartAssistant
  <2>2. \A c \in Companies : /\ Working(c)' \subseteq Working(c)
                             /\ usage'[c] \in Nat /\ usage'[c] <= usage[c]
    BY <2>1 DEF AssistantInv, Working, NoUsage
  <2>3. WithinBudgets'
    BY <2>2, FewerAreWithin
  <2> QED
    BY <2>1, <2>3 DEF AssistantInv, SourcesAreAllowed, NoUsage, NoPolicy
<1> QED
  BY <1>1, <1>2, <1>3, <1>4, <1>5, <1>6, <1>7, CountingIsKept DEF AssistantNext

LEMMA BudgetAndSources == AssistantInv => BudgetIsKept /\ NothingProhibitedIsSent
<1> SUFFICES ASSUME AssistantInv PROVE BudgetIsKept /\ NothingProhibitedIsSent
  OBVIOUS
<1>1. ASSUME NEW c \in Companies
      PROVE  usage[c] <= MaxLimit + Cardinality(Questions) - 1
  <2>1. /\ usage[c] + Cardinality(Working(c)) <= MaxLimit + Cardinality(Questions) - 1
        /\ usage[c] \in Nat
    BY DEF AssistantInv, WithinBudgets
  <2> QED
    BY <2>1, WorkingIsFew, LimitsHaveGreatest
<1>2. \A q \in Questions : questions[q].step = "calling" => questions[q] # NoQuestion
  BY DEF NoQuestion
<1> QED
  BY <1>1, <1>2 DEF BudgetIsKept, NothingProhibitedIsSent, AssistantInv, SourcesAreAllowed

Breaker == [failures : Nat, is : {"closed", "open", "cooled"}]

BreakersInv == breaker \in [ProviderIds -> Breaker] /\ BreakerOpens

\* What any step makes of the breakers.
BreakersMove ==
  \/ UNCHANGED breaker
  \/ breaker' = AllClosed
  \/ \E i : Calls(i) \/ CallSucceeds(i) \/ CallFails(i)
  \/ \E i \in ProviderIds : Cool(i)

LEMMA BreakersStart == ASSUME breaker = AllClosed PROVE BreakersInv
<1>1. Threshold \in Nat /\ Threshold > 0
  BY ProvidersAssumption
<1> QED
  BY <1>1 DEF BreakersInv, BreakerOpens, AllClosed, Closed, Breaker

LEMMA BreakersKeep ==
  ASSUME BreakersInv, BreakersMove
  PROVE  BreakersInv'
<1>1. Threshold \in Nat /\ Threshold > 0
  BY ProvidersAssumption
<1>2. CASE UNCHANGED breaker
  BY <1>2 DEF BreakersInv, BreakerOpens
<1>3. CASE breaker' = AllClosed
  BY <1>1, <1>3 DEF BreakersInv, BreakerOpens, AllClosed, Closed, Breaker
<1>4. ASSUME NEW i \in ProviderIds, NEW new \in Breaker, breaker' = [breaker EXCEPT ![i] = new],
             new.failures >= Threshold => new.is # "closed"
      PROVE  BreakersInv'
  BY <1>4 DEF BreakersInv, BreakerOpens
<1>5. ASSUME NEW i \in ProviderIds
      PROVE  /\ breaker[i] \in Breaker
             /\ breaker[i].failures >= Threshold => breaker[i].is # "closed"
  BY DEF BreakersInv, BreakerOpens
<1>6. ASSUME NEW i \in ProviderIds, Calls(i) PROVE BreakersInv'
  <2>1. Entered(i) \in Breaker /\ (Entered(i).failures >= Threshold => Entered(i).is # "closed")
    BY <1>1, <1>5 DEF Entered, Closed, Breaker
  <2> QED
    BY <2>1, <1>4, <1>6 DEF Calls
<1>7. ASSUME NEW i \in ProviderIds, CallSucceeds(i) PROVE BreakersInv'
  <2>1. /\ Succeeded(i) \in Breaker
        /\ Succeeded(i).failures >= Threshold => Succeeded(i).is # "closed"
    BY <1>1, <1>5 DEF Succeeded, Breaker
  <2>2. breaker' = [breaker EXCEPT ![i] = IF Providers[i].remote THEN Succeeded(i) ELSE breaker[i]]
    BY <1>7 DEF CallSucceeds
  <2> QED
    BY <2>1, <2>2, <1>4, <1>5
<1>8. ASSUME NEW i \in ProviderIds, CallFails(i) PROVE BreakersInv'
  <2>1. /\ Failed(i) \in Breaker
        /\ Failed(i).failures >= Threshold => Failed(i).is # "closed"
    BY <1>1, <1>5 DEF Failed, Breaker
  <2>2. breaker' = [breaker EXCEPT ![i] = IF Providers[i].remote THEN Failed(i) ELSE breaker[i]]
    BY <1>8 DEF CallFails
  <2> QED
    BY <2>1, <2>2, <1>4, <1>5
<1>9. ASSUME NEW i \in ProviderIds, Cool(i) PROVE BreakersInv'
  <2> DEFINE new == [breaker[i] EXCEPT !.is = "cooled"]
  <2>1. new \in Breaker /\ new.is = "cooled"
    BY <1>5 DEF Breaker
  <2>2. breaker' = [breaker EXCEPT ![i] = new]
    BY <1>9 DEF Cool
  <2> HIDE DEF new
  <2> QED
    BY <2>1, <2>2, <1>4
<1>10. ASSUME NEW i, i \notin ProviderIds, Calls(i) \/ CallSucceeds(i) \/ CallFails(i)
       PROVE  BreakersInv'
  <2>1. breaker' = breaker
    BY <1>10 DEF Calls, CallSucceeds, CallFails, BreakersInv
  <2> QED
    BY <2>1 DEF BreakersInv, BreakerOpens
<1> QED
  BY <1>2, <1>3, <1>6, <1>7, <1>8, <1>9, <1>10 DEF BreakersMove

-----------------------------------------------------------------------------
(* RateLimit: no span as long as a window meets more than two windows.     *)

\* Times from one on, and those of them before another.
From(t) == {n \in 1 .. MaxNow : t <= n}
Between(t, s) == {n \in 1 .. MaxNow : t <= n /\ n < s}

Admitted == [1 .. MaxNow -> Nat]
Window == [count : Nat, resetAt : Nat]

\* What was admitted of a caller with this window, at a time.  While the window lasts,
\* no more than its requests since it began, and as few in any span that ends there;
\* afterwards, as few since any time that is less than a window ago.
Paced(f, w, at) ==
  /\ SumOver(f, From(at + 1)) = 0
  /\ w.resetAt <= at =>
       /\ SumOver(f, From(at)) = 0
       /\ \A t \in Int : t > at - WindowLength => SumOver(f, From(t)) <= MaximumRequests
  /\ w.resetAt > at =>
       /\ w.resetAt - WindowLength <= at
       /\ SumOver(f, From(w.resetAt - WindowLength)) <= w.count
       /\ SumOver(f, From(w.resetAt - WindowLength)) <= MaximumRequests
       /\ \A t \in Int : t > w.resetAt - 2 * WindowLength =>
            SumOver(f, Between(t, w.resetAt - WindowLength)) <= MaximumRequests
  /\ \A t \in Int : SumOver(f, Within(t)) <= 2 * MaximumRequests

RateInv ==
  /\ now \in 1 .. MaxNow
  /\ windows \in [Callers -> Window]
  /\ admitted \in [Callers -> Admitted]
  /\ \A c \in Callers : Paced(admitted[c], windows[c], now)

LEMMA RateConstants ==
  /\ WindowLength \in Nat /\ WindowLength > 0 /\ MaximumRequests \in Nat /\ MaxNow \in Nat
  BY RateLimitAssumption

\* Any set of times is finite.
LEMMA TimesAreFinite == ASSUME NEW S \in SUBSET (1 .. MaxNow) PROVE IsFiniteSet(S)
<1>1. IsFiniteSet(1 .. MaxNow)
  BY RateConstants, FS_Interval
<1> QED
  BY <1>1, FS_Subset

\* The sum a burst is counted as is the one the lemmas are about.
LEMMA AdmittedIsSum ==
  ASSUME NEW f, NEW t
  PROVE  AdmittedFrom(f, t) = SumOver(f, Within(t))
<1> DEFINE D == Within(t)
           Sums(g) == g = [T \in SUBSET D |->
             IF T = {} THEN 0 ELSE f[Chosen(T)] + g[T \ {Chosen(T)}]]
           k == CHOOSE g : Sums(g)
<1>1. AdmittedFrom(f, t) = k[D]
  BY DEF AdmittedFrom, MapThenSumSet, MapThenFoldSet, Chosen
<1>2. IsFiniteSet(D)
  BY TimesAreFinite, D \in SUBSET (1 .. MaxNow) DEF Within
<1> HIDE DEF D
<1>3. ASSUME NEW g PROVE Sums(g) <=> SumsWithin(f, D, g)
  BY DEF SumsWithin
<1>4. \E g : Sums(g)
  BY <1>2, <1>3, SumsExist
<1>5. SumsWithin(f, D, k)
  BY <1>3, <1>4
<1> HIDE DEF k
<1> QED
  BY <1>1, <1>2, <1>5, SumsAreOver, D \in SUBSET D DEF D

\* Fewer times have as many admissions or fewer.
LEMMA AdmittedFewer ==
  ASSUME NEW f \in Admitted, NEW S \in SUBSET (1 .. MaxNow), NEW T \in SUBSET S
  PROVE  /\ SumOver(f, T) \in Nat /\ SumOver(f, S) \in Nat
         /\ SumOver(f, T) <= SumOver(f, S)
<1>1. IsFiniteSet(S) /\ IsFiniteSet(T) /\ \A x \in S : f[x] \in Nat
  BY TimesAreFinite DEF Admitted
<1> QED
  BY <1>1, SumIsNat, SumOfFewer

\* One request more is in the sum of the times that have it.
LEMMA AdmittedOneMore ==
  ASSUME NEW f \in Admitted, NEW at \in 1 .. MaxNow, NEW S, S \subseteq 1 .. MaxNow
  PROVE  LET g == [f EXCEPT ![at] = @ + 1]
         IN  /\ g \in Admitted
             /\ at \in S => SumOver(g, S) = SumOver(f, S) + 1
             /\ at \notin S => SumOver(g, S) = SumOver(f, S)
<1> DEFINE g == [f EXCEPT ![at] = @ + 1]
<1>1. g \in Admitted
  BY DEF Admitted
<1>2. /\ g[at] = f[at] + 1 /\ f[at] \in Nat
      /\ \A x \in S \ {at} : g[x] = f[x]
      /\ \A x \in S : f[x] \in Int /\ g[x] \in Int
  BY DEF Admitted
<1> HIDE DEF g
<1>3. IsFiniteSet(S)
  BY TimesAreFinite
<1>4. ASSUME at \in S PROVE SumOver(g, S) = SumOver(f, S) + 1
  <2>1. /\ \A x \in S : f[x] \in Int
        /\ \A x \in S : x # at => g[x] = f[x]
    BY <1>2
  <2> QED
    BY <2>1, <1>2, <1>3, <1>4, SumOfOneMore
<1>5. at \notin S => SumOver(g, S) = SumOver(f, S)
  <2>1. at \notin S => \A x \in S : g[x] = f[x]
    BY <1>2
  <2> QED
    BY <2>1, <1>3, SumOfSame
<1> QED
  BY <1>1, <1>4, <1>5 DEF g

\* A span that is not past a window is the end of what was before it, and its beginning.
LEMMA SpanMeetsTwo ==
  ASSUME NEW f \in Admitted, NEW s \in Int, SumOver(f, From(s)) <= MaximumRequests,
         \A t \in Int : t > s - WindowLength => SumOver(f, Between(t, s)) <= MaximumRequests,
         NEW t \in Int, t > s - WindowLength
  PROVE  SumOver(f, Within(t)) <= 2 * MaximumRequests
<1>1. /\ From(t) \in SUBSET (1 .. MaxNow) /\ From(s) \in SUBSET (1 .. MaxNow)
      /\ Between(t, s) \in SUBSET (1 .. MaxNow) /\ Within(t) \in SUBSET From(t)
  BY DEF From, Between, Within
<1>2. MaximumRequests \in Nat
  BY RateConstants
<1>3. CASE t >= s
  <2>1. Within(t) \in SUBSET From(s)
    BY <1>3, RateConstants DEF Within, From
  <2> QED
    BY <2>1, <1>1, <1>2, AdmittedFewer
<1>4. CASE t < s
  <2>1. From(t) = Between(t, s) \cup From(s) /\ Between(t, s) \cap From(s) = {}
    BY <1>4, RateConstants DEF From, Between
  <2>2. IsFiniteSet(Between(t, s)) /\ IsFiniteSet(From(s))
    BY <1>1, TimesAreFinite
  <2>3. \A x \in Between(t, s) \cup From(s) : f[x] \in Int
    BY <1>1 DEF Admitted
  <2>4. SumOver(f, From(t)) = SumOver(f, Between(t, s)) + SumOver(f, From(s))
    BY <2>1, <2>2, <2>3, SumOfUnion
  <2>5. SumOver(f, Between(t, s)) <= MaximumRequests
    BY <1>4
  <2>6. /\ SumOver(f, Within(t)) <= SumOver(f, From(t)) /\ SumOver(f, Within(t)) \in Nat
        /\ SumOver(f, From(t)) \in Nat /\ SumOver(f, Between(t, s)) \in Nat
        /\ SumOver(f, From(s)) \in Nat
    BY <1>1, AdmittedFewer
  <2> QED
    BY <2>4, <2>5, <2>6, <1>2
<1> QED
  BY <1>3, <1>4

\* Time passes: a window that is over has met what any span until then has.
LEMMA PacedLater ==
  ASSUME NEW f \in Admitted, NEW w \in Window, NEW at \in Nat, Paced(f, w, at)
  PROVE  Paced(f, w, at + 1)
<1>1. \A t \in Int : From(t) \in SUBSET (1 .. MaxNow) /\ SumOver(f, From(t)) \in Nat
  BY AdmittedFewer DEF From
<1>2. \A t, s \in Int : t <= s => SumOver(f, From(s)) <= SumOver(f, From(t))
  <2> SUFFICES ASSUME NEW t \in Int, NEW s \in Int, t <= s
               PROVE  SumOver(f, From(s)) <= SumOver(f, From(t))
    OBVIOUS
  <2>1. From(s) \in SUBSET From(t)
    BY RateConstants DEF From
  <2> QED
    BY <2>1, <1>1, AdmittedFewer
<1>3. w.resetAt \in Nat /\ WindowLength \in Nat /\ MaximumRequests \in Nat
  BY RateConstants DEF Window
<1>4. SumOver(f, From(at + 1)) = 0 /\ SumOver(f, From(at + 1 + 1)) = 0
  <2>1. SumOver(f, From(at + 1)) = 0
    BY DEF Paced
  <2> QED
    BY <2>1, <1>1, <1>2
<1>5. ASSUME w.resetAt <= at + 1, NEW t \in Int, t > at + 1 - WindowLength
      PROVE  SumOver(f, From(t)) <= MaximumRequests
  <2>1. CASE w.resetAt <= at
    BY <2>1, <1>3, <1>5 DEF Paced
  <2>2. CASE w.resetAt = at + 1
    <3>1. SumOver(f, From(w.resetAt - WindowLength)) <= MaximumRequests
      BY <2>2, <1>3 DEF Paced
    <3>2. SumOver(f, From(t)) <= SumOver(f, From(w.resetAt - WindowLength))
      BY <2>2, <1>2, <1>3, <1>5
    <3> QED
      BY <3>1, <3>2, <1>1, <1>3
  <2> QED
    BY <2>1, <2>2, <1>3, <1>5
<1>6. w.resetAt > at + 1 =>
        /\ w.resetAt - WindowLength <= at + 1
        /\ SumOver(f, From(w.resetAt - WindowLength)) <= w.count
        /\ SumOver(f, From(w.resetAt - WindowLength)) <= MaximumRequests
        /\ \A t \in Int : t > w.resetAt - 2 * WindowLength =>
             SumOver(f, Between(t, w.resetAt - WindowLength)) <= MaximumRequests
  BY <1>3 DEF Paced
<1>7. \A t \in Int : SumOver(f, Within(t)) <= 2 * MaximumRequests
  BY DEF Paced
<1> SUFFICES ASSUME NEW b, b = at + 1 PROVE Paced(f, w, b)
  OBVIOUS
<1>8. SumOver(f, From(b)) = 0 /\ SumOver(f, From(b + 1)) = 0
  BY <1>4
<1>9. ASSUME w.resetAt <= b, NEW t \in Int, t > b - WindowLength
      PROVE  SumOver(f, From(t)) <= MaximumRequests
  BY <1>3, <1>5, <1>9
<1>10. w.resetAt > b =>
         /\ w.resetAt - WindowLength <= b
         /\ SumOver(f, From(w.resetAt - WindowLength)) <= w.count
         /\ SumOver(f, From(w.resetAt - WindowLength)) <= MaximumRequests
         /\ \A t \in Int : t > w.resetAt - 2 * WindowLength =>
              SumOver(f, Between(t, w.resetAt - WindowLength)) <= MaximumRequests
  BY <1>6
<1> QED
  BY <1>7, <1>8, <1>9, <1>10 DEF Paced

\* A window that is over may be forgotten.
LEMMA PacedPurged ==
  ASSUME NEW f \in Admitted, NEW w \in Window, NEW at \in Nat, Paced(f, w, at), w.resetAt <= at
  PROVE  Paced(f, NoWindow, at)
<1>1. NoWindow.resetAt = 0 /\ 0 <= at /\ ~(0 > at)
  BY DEF NoWindow
<1> QED
  BY <1>1 DEF Paced

\* Where nothing was admitted there is no burst.
LEMMA PacedNothing ==
  ASSUME NEW at \in Nat
  PROVE  Paced([t \in 1 .. MaxNow |-> 0], NoWindow, at) /\ [t \in 1 .. MaxNow |-> 0] \in Admitted
<1> DEFINE f == [t \in 1 .. MaxNow |-> 0]
<1>1. \A x \in 1 .. MaxNow : f[x] = 0
  OBVIOUS
<1>2. f \in Admitted
  BY DEF Admitted
<1> HIDE DEF f
<1>3. ASSUME NEW S, S \subseteq 1 .. MaxNow PROVE SumOver(f, S) = 0
  <2>1. IsFiniteSet(S) /\ \A x \in S : f[x] = 0
    BY <1>1, <1>3, TimesAreFinite
  <2> QED
    BY <2>1, SumOfZeros
<1>4. \A t : SumOver(f, From(t)) = 0 /\ SumOver(f, Within(t)) = 0
  BY <1>3 DEF From, Within
<1>5. NoWindow.resetAt = 0 /\ 0 <= at /\ ~(0 > at) /\ MaximumRequests \in Nat
  BY RateConstants DEF NoWindow
<1>6. Paced(f, NoWindow, at)
  BY <1>4, <1>5 DEF Paced
<1> QED
  BY <1>2, <1>6 DEF f

\* The window of a caller after one more request: a new one, or the same.
Next(w, at) ==
  IF w.resetAt <= at THEN [count |-> 1, resetAt |-> at + WindowLength]
                     ELSE [w EXCEPT !.count = @ + 1]

LEMMA NextIsWindow ==
  ASSUME NEW w \in Window, NEW at \in Nat
  PROVE  /\ Next(w, at) \in Window /\ Next(w, at).resetAt > at
         /\ w.resetAt <= at => Next(w, at).count = 1 /\ Next(w, at).resetAt = at + WindowLength
         /\ w.resetAt > at => Next(w, at).count = w.count + 1 /\ Next(w, at).resetAt = w.resetAt
  BY RateConstants DEF Next, Window

\* What a window has admitted before its next request, and any span that ends with it.
LEMMA PacedSoFar ==
  ASSUME NEW f \in Admitted, NEW w \in Window, NEW at \in Nat, Paced(f, w, at),
         NEW s, s = Next(w, at).resetAt - WindowLength
  PROVE  /\ s \in Int /\ s <= at
         /\ SumOver(f, From(s)) \in Nat
         /\ SumOver(f, From(s)) + 1 <= Next(w, at).count
         /\ SumOver(f, From(s)) <= MaximumRequests
         /\ \A t \in Int : t > s - WindowLength => SumOver(f, Between(t, s)) <= MaximumRequests
<1>1. w.resetAt \in Nat /\ w.count \in Nat /\ WindowLength \in Nat /\ MaximumRequests \in Nat
  BY RateConstants DEF Window
<1>2. \A t \in Int : /\ SumOver(f, From(t)) \in Nat /\ SumOver(f, Between(t, s)) \in Nat
                     /\ SumOver(f, Between(t, s)) <= SumOver(f, From(t))
  <2> TAKE t \in Int
  <2>1. From(t) \in SUBSET (1 .. MaxNow) /\ Between(t, s) \in SUBSET From(t)
    BY DEF From, Between
  <2> QED
    BY <2>1, AdmittedFewer
<1>3. CASE w.resetAt <= at
  <2>1. s = at /\ Next(w, at).count = 1
    <3>1. Next(w, at).count = 1 /\ Next(w, at).resetAt = at + WindowLength
      BY <1>3, NextIsWindow
    <3> QED
      BY <3>1, <1>1
  <2>2. /\ SumOver(f, From(at)) = 0
        /\ \A t \in Int : t > at - WindowLength => SumOver(f, From(t)) <= MaximumRequests
    BY <1>3 DEF Paced
  <2> HIDE DEF Paced
  <2>3. \A t \in Int : t > s - WindowLength => SumOver(f, Between(t, s)) <= MaximumRequests
    BY <2>1, <2>2, <1>1, <1>2
  <2> QED
    BY <2>1, <2>2, <2>3, <1>1
<1>4. CASE w.resetAt > at
  <2>1. s = w.resetAt - WindowLength /\ Next(w, at).count = w.count + 1
    BY <1>1, <1>4, NextIsWindow
  <2>2. /\ s <= at
        /\ SumOver(f, From(s)) <= w.count /\ SumOver(f, From(s)) <= MaximumRequests
        /\ \A t \in Int : t > w.resetAt - 2 * WindowLength =>
             SumOver(f, Between(t, s)) <= MaximumRequests
    BY <2>1, <1>4 DEF Paced
  <2>3. s \in Int /\ s - WindowLength = w.resetAt - 2 * WindowLength
    BY <2>1, <1>1
  <2> QED
    BY <2>1, <2>2, <2>3, <1>1, <1>2
<1> QED
  BY <1>1, <1>3, <1>4

\* A request that is refused is counted only.
LEMMA PacedRefused ==
  ASSUME NEW f \in Admitted, NEW w \in Window, NEW at \in Nat, Paced(f, w, at)
  PROVE  Paced(f, Next(w, at), at)
<1> DEFINE v == Next(w, at)
<1> SUFFICES ASSUME NEW s, s = v.resetAt - WindowLength PROVE Paced(f, v, at)
  OBVIOUS
<1>1. /\ s \in Int /\ s <= at
      /\ SumOver(f, From(s)) \in Nat
      /\ SumOver(f, From(s)) + 1 <= v.count
      /\ SumOver(f, From(s)) <= MaximumRequests
      /\ \A t \in Int : t > s - WindowLength => SumOver(f, Between(t, s)) <= MaximumRequests
  BY PacedSoFar
<1>2. v.resetAt > at /\ v.resetAt \in Nat /\ v.count \in Nat /\ WindowLength \in Nat
  BY NextIsWindow, RateConstants DEF Window
<1>3. SumOver(f, From(at + 1)) = 0 /\ \A t \in Int : SumOver(f, Within(t)) <= 2 * MaximumRequests
  BY DEF Paced
<1> HIDE DEF v
<1>4. v.resetAt - 2 * WindowLength = s - WindowLength /\ ~(v.resetAt <= at)
  BY <1>1, <1>2
<1>5. SumOver(f, From(s)) <= v.count
  BY <1>1, <1>2
<1> QED
  BY <1>1, <1>2, <1>3, <1>4, <1>5 DEF Paced

\* A request that is admitted is one of those its window may.
LEMMA PacedAdmitted ==
  ASSUME NEW f \in Admitted, NEW w \in Window, NEW at \in 1 .. MaxNow, Paced(f, w, at),
         Next(w, at).count <= MaximumRequests
  PROVE  Paced([f EXCEPT ![at] = @ + 1], Next(w, at), at)
<1> DEFINE v == Next(w, at)
           g == [f EXCEPT ![at] = @ + 1]
<1> SUFFICES ASSUME NEW s, s = v.resetAt - WindowLength PROVE Paced(g, v, at)
  OBVIOUS
<1>0. at \in Nat /\ at \in Int
  BY RateConstants
<1>1. /\ s \in Int /\ s <= at
      /\ SumOver(f, From(s)) \in Nat
      /\ SumOver(f, From(s)) + 1 <= v.count
      /\ SumOver(f, From(s)) <= MaximumRequests
      /\ \A t \in Int : t > s - WindowLength => SumOver(f, Between(t, s)) <= MaximumRequests
  BY <1>0, PacedSoFar
<1>2. /\ v.resetAt > at /\ v.resetAt \in Nat /\ v.count \in Nat /\ WindowLength \in Nat
      /\ MaximumRequests \in Nat /\ v.count <= MaximumRequests
  BY <1>0, NextIsWindow, RateConstants DEF Window
<1>3. SumOver(f, From(at + 1)) = 0 /\ \A t \in Int : SumOver(f, Within(t)) <= 2 * MaximumRequests
  BY DEF Paced
<1> HIDE DEF v, g
<1>4. g \in Admitted
  BY AdmittedOneMore DEF g
<1>5. ASSUME NEW S, S \subseteq 1 .. MaxNow
      PROVE  /\ at \in S => SumOver(g, S) = SumOver(f, S) + 1
             /\ at \notin S => SumOver(g, S) = SumOver(f, S)
  BY <1>5, AdmittedOneMore DEF g
<1>6. SumOver(g, From(at + 1)) = 0
  <2>1. From(at + 1) \subseteq 1 .. MaxNow /\ at \notin From(at + 1)
    BY <1>0 DEF From
  <2> QED
    BY <2>1, <1>3, <1>5
<1>7. SumOver(g, From(s)) = SumOver(f, From(s)) + 1
  <2>1. From(s) \subseteq 1 .. MaxNow /\ at \in From(s)
    BY <1>1 DEF From
  <2> QED
    BY <2>1, <1>5
<1>8. SumOver(g, From(s)) <= v.count /\ SumOver(g, From(s)) <= MaximumRequests
  BY <1>1, <1>2, <1>7
<1>9. \A t \in Int : t > s - WindowLength => SumOver(g, Between(t, s)) <= MaximumRequests
  <2> SUFFICES ASSUME NEW t \in Int, t > s - WindowLength
               PROVE  SumOver(g, Between(t, s)) <= MaximumRequests
    OBVIOUS
  <2>1. Between(t, s) \subseteq 1 .. MaxNow /\ at \notin Between(t, s)
    BY <1>0, <1>1 DEF Between
  <2>2. SumOver(g, Between(t, s)) = SumOver(f, Between(t, s))
    BY <2>1, <1>5
  <2> QED
    BY <2>2, <1>1
<1>10. ASSUME NEW t \in Int PROVE SumOver(g, Within(t)) <= 2 * MaximumRequests
  <2>1. CASE at \in Within(t)
    <3>1. t > s - WindowLength
      BY <2>1, <1>0, <1>1, <1>2 DEF Within
    <3> QED
      BY <3>1, <1>1, <1>4, <1>8, <1>9, SpanMeetsTwo
  <2>2. CASE at \notin Within(t)
    <3>1. Within(t) \subseteq 1 .. MaxNow
      BY DEF Within
    <3>2. SumOver(g, Within(t)) = SumOver(f, Within(t))
      BY <3>1, <2>2, <1>5
    <3> QED
      BY <3>2, <1>3
  <2> QED
    BY <2>1, <2>2
<1>11. v.resetAt - 2 * WindowLength = s - WindowLength /\ ~(v.resetAt <= at)
  BY <1>0, <1>1, <1>2
<1> QED
  BY <1>1, <1>2, <1>6, <1>8, <1>9, <1>10, <1>11 DEF Paced

LEMMA RateStarts == RateLimitInit => RateInv
<1> SUFFICES ASSUME RateLimitInit PROVE RateInv
  OBVIOUS
<1>1. now = 1 /\ now \in 1 .. MaxNow /\ 1 \in Nat
  BY RateLimitAssumption DEF RateLimitInit
<1>2. NoWindow \in Window /\ windows = [c \in Callers |-> NoWindow]
  BY DEF RateLimitInit, NoWindow, Window
<1>3. Paced([t \in 1 .. MaxNow |-> 0], NoWindow, 1) /\ [t \in 1 .. MaxNow |-> 0] \in Admitted
  BY PacedNothing
<1>4. \A c \in Callers : admitted[c] = [t \in 1 .. MaxNow |-> 0]
  BY DEF RateLimitInit
<1>5. admitted \in [Callers -> Admitted]
  BY <1>3 DEF RateLimitInit
<1>6. \A c \in Callers : Paced(admitted[c], windows[c], now)
  BY <1>1, <1>2, <1>3, <1>4
<1> QED
  BY <1>1, <1>2, <1>5, <1>6 DEF RateInv

\* The windows that are purged are those that are over.
LEMMA PurgedOnlyForgets ==
  ASSUME NEW entries \in [Callers -> Window], NEW c \in Callers
  PROVE  /\ Purged(entries) \in [Callers -> Window]
         /\ \/ Purged(entries)[c] = entries[c]
            \/ Purged(entries)[c] = NoWindow /\ entries[c].resetAt <= now
<1>1. NoWindow \in Window
  BY DEF NoWindow, Window
<1> QED
  BY <1>1 DEF Purged

LEMMA InterceptKeeps ==
  ASSUME RateInv, NEW c \in Callers, Intercept(c)
  PROVE  RateInv'
<1> DEFINE window == Next(windows[c], now)
           entries == [windows EXCEPT ![c] = window]
<1>1. now \in 1 .. MaxNow /\ now \in Nat /\ now' = now
  BY RateConstants DEF RateInv, Intercept
<1>2. windows \in [Callers -> Window] /\ admitted \in [Callers -> Admitted]
  BY DEF RateInv
<1>3. \A d \in Callers : Paced(admitted[d], windows[d], now)
  BY DEF RateInv
<1>4. WindowOf(c) = window
  BY DEF WindowOf, Next
<1>5. window \in Window /\ window.resetAt > now
  BY <1>1, <1>2, NextIsWindow
<1>6. entries \in [Callers -> Window] /\ entries[c] = window
  BY <1>2, <1>5
<1>7. \A d \in Callers : d # c => entries[d] = windows[d]
  BY <1>2
<1>8. \/ windows' = entries /\ admitted' = admitted
      \/ /\ window.count <= MaximumRequests
         /\ windows' = Purged(entries)
         /\ admitted' = [admitted EXCEPT ![c][now] = @ + 1]
  <2>1. /\ window.count > MaximumRequests => windows' = entries /\ admitted' = admitted
        /\ ~(window.count > MaximumRequests) =>
             /\ windows' = Purged(entries)
             /\ admitted' = [admitted EXCEPT ![c][now] = @ + 1]
    BY <1>4 DEF Intercept
  <2>2. window.count \in Nat /\ MaximumRequests \in Nat
    BY <1>5, RateConstants DEF Window
  <2> QED
    BY <2>1, <2>2
<1> HIDE DEF entries
<1>9. CASE windows' = entries /\ admitted' = admitted
  <2>1. Paced(admitted[c], window, now)
    BY <1>1, <1>2, <1>3, PacedRefused
  <2> HIDE DEF window
  <2>2. \A d \in Callers : Paced(admitted[d], entries[d], now)
    BY <2>1, <1>3, <1>6, <1>7
  <2> QED
    BY <2>2, <1>1, <1>2, <1>6, <1>9 DEF RateInv
<1>10. CASE /\ window.count <= MaximumRequests
            /\ windows' = Purged(entries)
            /\ admitted' = [admitted EXCEPT ![c][now] = @ + 1]
  <2>1. /\ [admitted[c] EXCEPT ![now] = @ + 1] \in Admitted
        /\ Paced([admitted[c] EXCEPT ![now] = @ + 1], window, now)
    BY <1>1, <1>2, <1>3, <1>10, PacedAdmitted, AdmittedOneMore
  <2>2. /\ admitted'[c] = [admitted[c] EXCEPT ![now] = @ + 1]
        /\ \A d \in Callers : d # c => admitted'[d] = admitted[d]
    BY <1>2, <1>10
  <2> HIDE DEF window
  <2>3. admitted' \in [Callers -> Admitted]
    <3>1. admitted' = [d \in Callers |-> admitted'[d]]
      BY <1>2, <1>10
    <3>2. \A d \in Callers : admitted'[d] \in Admitted
      BY <2>1, <2>2, <1>2
    <3> QED
      BY <3>1, <3>2
  <2>4. \A d \in Callers : Paced(admitted'[d], entries[d], now)
    BY <2>1, <2>2, <1>3, <1>6, <1>7
  <2>5. windows' \in [Callers -> Window]
    BY <1>6, <1>10, PurgedOnlyForgets
  <2>6. \A d \in Callers : Paced(admitted'[d], windows'[d], now)
    <3> TAKE d \in Callers
    <3>1. \/ windows'[d] = entries[d]
          \/ windows'[d] = NoWindow /\ entries[d].resetAt <= now
      BY <1>6, <1>10, PurgedOnlyForgets
    <3>2. admitted'[d] \in Admitted /\ entries[d] \in Window
      BY <2>3, <1>6
    <3> QED
      BY <3>1, <3>2, <2>4, <1>1, PacedPurged
  <2> QED
    BY <2>3, <2>5, <2>6, <1>1 DEF RateInv
<1> QED
  BY <1>8, <1>9, <1>10

LEMMA RateKeeps ==
  ASSUME RateInv, [RateLimitNext]_rateVars
  PROVE  RateInv'
<1>1. ASSUME NEW c \in Callers, Intercept(c) PROVE RateInv'
  BY <1>1, InterceptKeeps
<1>2. CASE Later
  <2>1. /\ now \in 1 .. MaxNow /\ now \in Nat /\ now' = now + 1 /\ now' \in 1 .. MaxNow
        /\ windows' = windows /\ admitted' = admitted
    BY <1>2, RateConstants DEF Later, RateInv
  <2>2. \A c \in Callers : Paced(admitted[c], windows[c], now + 1)
    BY <2>1, PacedLater DEF RateInv
  <2> QED
    BY <2>1, <2>2 DEF RateInv
<1>3. CASE RestartApi
  <2>1. now \in 1 .. MaxNow /\ now \in Nat /\ now' = now
    BY <1>3, RateConstants DEF RestartApi, RateInv
  <2>2. NoWindow \in Window /\ windows' = [c \in Callers |-> NoWindow]
    BY <1>3 DEF RestartApi, NoWindow, Window
  <2>3. Paced([t \in 1 .. MaxNow |-> 0], NoWindow, now) /\ [t \in 1 .. MaxNow |-> 0] \in Admitted
    BY <2>1, PacedNothing
  <2>4. admitted' = [c \in Callers |-> [t \in 1 .. MaxNow |-> 0]]
    BY <1>3 DEF RestartApi
  <2>5. \A c \in Callers : Paced(admitted'[c], windows'[c], now')
    BY <2>1, <2>2, <2>3, <2>4
  <2> QED
    BY <2>1, <2>2, <2>3, <2>4, <2>5 DEF RateInv
<1>4. CASE UNCHANGED rateVars
  BY <1>4 DEF RateInv, rateVars
<1> QED
  BY <1>1, <1>2, <1>3, <1>4 DEF RateLimitNext

LEMMA PacedAll == RateInv => BurstsAreBounded
<1> SUFFICES ASSUME RateInv, NEW c \in Callers, NEW t \in 1 .. MaxNow
             PROVE  AdmittedFrom(admitted[c], t) <= 2 * MaximumRequests
  BY DEF BurstsAreBounded
<1>1. t \in Int /\ Paced(admitted[c], windows[c], now)
  BY RateConstants DEF RateInv
<1>2. SumOver(admitted[c], Within(t)) <= 2 * MaximumRequests
  BY <1>1 DEF Paced
<1> QED
  BY <1>2, AdmittedIsSum

-----------------------------------------------------------------------------
(* Operations: what each area keeps, a behaviour keeps.                    *)

\* The providers are chosen, called and forgotten by whoever uses them.
LEMMA ProvidersMove ==
  ASSUME [OperationsNext]_operationsVars
  PROVE  ChoicesMove /\ BreakersMove
<1>1. CASE UNCHANGED providerVars
  BY <1>1 DEF providerVars, ChoicesMove, BreakersMove
<1>2. ASSUME NEW categories, ProvidersNext(categories) PROVE ChoicesMove /\ BreakersMove
  <2>1. PICK i \in ProviderIds :
          \/ \E c \in Companies : TestConnection(c, i) \/ Activate(c, i) \/ Deactivate(c, i)
          \/ Healthy(i)
    BY <1>2 DEF ProvidersNext
  <2>2. UNCHANGED breaker
    BY <2>1 DEF TestConnection, Activate, Deactivate, Healthy
  <2>3. ChoicesMove
    BY <2>1 DEF TestConnection, Healthy, ChoicesMove
  <2> QED
    BY <2>2, <2>3 DEF BreakersMove
<1>3. CASE \E i \in ProviderIds : Cool(i)
  BY <1>3 DEF Cool, ChoicesMove, BreakersMove
<1>4. CASE OcrNext
  <2>1. UNCHANGED active \/ active' = NoChoices
    BY <1>4 DEF OcrNext, Repeat, Extract, Confirm, Extracted, NotExtracted, Restart, Forget,
                providerVars
  <2>2. \/ UNCHANGED breaker \/ breaker' = AllClosed
        \/ \E i : Calls(i) \/ CallSucceeds(i) \/ CallFails(i)
    BY <1>4 DEF OcrNext, Repeat, Extract, Confirm, Extracted, NotExtracted, Restart, Forget,
                providerVars
  <2> QED
    BY <2>1, <2>2 DEF ChoicesMove, BreakersMove
<1>5. CASE AssistantNext
  <2>1. UNCHANGED active \/ active' = NoChoices
    BY <1>5 DEF AssistantNext, ConfigurePolicy, Ask, AskWithTool, AfterTool, ToolFails, Answered,
                NotAnswered, Midnight, RestartAssistant, Forget, providerVars
  <2>2. \/ UNCHANGED breaker \/ breaker' = AllClosed
        \/ \E i : Calls(i) \/ CallSucceeds(i) \/ CallFails(i)
    BY <1>5 DEF AssistantNext, ConfigurePolicy, Ask, AskWithTool, AfterTool, ToolFails, Answered,
                NotAnswered, Midnight, RestartAssistant, Forget, providerVars, CallProvider
  <2> QED
    BY <2>1, <2>2 DEF ChoicesMove, BreakersMove
<1>6. \/ UNCHANGED providerVars \/ OcrNext \/ AssistantNext
      \/ ProvidersNext({"OCR"}) \/ ProvidersNext({"AI"})
      \/ \E i \in ProviderIds : Cool(i)
  BY DEF OperationsNext, operationsVars, businessVars
<1> QED
  BY <1>1, <1>2, <1>3, <1>4, <1>5, <1>6

HistoriesInv ==
  CrmInv /\ LifecyclesInv /\ AssetsInv /\ RecordsInv /\ CompanyInv /\ DemoInv

\* Whatever the users of any number of records, pages and companies do and in whatever
\* order their transactions commit: an opportunity is where its stage events lead, a closed
\* record was led to its end, an asset is where its last assignment left it, what is
\* created or completed has one audit and a parent, no form overwrites what its page was
\* not shown, and no row of a demonstration stays behind without the one it belongs to.
THEOREM HistoriesStayUnbroken == OperationsSpec => []HistoriesAreUnbroken
<1>1. OperationsInit => HistoriesInv
  BY CrmStarts, LifecyclesStart, AssetsStart, RecordsStart, CompanyStarts, DemoStarts
  DEF OperationsInit, HistoriesInv
<1>2. HistoriesInv /\ [OperationsNext]_operationsVars => HistoriesInv'
  <2> SUFFICES ASSUME HistoriesInv, [OperationsNext]_operationsVars PROVE HistoriesInv'
    OBVIOUS
  <2>1. /\ [CrmNext]_crmVars /\ [LifecyclesNext]_record /\ [AssetsNext]_assetsVars
        /\ [RecordsNext]_recordsVars /\ [CompanyNext]_companyVars /\ [DemoNext]_demoVars
    BY AreaSteps
  <2> QED
    BY <2>1, CrmKeeps, LifecyclesKeep, AssetsKeep, RecordsKeep, CompanyKeeps, DemoKeeps
    DEF HistoriesInv
<1>3. HistoriesInv => HistoriesAreUnbroken
  BY EarnedBySteps, AuditedAll, ToldAll
  DEF HistoriesInv, HistoriesAreUnbroken, CrmInv, AssetsInv, DemoInv
<1> QED
  BY <1>1, <1>2, <1>3, PTL DEF OperationsSpec

\* While a process runs, whoever asks for a reading with a key is answered with one of the
\* document asked for, made in its company by a provider of that company, whatever was
\* asked with the same key meanwhile and whatever providers were chosen.
THEOREM AnswersStayOfTheirDocument == OperationsSpec => []AnswersAreOfTheirDocument
<1>1. OperationsInit => OcrInv /\ ProvidersInv
  BY OcrStarts, ProvidersStart DEF OperationsInit
<1>2. OcrInv /\ ProvidersInv /\ [OperationsNext]_operationsVars => OcrInv' /\ ProvidersInv'
  <2> SUFFICES ASSUME OcrInv, ProvidersInv, [OperationsNext]_operationsVars
               PROVE  OcrInv' /\ ProvidersInv'
    OBVIOUS
  <2>1. OcrNext \/ UNCHANGED ocrVars
    BY AreaSteps
  <2> QED
    BY <2>1, OcrKeeps, ProvidersKeep, ProvidersMove
<1> QED
  BY <1>1, <1>2, ReadingsAnswer, PTL DEF OperationsSpec

\* With any number of askers, questions, callers and companies: the questions answered in
\* a day exceed the budget by less than can be worked on at once, no provider is sent what
\* is always prohibited, a breaker that counted its failures is not closed, and no caller
\* has more requests admitted within the length of a window than two windows allow.
THEOREM UseStaysBounded == OperationsSpec => []UseIsBounded
<1>1. OperationsInit => AssistantInv /\ BreakersInv /\ RateInv
  <2>1. ProvidersInit => breaker = AllClosed
    BY DEF ProvidersInit
  <2> QED
    BY <2>1, AssistantStarts, BreakersStart, RateStarts DEF OperationsInit
<1>2. AssistantInv /\ BreakersInv /\ RateInv /\ [OperationsNext]_operationsVars
        => AssistantInv' /\ BreakersInv' /\ RateInv'
  <2> SUFFICES ASSUME AssistantInv, BreakersInv, RateInv, [OperationsNext]_operationsVars
               PROVE  AssistantInv' /\ BreakersInv' /\ RateInv'
    OBVIOUS
  <2>1. (AssistantNext \/ UNCHANGED assistantVars) /\ [RateLimitNext]_rateVars
    BY AreaSteps
  <2> QED
    BY <2>1, AssistantKeeps, BreakersKeep, ProvidersMove, RateKeeps
<1>3. AssistantInv /\ BreakersInv /\ RateInv => UseIsBounded
  BY BudgetAndSources, PacedAll DEF UseIsBounded, AssistantIsBounded, BreakersInv
<1> QED
  BY <1>1, <1>2, <1>3, PTL DEF OperationsSpec
=============================================================================
