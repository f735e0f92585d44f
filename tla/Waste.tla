------------------------------- MODULE Waste -------------------------------
(***************************************************************************)
(* Waste records (apps/api/src/waste.service.ts, packages/domain/src/      *)
(* waste-management.ts) and the pages that work on them (apps/web/src/     *)
(* features/waste/pages/WasteWorkspacePage.tsx).  A record goes through    *)
(* its phases one at a time.  A page sends what its button says of the     *)
(* record it last saw, with a new idempotency key at every press; the      *)
(* answer may be lost after the transaction committed.                     *)
(***************************************************************************)
EXTENDS Integers, Sequences

CONSTANTS
  Pages,          \* open pages, each with its user
  Requests,       \* bound: requests that the API works on at once
  WasteRecords,
  Closure,        \* the last phase, DOCUMENTARY_CLOSURE; 9 in the code
  Permissions,    \* what the user of a page may do
  None,           \* no record, no request
  MaxExceptions   \* bound: exceptions of a record

ASSUME WasteAssumption ==
  /\ Closure \in Nat \ {0, 1}
  /\ Permissions \in [Pages -> SUBSET {"CREATE", "ADVANCE", "EXCEPTION"}]
  /\ None \notin WasteRecords \cup Requests

VARIABLES
  rows,     \* each record: phase, version, its events and the number of its exceptions
  page,     \* each page: what it shows of each record, the record open in it, the forms
            \* open in it, and the request whose answer it waits for
  requests  \* how far the API is with each request
            \* bound: a page waits for one answer at a time; two pages stand for two of its
            \* buttons as well

wasteVars == <<rows, page, requests>>

NoRow == [phase |-> 0, version |-> 0, events |-> <<>>, exceptions |-> 0]
Unseen == [phase |-> 0, version |-> 0]
Free == [step |-> "free"]

WasteInit ==
  /\ rows = [r \in WasteRecords |-> NoRow]
  /\ page = [p \in Pages |->
       [seen |-> [r \in WasteRecords |-> Unseen], open |-> None, forms |-> {}, waits |-> None]]
  /\ requests = [q \in Requests |-> Free]

Made == {r \in WasteRecords : rows[r] # NoRow}

-----------------------------------------------------------------------------
\* The page.

Fetched(r) == [phase |-> rows[r].phase, version |-> rows[r].version]

\* records, overview and detail are fetched again, at any time.
Fetch(p, r) ==
  /\ r \in Made
  /\ page' = [page EXCEPT ![p].seen[r] = Fetched(r)]
  /\ UNCHANGED <<rows, requests>>

\* A record of a list, or of the exceptions that require attention; the form of an
\* exception stays as it is.
OpenRecord(p, r) ==
  /\ page[p].open # r /\ page[p].seen[r] # Unseen
  /\ page' = [page EXCEPT ![p].open = r]
  /\ UNCHANGED <<rows, requests>>

CloseRecord(p) ==
  /\ page[p].open # None
  /\ page' = [page EXCEPT ![p].open = None]
  /\ UNCHANGED <<rows, requests>>

\* The form of a record, or of an exception of the open one.
Toggle(p, form) ==
  /\ form \in Permissions[p]
  /\ form = "EXCEPTION" => page[p].open # None
  /\ page' = [page EXCEPT ![p].forms = IF form \in @ THEN @ \ {form} ELSE @ \cup {form}]
  /\ UNCHANGED <<rows, requests>>

Waited(q) == \E p \in Pages : page[p].waits = q

Submit(p, request) ==
  /\ page[p].waits = None
  /\ \E q \in Requests :
       /\ requests[q] = Free
       /\ requests' = [requests EXCEPT ![q] = request]
       /\ page' = [page EXCEPT ![p].waits = q]
  /\ UNCHANGED rows

SubmitRecord(p) ==
  /\ "CREATE" \in page[p].forms
  /\ Submit(p, [step |-> "sent", op |-> "CREATE"])

SubmitException(p) ==
  /\ "EXCEPTION" \in page[p].forms /\ page[p].open # None
  /\ Submit(p, [step |-> "sent", op |-> "EXCEPTION", record |-> page[p].open])

\* The button names the phase after the one the page shows, never the closure.
SubmitAdvance(p) ==
  /\ "ADVANCE" \in Permissions[p] /\ page[p].open # None
  /\ LET shown == page[p].seen[page[p].open]
     IN  /\ shown.phase + 1 < Closure
         /\ Submit(p, [step |-> "sent", op |-> "ADVANCE", record |-> page[p].open,
                       target |-> shown.phase + 1, version |-> shown.version])

\* The answer closes the form, opens a new record and has everything fetched again.
Answer(p) ==
  LET q == page[p].waits IN
  /\ q # None /\ requests[q].step = "committed"
  /\ page' = [page EXCEPT
       ![p].waits = None,
       ![p].forms = @ \ {requests[q].op},
       ![p].open = IF requests[q].op = "CREATE" THEN requests[q].record ELSE @,
       ![p].seen = [r \in WasteRecords |-> Fetched(r)]]
  /\ requests' = [requests EXCEPT ![q] = Free]
  /\ UNCHANGED rows

\* The answer is lost, or the connection before it: the forms stay as they are, and the
\* API goes on with what it has not finished.
Lose(p) ==
  LET q == page[p].waits IN
  /\ q # None
  /\ page' = [page EXCEPT ![p].waits = None]
  /\ requests' = [requests EXCEPT ![q] = IF @.step = "committed" THEN Free ELSE @]
  /\ UNCHANGED rows

-----------------------------------------------------------------------------
\* The API.  A record under a row lock makes any other request for it wait.

Asked(q, op) == requests[q].step = "sent" /\ requests[q].op = op
Locked(r) == \E q \in Requests : requests[q].step = "locked" /\ requests[q].record = r

Commit(q, record) ==
  /\ requests' = [requests EXCEPT ![q] =
       IF Waited(q) THEN [step |-> "committed", op |-> @.op, record |-> record] ELSE Free]
  /\ UNCHANGED page

\* A request is refused, because the record changed since the page saw it for instance,
\* or rolled back; the page that waits is told so, and shows what it showed.
RollBack(q) ==
  /\ requests[q].step \in {"sent", "locked"}
  /\ requests' = [requests EXCEPT ![q] = Free]
  /\ page' = [p \in Pages |-> IF page[p].waits = q THEN [page[p] EXCEPT !.waits = None] ELSE page[p]]
  /\ UNCHANGED rows

Create(q) ==
  /\ Asked(q, "CREATE")
  /\ \E r \in WasteRecords \ Made :
       /\ rows' = [rows EXCEPT ![r] =
            [phase |-> 1, version |-> 1, exceptions |-> 0,
             events |-> <<[from |-> 0, to |-> 1, shown |-> 0]>>]]
       /\ Commit(q, r)

\* transitionWasteLifecycle.  That the status is not CLOSED is checked before it; no code
\* writes that status, and after the closure there is no phase to go to.
MayAdvance(row, request) == row.version = request.version /\ row.phase + 1 = request.target

\* Mutant: select without for update.
ReadUnlocked(q) ==
  /\ Asked(q, "ADVANCE")
  /\ MayAdvance(rows[requests[q].record], requests[q])
  /\ requests' = [requests EXCEPT ![q].step = "locked"]
  /\ UNCHANGED <<rows, page>>

\* select ... for update
ReadForUpdate(q) ==
  /\ Asked(q, "ADVANCE")
  /\ ~Locked(requests[q].record)
  /\ MayAdvance(rows[requests[q].record], requests[q])
  /\ requests' = [requests EXCEPT ![q].step = "locked"]
  /\ UNCHANGED <<rows, page>>

\* The record, its event and its audit, and the commit.  The phase it came from is the
\* one that was read, one before the target.
Advance(q) ==
  /\ requests[q].step = "locked"
  /\ LET request == requests[q]
     IN  rows' = [rows EXCEPT
           ![request.record].phase = request.target,
           ![request.record].version = @ + 1,
           ![request.record].events = Append(@,
              [from |-> request.target - 1, to |-> request.target, shown |-> request.version])]
  /\ Commit(q, requests[q].record)

CreateException(q) ==
  /\ Asked(q, "EXCEPTION")
  /\ LET r == requests[q].record
     IN  /\ ~Locked(r)
         /\ rows[r].exceptions < MaxExceptions
         /\ rows' = [rows EXCEPT ![r].exceptions = @ + 1]
         /\ Commit(q, r)

WasteNext ==
  \/ \E p \in Pages :
       \/ \E r \in WasteRecords : Fetch(p, r) \/ OpenRecord(p, r)
       \/ CloseRecord(p)
       \/ \E form \in {"CREATE", "EXCEPTION"} : Toggle(p, form)
       \/ SubmitRecord(p) \/ SubmitException(p) \/ SubmitAdvance(p)
       \/ Answer(p) \/ Lose(p)
  \/ \E q \in Requests :
       \/ RollBack(q)
       \/ Create(q) \/ CreateException(q)
       \/ ReadForUpdate(q) \/ Advance(q)

WasteSpec == WasteInit /\ [][WasteNext]_wasteVars

-----------------------------------------------------------------------------
\* The events of a record are its history: from its generation each starts in the phase
\* the one before it ended in, the record is in the phase of the last, there are as many
\* as its version says, and each answers a page that had seen all of those before it,
\* whatever pages, lost answers and repeated presses there were.
LifecycleIsItsHistory ==
  \A r \in Made :
    LET events == rows[r].events
    IN  /\ Len(events) = rows[r].version
        /\ rows[r].phase = events[Len(events)].to
        /\ \A n \in DOMAIN events :
             /\ events[n].to = events[n].from + 1
             /\ events[n].from = IF n = 1 THEN 0 ELSE events[n - 1].to
             /\ events[n].shown = n - 1
=============================================================================
