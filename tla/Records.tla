------------------------------ MODULE Records ------------------------------
(***************************************************************************)
(* The records of CRM, projects, people, safety and assets in the API      *)
(* (apps/api/src/phase3/operations/phase3-operations.service.ts, its       *)
(* controllers).  Every request is one transaction: it writes its row and  *)
(* its audit, and commits or does not.  A unique key or a row that another *)
(* transaction wrote makes it wait, and it goes by what it finds then.     *)
(***************************************************************************)
EXTENDS Integers, Sequences, FiniteSets

CONSTANTS
  Clients,      \* open connections, each working on a request at a time
  CompanyAt,    \* the company of the session of each
  Kinds,
  ParentOf,     \* the kind a record of a kind belongs to, or NoKind
  NoKind,
  Coded,        \* kinds whose code is unique in their company, or in their project
  Checked,      \* kinds whose parent the service looks for in the company
  Codes,
  Evidence,     \* the company of each document
  MaxRecords    \* bound

ASSUME RecordsAssumption ==
  /\ \A k \in Kinds : ParentOf[k] \in Kinds \cup {NoKind}
  /\ Coded \subseteq Kinds /\ Checked \subseteq {k \in Kinds : ParentOf[k] # NoKind}
  /\ MaxRecords \in Nat

VARIABLES
  table,   \* the records, in the order they were committed
  audit,   \* the audit, in the same order: what was done to which record, with what
  inWork   \* what the transaction of each client wrote

recordsVars == <<table, audit, inWork>>

Idle == [op |-> "none"]
NoParent == 0

RecordsInit ==
  /\ table = <<>>
  /\ audit = <<>>
  /\ inWork = [c \in Clients |-> Idle]

\* The statuses a record may be created with: a work order is a draft, or told to be
\* scheduled or in progress, and an inspection may be told to be over.  The others have
\* one.  Only the status of a work order is ever changed.
InitialStatuses(kind) ==
  CASE kind = "workOrder"  -> {"draft", "scheduled", "in_progress"}
    [] kind = "inspection" -> {"planned", "in_progress", "completed", "cancelled"}
    [] OTHER               -> {"default"}

SameKey(row, other) ==
  /\ row.kind \in Coded
  /\ row.kind = other.kind /\ row.code = other.code /\ row.company = other.company
  /\ row.kind = "task" => row.parent = other.parent

\* requireRecord for tasks and findings.  The reference of an opportunity to its stage
\* or of a work order to its asset is to any company's.
MayBelong(kind, parent, company) ==
  IF ParentOf[kind] = NoKind
  THEN parent = NoParent
  ELSE /\ parent \in DOMAIN table
       /\ table[parent].kind = ParentOf[kind]
       /\ kind \in Checked => table[parent].company = company

\* createFeature, createProfile, createEntity, addProjectTask, addInspectionFinding
CreateRecord(c, kind, code, parent, status0) ==
  LET row == [kind |-> kind, company |-> CompanyAt[c], code |-> code, parent |-> parent,
              status |-> status0, version |-> 1]
  IN  /\ inWork[c] = Idle
      /\ status0 \in InitialStatuses(kind)
      /\ MayBelong(kind, parent, CompanyAt[c])
      /\ \A n \in DOMAIN table : ~SameKey(row, table[n])
      /\ \A d \in Clients : inWork[d].op = "create" => ~SameKey(row, inWork[d].row)
      /\ inWork' = [inWork EXCEPT ![c] = [op |-> "create", row |-> row]]
      /\ UNCHANGED <<table, audit>>

\* Mutant: the status is looked at before the row is locked.
UpdatesUnlocked(c, n) == inWork[c] = Idle

\* update ... where
Updates(c, n) ==
  /\ inWork[c] = Idle
  /\ \A d \in Clients : inWork[d].op = "complete" => inWork[d].of # n

CompleteWorkOrder(c, n, document) ==
  /\ Updates(c, n)
  /\ table[n].kind = "workOrder" /\ table[n].company = CompanyAt[c]
  /\ table[n].status \in {"scheduled", "in_progress"}
  /\ Evidence[document] = CompanyAt[c]
  /\ inWork' = [inWork EXCEPT ![c] = [op |-> "complete", of |-> n, document |-> document]]
  /\ UNCHANGED <<table, audit>>

CommitWork(c) ==
  LET w == inWork[c] IN
  /\ w # Idle
  /\ inWork' = [inWork EXCEPT ![c] = Idle]
  /\ \/ /\ w.op = "create" /\ Len(table) < MaxRecords
        /\ table' = Append(table, w.row)
        /\ audit' = Append(audit, [action |-> "created", of |-> Len(table) + 1])
     \/ /\ w.op = "complete"
        /\ table' = [table EXCEPT ![w.of].status = "completed", ![w.of].version = @ + 1]
        /\ audit' = Append(audit, [action |-> "completed", of |-> w.of, document |-> w.document])

RollBackWork(c) ==
  /\ inWork[c] # Idle
  /\ inWork' = [inWork EXCEPT ![c] = Idle]
  /\ UNCHANGED <<table, audit>>

RecordsNext ==
  \E c \in Clients :
    \/ \E kind \in Kinds, code \in Codes, parent \in {NoParent} \cup DOMAIN table,
          status0 \in UNION {InitialStatuses(k) : k \in Kinds} :
         CreateRecord(c, kind, code, parent, status0)
    \/ \E n \in DOMAIN table, document \in DOMAIN Evidence : CompleteWorkOrder(c, n, document)
    \/ CommitWork(c) \/ RollBackWork(c)

-----------------------------------------------------------------------------
AuditedAs(n, action) == {i \in DOMAIN audit : audit[i].of = n /\ audit[i].action = action}

\* Whoever works on the records at once, each was created once by its audit, and a work
\* order was completed once or never, by one that shows evidence of its company; codes
\* stay unique, and what the service looked for is of the same company.
RecordsAreAudited ==
  /\ \A n \in DOMAIN table :
       LET done == AuditedAs(n, "completed")
           times == Cardinality(done)
       IN  /\ Cardinality(AuditedAs(n, "created")) = 1
           /\ times = IF table[n].kind = "workOrder" /\ table[n].status = "completed" THEN 1 ELSE 0
           /\ table[n].version = 1 + times
           /\ \A i \in done : Evidence[audit[i].document] = table[n].company
           /\ table[n].kind \in Checked => table[table[n].parent].company = table[n].company
  /\ \A m, n \in DOMAIN table : SameKey(table[m], table[n]) => m = n
=============================================================================
