----------------------------- MODULE Lifecycles -----------------------------
(***************************************************************************)
(* The transition tables of packages/domain/src/phase3: projects           *)
(* (projects.ts), employees (human-resources.ts), corrective actions and   *)
(* incidents (occupational-safety.ts) and work orders of maintenance       *)
(* (assets-maintenance.ts).  One record of one kind goes through its       *)
(* statuses; its caller brings what a closure has to show, or does not.    *)
(* The only callers of these functions are tests: what the API does with   *)
(* the tables is in Records.                                               *)
(***************************************************************************)
VARIABLE record   \* kind, status, the statuses it has been in, and whether the last
                  \* closure showed what it had to

Transitions == [
  PROJECT |-> [
    DRAFT     |-> {"PLANNED", "CANCELLED"},
    PLANNED   |-> {"ACTIVE", "ON_HOLD", "CANCELLED"},
    ACTIVE    |-> {"ON_HOLD", "AT_RISK", "COMPLETED", "CANCELLED"},
    ON_HOLD   |-> {"ACTIVE", "AT_RISK", "CANCELLED"},
    AT_RISK   |-> {"ACTIVE", "ON_HOLD", "COMPLETED", "CANCELLED"},
    COMPLETED |-> {"ACTIVE", "ARCHIVED"},
    CANCELLED |-> {"PLANNED", "ARCHIVED"},
    ARCHIVED  |-> {}],
  EMPLOYEE |-> [
    DRAFT     |-> {"ACTIVE", "INACTIVE"},
    ACTIVE    |-> {"SUSPENDED", "INACTIVE"},
    SUSPENDED |-> {"ACTIVE", "INACTIVE"},
    INACTIVE  |-> {"ACTIVE", "EXITED"},
    EXITED    |-> {}],
  CORRECTIVE_ACTION |-> [
    OPEN                 |-> {"IN_PROGRESS", "CANCELLED"},
    IN_PROGRESS          |-> {"VERIFICATION_PENDING", "CANCELLED"},
    VERIFICATION_PENDING |-> {"IN_PROGRESS", "CLOSED"},
    CLOSED               |-> {},
    CANCELLED            |-> {}],
  INCIDENT |-> [
    REPORTED            |-> {"UNDER_INVESTIGATION"},
    UNDER_INVESTIGATION |-> {"ACTION_REQUIRED", "CLOSED"},
    ACTION_REQUIRED     |-> {"UNDER_INVESTIGATION", "CLOSED"},
    CLOSED              |-> {}],
  WORK_ORDER |-> [
    OPEN                 |-> {"SCHEDULED", "IN_PROGRESS", "CANCELLED"},
    SCHEDULED            |-> {"IN_PROGRESS", "CANCELLED"},
    IN_PROGRESS          |-> {"VERIFICATION_PENDING", "CANCELLED"},
    VERIFICATION_PENDING |-> {"IN_PROGRESS", "COMPLETED"},
    COMPLETED            |-> {},
    CANCELLED            |-> {}]]

\* Where a record of each kind begins.
First == [PROJECT |-> "DRAFT", EMPLOYEE |-> "DRAFT", CORRECTIVE_ACTION |-> "OPEN",
          INCIDENT |-> "REPORTED", WORK_ORDER |-> "OPEN"]

\* The status that has to be shown something for: evidence, or a documented exception,
\* and for a work order the required tasks as well.
Closing == [PROJECT |-> {"COMPLETED"}, EMPLOYEE |-> {}, CORRECTIVE_ACTION |-> {"CLOSED"},
            INCIDENT |-> {"CLOSED"}, WORK_ORDER |-> {"COMPLETED"}]

LifecyclesInit ==
  \E kind \in DOMAIN Transitions :
    record = [kind |-> kind, status |-> First[kind], been |-> {First[kind]}, shown |-> FALSE]

Goes(target, shown) ==
  record' = [record EXCEPT !.status = target, !.been = @ \cup {target}, !.shown = shown]

\* transitionProjectStatus, transitionEmployee, transitionCorrectiveAction,
\* transitionIncident, transitionMaintenanceWorkOrder
Transition(target, shown) ==
  /\ target \in Transitions[record.kind][record.status]
  /\ target \in Closing[record.kind] => shown
  /\ Goes(target, shown)

\* completeEmployeeExit wants the checklist complete, which transitionEmployee does not.
CompleteEmployeeExit ==
  /\ record.kind = "EMPLOYEE" /\ record.status = "INACTIVE"
  /\ "EXITED" \in Transitions[record.kind][record.status]
  /\ Goes("EXITED", TRUE)

LifecyclesNext ==
  \/ \E target \in UNION {Transitions[record.kind][s] : s \in DOMAIN Transitions[record.kind]},
        shown \in BOOLEAN : Transition(target, shown)
  \/ CompleteEmployeeExit

-----------------------------------------------------------------------------
\* What must come before, whichever way a record went.
Comes(kind, status, before) ==
  record.kind = kind /\ record.status = status => before \cap record.been # {}

\* Nothing is closed that was not worked on and, where there is a verification, verified,
\* and nothing without what its closure must show; what is over for good stays so.
ClosuresAreEarned ==
  /\ record.status \in Closing[record.kind] => record.shown
  /\ Comes("PROJECT", "COMPLETED", {"ACTIVE", "AT_RISK"})
  /\ Comes("PROJECT", "ARCHIVED", {"COMPLETED", "CANCELLED"})
  /\ Comes("EMPLOYEE", "EXITED", {"INACTIVE"})
  /\ Comes("INCIDENT", "CLOSED", {"UNDER_INVESTIGATION"})
  /\ \A before \in {"IN_PROGRESS", "VERIFICATION_PENDING"} :
       /\ Comes("CORRECTIVE_ACTION", "CLOSED", {before})
       /\ Comes("WORK_ORDER", "COMPLETED", {before})
  /\ \A s \in record.been : Transitions[record.kind][s] = {} => record.status = s
=============================================================================
