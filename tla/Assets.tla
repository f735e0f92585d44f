------------------------------- MODULE Assets -------------------------------
(***************************************************************************)
(* One asset, its assignments and its retirement (packages/domain/src/     *)
(* phase3/assets-maintenance.ts).  The caller keeps what the functions     *)
(* give, and gives back any assignment of the asset it keeps.  Their only  *)
(* callers are tests.                                                      *)
(***************************************************************************)
EXTENDS Integers, Sequences

CONSTANTS
  Locations,
  Clock,          \* bound: the last point in time
  MaxAssignments  \* bound

VARIABLES
  status,       \* of the asset
  assignments,  \* where it was, from when until when, in the order they were made
  retiredWith   \* how many there were when it was retired

assetsVars == <<status, assignments, retiredWith>>

NotYet == -1

AssetsInit ==
  /\ status \in {"AVAILABLE", "ASSIGNED", "IN_MAINTENANCE", "OUT_OF_SERVICE"}
  /\ assignments \in {<<[location |-> l, from |-> 0, until |-> NotYet]>> : l \in Locations}
  /\ retiredWith = NotYet

\* Mutant: the assignment it comes from may be over.
FromAny(n, location, at) ==
  /\ status # "RETIRED"
  /\ assignments[n].location # location
  /\ at >= assignments[n].from

MayTransfer(n, location, at) ==
  /\ status # "RETIRED"
  /\ assignments[n].until = NotYet
  /\ assignments[n].location # location
  /\ at >= assignments[n].from

\* The asset is assigned, whatever it was.
TransferAsset(n, location, at) ==
  /\ MayTransfer(n, location, at)
  /\ assignments' = Append([assignments EXCEPT ![n].until = at],
                           [location |-> location, from |-> at, until |-> NotYet])
  /\ status' = "ASSIGNED"
  /\ UNCHANGED retiredWith

RetireAsset ==
  /\ status # "RETIRED"
  /\ status' = "RETIRED"
  /\ retiredWith' = Len(assignments)
  /\ UNCHANGED assignments

AssetsNext ==
  \/ \E n \in DOMAIN assignments, l \in Locations, at \in 0..Clock :
       Len(assignments) < MaxAssignments /\ TransferAsset(n, l, at)
  \/ RetireAsset

-----------------------------------------------------------------------------
\* An asset is in one place at a time: each assignment begins elsewhere when the one
\* before it ends, only the last is not over, and none follows its retirement.
AssignmentsFollowEachOther ==
  /\ \A n \in DOMAIN assignments :
       IF n = Len(assignments)
       THEN assignments[n].until = NotYet
       ELSE /\ assignments[n].until = assignments[n + 1].from
            /\ assignments[n].until >= assignments[n].from
            /\ assignments[n].location # assignments[n + 1].location
  /\ status = "RETIRED" => retiredWith = Len(assignments)
=============================================================================
