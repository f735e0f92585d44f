-------------------------------- MODULE Crm --------------------------------
(***************************************************************************)
(* Leads and opportunities (packages/domain/src/phase3/crm.ts).  The       *)
(* functions take a record and give the next one and its events, which     *)
(* their caller keeps; here both are kept as they come.  Their only        *)
(* callers are tests.                                                      *)
(***************************************************************************)
EXTENDS Integers, Sequences

CONSTANTS
  Leads,
  Stages,    \* the stages of a pipeline: what each ends an opportunity as, or OPEN
  MaxMoves   \* bound: changes of stage of an opportunity

ASSUME CrmAssumption ==
  /\ \A g \in DOMAIN Stages : Stages[g] \in {"OPEN", "WON", "LOST"}
  /\ MaxMoves \in Nat

VARIABLES
  leads,          \* the status of each lead
  opportunities   \* what each lead was converted to, with the events of it; that an event
                  \* says who asked for it (source) is a history variable

crmVars == <<leads, opportunities>>

NoOpportunity == [status |-> "none"]

CrmInit ==
  /\ leads = [l \in Leads |-> "NEW"]
  /\ opportunities = [l \in Leads |-> NoOpportunity]

QualifyLead(l) ==
  /\ leads[l] = "NEW"
  /\ leads' = [leads EXCEPT ![l] = "QUALIFIED"]
  /\ UNCHANGED opportunities

\* The caller says which stage is the first, whatever that ends an opportunity as.
ConvertLeadToOpportunity(l, first) ==
  /\ leads[l] = "QUALIFIED"
  /\ leads' = [leads EXCEPT ![l] = "CONVERTED"]
  /\ opportunities' = [opportunities EXCEPT ![l] =
       [status |-> "OPEN", first |-> first, stage |-> first, customer |-> FALSE,
        reason |-> FALSE, version |-> 1, events |-> <<>>]]

\* A recommendation of an artificial intelligence ends nothing; who is the customer may
\* be known from an earlier change.
MayMove(o, target, source, customer, reason) ==
  /\ o.status = "OPEN"
  /\ source = "AI_RECOMMENDATION" => Stages[target] = "OPEN"
  /\ Stages[target] = "LOST" => reason
  /\ Stages[target] = "WON" => customer \/ o.customer

TransitionOpportunity(l, target, source, customer, reason) ==
  LET o == opportunities[l] IN
  /\ o # NoOpportunity
  /\ MayMove(o, target, source, customer, reason)
  /\ Len(o.events) < MaxMoves
  /\ opportunities' = [opportunities EXCEPT ![l] =
       [o EXCEPT !.status = Stages[target], !.stage = target,
                 !.customer = @ \/ customer,
                 !.reason = @ \/ (reason /\ Stages[target] = "LOST"),
                 !.version = @ + 1,
                 !.events = Append(@, [previous |-> o.stage, stage |-> target,
                                       status |-> Stages[target], source |-> source])]]
  /\ UNCHANGED leads

CrmNext ==
  \E l \in Leads :
    \/ QualifyLead(l)
    \/ \E g \in DOMAIN Stages :
         \/ ConvertLeadToOpportunity(l, g)
         \/ \E source \in {"USER", "AI_RECOMMENDATION"}, customer, reason \in BOOLEAN :
              TransitionOpportunity(l, g, source, customer, reason)

-----------------------------------------------------------------------------
\* An opportunity is where its events led it, one after the other from the stage its lead
\* was converted into; only the last of them ends it, a user decided that, and what was
\* won has a customer, what was lost a reason.
OpportunitiesFollowTheirEvents ==
  \A l \in Leads :
    LET o == opportunities[l] IN
    /\ leads[l] = "CONVERTED" <=> o # NoOpportunity
    /\ o # NoOpportunity =>
         LET n == Len(o.events) IN
         /\ o.version = n + 1
         /\ o.stage = IF n = 0 THEN o.first ELSE o.events[n].stage
         /\ \A i \in 1..n : o.events[i].previous = IF i = 1 THEN o.first ELSE o.events[i - 1].stage
         /\ \A i \in 1..n : o.events[i].status # "OPEN" => i = n /\ o.events[i].source = "USER"
         /\ o.status # "OPEN" <=> n > 0 /\ o.events[n].status # "OPEN"
         /\ o.status = "WON" => o.customer
         /\ o.status = "LOST" => o.reason
=============================================================================
