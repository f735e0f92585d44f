--------------------------- MODULE ModuleRegistry ---------------------------
(***************************************************************************)
(* Which modules a company has enabled (apps/api/src/modules.service.ts).  *)
(* A request to enable or disable a module first reads what is enabled and *)
(* decides, outside any transaction, and then writes the row of its module *)
(* in a transaction that does not look again.  What other requests decide  *)
(* and write in between is what makes it hard.                             *)
(***************************************************************************)
EXTENDS Integers

CONSTANTS
  Modules,
  Dependencies,    \* what each module depends on, all of it
  Alternatives,    \* what each module needs one of, {} if it has no such need
  Implemented,
  DefaultEnabled,  \* what a new company has enabled
  Managers,        \* who enables and disables modules, one request at a time each
  NoChange

ASSUME RegistryAssumption ==
  /\ Dependencies \in [Modules -> SUBSET Modules]
  /\ Alternatives \in [Modules -> SUBSET Modules]
  /\ Implemented \subseteq Modules
  /\ DefaultEnabled \subseteq Implemented
  /\ \A m \in DefaultEnabled : Dependencies[m] \subseteq DefaultEnabled

ModuleChange == [op : {"enable", "disable"}, module : Modules]

ASSUME NoChangeAssumption == NoChange \notin ModuleChange

VARIABLES
  enabled,    \* the modules whose row of company_modules says enabled
  approved,   \* the change each manager's request has decided on and not written yet
  crossing    \* history: the pairs <<m, d>>, d a dependency of m, of which an enabling of m
              \* and a disabling of d were both approved before either was written, since m
              \* was disabled for the last time

registryVars == <<enabled, approved, crossing>>

RegistryInit ==
  /\ enabled = DefaultEnabled
  /\ approved = [u \in Managers |-> NoChange]
  /\ crossing = {}

Enabling(m) == [op |-> "enable", module |-> m]
Disabling(m) == [op |-> "disable", module |-> m]

InWork(change) == \E u \in Managers : approved[u] = change

\* validateModuleEnablement against a set of enabled modules.
Enableable(m, E) ==
  /\ m \in Implemented
  /\ Alternatives[m] # {} => Alternatives[m] \cap E # {}
  /\ Dependencies[m] \subseteq E

\* Mutant: only the modules that depend on nothing else.
DependentsOnItAlone(m, E) == {d \in E : Dependencies[d] = {m}}

\* The dependents are found in the dependencies column, which has no alternatives.
EnabledDependents(m, E) == {d \in E : m \in Dependencies[d]}

Approve(u, change) ==
  /\ approved[u] = NoChange
  /\ approved' = [approved EXCEPT ![u] = change]
  /\ UNCHANGED enabled

DecideEnable(u, m) ==
  /\ Enableable(m, enabled)
  /\ Approve(u, Enabling(m))
  /\ crossing' = crossing \cup {<<m, d>> : d \in {n \in Dependencies[m] : InWork(Disabling(n))}}

DecideDisable(u, m) ==
  /\ EnabledDependents(m, enabled) = {}
  /\ Approve(u, Disabling(m))
  /\ crossing' = crossing \cup
       {<<d, m>> : d \in {n \in Modules : m \in Dependencies[n] /\ InWork(Enabling(n))}}

Write(u, change) ==
  /\ approved[u] = change
  /\ approved' = [approved EXCEPT ![u] = NoChange]

\* The row is inserted or updated, whatever it says.
WriteEnable(u, m) ==
  /\ Write(u, Enabling(m))
  /\ enabled' = enabled \cup {m}
  /\ UNCHANGED crossing

\* Only an enabled row is updated; otherwise the request ends in a conflict.
WriteDisable(u, m) ==
  /\ Write(u, Disabling(m))
  /\ enabled' = enabled \ {m}
  /\ crossing' = {pair \in crossing : pair[1] # m \/ InWork(Enabling(m))}

RegistryNext ==
  \E u \in Managers, m \in Modules :
    DecideEnable(u, m) \/ DecideDisable(u, m) \/ WriteEnable(u, m) \/ WriteDisable(u, m)

RegistrySpec == RegistryInit /\ [][RegistryNext]_registryVars

-----------------------------------------------------------------------------
RegistryTypeOK ==
  /\ enabled \subseteq Modules
  /\ approved \in [Managers -> ModuleChange \cup {NoChange}]
  /\ crossing \subseteq Modules \X Modules

\* Whatever is enabled is implemented and has everything it depends on enabled:
\* the decision to enable, taken on what was read before, still holds when it is
\* written, and no disabling slips in under a module that needs it.
DependenciesEnabled ==
  \A m \in enabled : m \in Implemented /\ Dependencies[m] \subseteq enabled

\* However many requests enable and disable at once, an enabled module is implemented and
\* lacks a dependency only if the two were decided on against each other: its enabling and
\* the disabling of that very dependency, each before the other was written, and it was not
\* disabled since.  No longer chain of stale decisions (three modules, a request that waits
\* while its module is disabled and enabled again) breaks one.
LacksOnlyWhatCrossed ==
  \A m \in enabled :
    m \in Implemented /\ \A d \in Dependencies[m] : d \in enabled \/ <<m, d>> \in crossing
=============================================================================
