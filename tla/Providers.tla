----------------------------- MODULE Providers -----------------------------
(***************************************************************************)
(* The providers of assistance (apps/api/src/phase3/providers): which of   *)
(* them a company uses for a category, how their health is tested, and the *)
(* circuit breaker in front of each remote one.  All of it is in the       *)
(* memory of one process.  The three system providers always exist; the    *)
(* others are registered by whoever assembles the program.                 *)
(***************************************************************************)
EXTENDS Integers

CONSTANTS
  Companies,
  Providers,   \* the registered providers, each with its category, its mode, the
               \* company it belongs to or All, whether a breaker is in front of it,
               \* and the states its health check may find
  All,
  Categories,
  Default,     \* the system provider of each category
  Threshold    \* failures that open a breaker, 3 in the code

ASSUME ProvidersAssumption ==
  /\ Categories \subseteq {"AI", "OCR", "GEOCODING"}
  /\ Threshold \in Nat \ {0}
  /\ \A c \in Categories : Default[c] \in DOMAIN Providers /\ Providers[Default[c]].company = All

VARIABLES
  active,   \* what a company chose for a category
  state,    \* the state of each provider, one for all companies
  breaker   \* of each provider: failures, and whether it is closed, open, or open for
            \* longer than resetAfterMs

providerVars == <<active, state, breaker>>

ProviderIds == DOMAIN Providers
NoChoice == "none"
Closed == [failures |-> 0, is |-> "closed"]

NoChoices == [c \in Companies |-> [k \in Categories |-> NoChoice]]
Registered == [i \in ProviderIds |-> IF Providers[i].mode = "DISABLED" THEN "DISABLED" ELSE "CONFIGURED"]
AllClosed == [i \in ProviderIds |-> Closed]

ProvidersInit == active = NoChoices /\ state = Registered /\ breaker = AllClosed

\* The process is started anew.
Forget == active' = NoChoices /\ state' = Registered /\ breaker' = AllClosed

Visible(c, i) == Providers[i].company \in {All, c}

\* getActiveAiProvider, getActiveOcrProvider, getActiveGeocodingProvider
ActiveOf(c, k) == IF active[c][k] = NoChoice THEN Default[k] ELSE active[c][k]

\* The category a provider is chosen for: a provider of maps for the coordinates.
ChosenFor(i) == IF Providers[i].category = "MAPS" THEN "GEOCODING" ELSE Providers[i].category

\* testConnection is over when the health check answers, which then is the state.
TestConnection(c, i) ==
  /\ Visible(c, i)
  /\ state' = [state EXCEPT ![i] = "TESTING"]
  /\ UNCHANGED <<active, breaker>>

\* Bound: a provider is tested by one request at a time.
Healthy(i) ==
  /\ state[i] = "TESTING"
  /\ \E found \in Providers[i].health : state' = [state EXCEPT ![i] = found]
  /\ UNCHANGED <<active, breaker>>

\* A cloud provider is confirmed in production, which matters for no AI or OCR: those
\* are not available at all.  A provider under test is ready, whatever it was before.
Activate(c, i) ==
  /\ Visible(c, i)
  /\ ~(Providers[i].mode = "CLOUD" /\ Providers[i].category \in {"AI", "OCR"})
  /\ state[i] \notin {"UNAVAILABLE", "NOT_CONFIGURED"}
  /\ active' = [active EXCEPT ![c][ChosenFor(i)] = i]
  /\ UNCHANGED <<state, breaker>>

\* Whatever provider the company uses for the category, it is back to the default.
Deactivate(c, i) ==
  /\ Visible(c, i)
  /\ active' = [active EXCEPT ![c][ChosenFor(i)] = NoChoice]
  /\ UNCHANGED <<state, breaker>>

\* What happens to the providers of some categories.
ProvidersNext(categories) ==
  \E i \in ProviderIds :
    /\ Providers[i].category \in categories
    /\ \/ \E c \in Companies : TestConnection(c, i) \/ Activate(c, i) \/ Deactivate(c, i)
       \/ Healthy(i)

-----------------------------------------------------------------------------
\* The breaker: execute of provider-safety.ts, before and after the operation.

Admits(i) == ~Providers[i].remote \/ breaker[i].is # "open"

\* Mutant: the failures are counted on.
EnteredCounting(i) ==
  IF breaker[i].is = "cooled" THEN [breaker[i] EXCEPT !.is = "closed"] ELSE breaker[i]

Entered(i) == IF breaker[i].is = "cooled" THEN Closed ELSE breaker[i]

\* A success of an operation that began before the breaker opened leaves it open.
Succeeded(i) == [breaker[i] EXCEPT !.failures = 0]

\* A failure that comes late opens it anew.
Failed(i) ==
  LET failures == breaker[i].failures + 1
  IN  [failures |-> failures, is |-> IF failures >= Threshold THEN "open" ELSE breaker[i].is]

\* resetAfterMs have passed.
Cool(i) ==
  /\ breaker[i].is = "open"
  /\ breaker' = [breaker EXCEPT ![i].is = "cooled"]
  /\ UNCHANGED <<active, state>>

Calls(i) == breaker' = [breaker EXCEPT ![i] = Entered(i)]
CallSucceeds(i) == breaker' = [breaker EXCEPT ![i] = IF Providers[i].remote THEN Succeeded(i) ELSE @]
CallFails(i) == breaker' = [breaker EXCEPT ![i] = IF Providers[i].remote THEN Failed(i) ELSE @]

\* A breaker is open once it counted enough failures in a row, however the operations in
\* flight end.
BreakerOpens == \A i \in ProviderIds : breaker[i].failures >= Threshold => breaker[i].is # "closed"
=============================================================================
