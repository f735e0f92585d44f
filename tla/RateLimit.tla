----------------------------- MODULE RateLimit -----------------------------
(***************************************************************************)
(* The limit of requests of one process of the API (apps/api/src/http.ts,  *)
(* LocalRateLimitInterceptor): a window of fixed length for each session,  *)
(* or address without one, that begins with its first request.             *)
(***************************************************************************)
EXTENDS Integers, FiniteSets, FiniteSetsExt

CONSTANTS
  Callers,           \* sessions and addresses
  WindowLength,      \* windowMilliseconds
  MaximumRequests,
  MaxWindows,        \* 10,000: above it, the windows that are over are purged
  MaxNow,            \* bound: the time behaviours last
  MaxAsked           \* bound: requests at one time

ASSUME RateLimitAssumption ==
  /\ {WindowLength, MaximumRequests, MaxWindows, MaxNow, MaxAsked} \subseteq Nat
  /\ WindowLength > 0 /\ MaxNow > 0

VARIABLES
  now,
  windows,    \* the window of each caller, or NoWindow
  admitted    \* how many requests of each caller were admitted at each time

rateVars == <<now, windows, admitted>>

NoWindow == [count |-> 0, resetAt |-> 0]

RateLimitInit ==
  /\ now = 1
  /\ windows = [c \in Callers |-> NoWindow]
  /\ admitted = [c \in Callers |-> [t \in 1..MaxNow |-> 0]]

\* Mutant: the count is not kept.
WindowOfOne(c) ==
  IF windows[c].resetAt <= now
  THEN [count |-> 1, resetAt |-> now + WindowLength]
  ELSE [count |-> 1, resetAt |-> windows[c].resetAt]

\* Requests that are refused are counted too.
WindowOf(c) ==
  IF windows[c].resetAt <= now
  THEN [count |-> 1, resetAt |-> now + WindowLength]
  ELSE [windows[c] EXCEPT !.count = @ + 1]

Purged(entries) ==
  IF Cardinality({c \in Callers : entries[c] # NoWindow}) > MaxWindows
  THEN [c \in Callers |-> IF entries[c].resetAt <= now THEN NoWindow ELSE entries[c]]
  ELSE entries

\* intercept.  Bound: a window is asked at most MaxAsked times.
Intercept(c) ==
  LET window  == WindowOf(c)
      entries == [windows EXCEPT ![c] = window]
  IN  /\ window.count <= MaxAsked
      /\ IF window.count > MaximumRequests
         THEN /\ windows' = entries
              /\ UNCHANGED admitted
         ELSE /\ windows' = Purged(entries)
              /\ admitted' = [admitted EXCEPT ![c][now] = @ + 1]
      /\ UNCHANGED now

Later ==
  /\ now < MaxNow
  /\ now' = now + 1
  /\ UNCHANGED <<windows, admitted>>

\* Windows are in memory.
RestartApi ==
  /\ windows # [c \in Callers |-> NoWindow]
  /\ windows' = [c \in Callers |-> NoWindow]
  /\ admitted' = [c \in Callers |-> [t \in 1..MaxNow |-> 0]]
  /\ UNCHANGED now

RateLimitNext ==
  \/ \E c \in Callers : Intercept(c)
  \/ Later
  \/ RestartApi

-----------------------------------------------------------------------------
Within(t) == {n \in 1..MaxNow : t <= n /\ n < t + WindowLength}

\* Of so many admitted at each time, those within the length of a window.
AdmittedFrom(counts, t) == MapThenSumSet(LAMBDA n : counts[n], Within(t))

\* Whatever the number of callers, and though windows are purged, nobody has more
\* requests admitted within any span of the length of a window than two windows allow;
\* only with a restart does one process begin again.
BurstsAreBounded ==
  \A c \in Callers, t \in 1..MaxNow : AdmittedFrom(admitted[c], t) <= 2 * MaximumRequests
=============================================================================
