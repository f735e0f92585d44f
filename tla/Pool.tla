-------------------------------- MODULE Pool --------------------------------
(***************************************************************************)
(* The database clients of one API process (packages/database/src/index.ts *)
(* and apps/api/src/database.service.ts). A query outside a request's      *)
(* context borrows a client of the pool for itself; an authenticated       *)
(* request keeps one from the start of its handler to the end and fixes    *)
(* the company in it, on which row level security depends. Whoever finds   *)
(* no client free waits in line, without a time limit.                     *)
(***************************************************************************)
EXTENDS Integers, Sequences, FiniteSets

CONSTANTS
  Requests,    \* slots of requests in flight
  Clients,     \* the connections the pool may open, 20 in the code
  Companies,
  NoClient,
  NoCompany    \* the scope of a client nobody has fixed a company in

ASSUME PoolAssumption ==
  /\ Clients # {}
  /\ NoClient \notin Clients
  /\ NoCompany \notin Companies

VARIABLES
  waiting,  \* the requests waiting for a client, first come first served
  holds,    \* the client each request keeps
  scope     \* the company fixed in each client

poolVars == <<waiting, holds, scope>>

PoolInit ==
  /\ waiting = <<>>
  /\ holds = [r \in Requests |-> NoClient]
  /\ scope = [c \in Clients |-> NoCompany]

FreeClients == {c \in Clients : \A r \in Requests : holds[r] # c}

Ask(r) ==
  /\ waiting' = Append(waiting, r)
  /\ UNCHANGED <<holds, scope>>

AtTurn(r) ==
  /\ waiting # <<>>
  /\ Head(waiting) = r
  /\ FreeClients # {}

\* query and transaction of PostgresDatabase: the client goes back at once.
UseOnce(r) ==
  /\ AtTurn(r)
  /\ waiting' = Tail(waiting)
  /\ UNCHANGED <<holds, scope>>

\* The same, and the request goes on to another query.
UseAndAskAgain(r) ==
  /\ AtTurn(r)
  /\ waiting' = Append(Tail(waiting), r)
  /\ UNCHANGED <<holds, scope>>

\* runWithTenantContext up to the handler: the client is taken and its scope fixed.
Connect(r, company) ==
  /\ AtTurn(r)
  /\ \E c \in FreeClients :
       /\ holds' = [holds EXCEPT ![r] = c]
       /\ scope' = [scope EXCEPT ![c] = company]
  /\ waiting' = Tail(waiting)

\* Mutant: a query of the handler borrows another client of the pool.
OnAnotherClient(r) ==
  /\ holds[r] # NoClient
  /\ FreeClients # {}
  /\ UNCHANGED poolVars

\* query, transaction and scopedTransaction inside a request run on its own client.
OnOwnClient(r) ==
  /\ holds[r] # NoClient
  /\ UNCHANGED poolVars

\* Mutant: the client goes back with its scope.
ReleaseAsItIs(r) ==
  /\ holds[r] # NoClient
  /\ holds' = [holds EXCEPT ![r] = NoClient]
  /\ UNCHANGED <<waiting, scope>>

\* The end of runWithTenantContext, however the handler ended. A client whose
\* connection is lost is replaced by a new one, which has no scope either.
Release(r) ==
  /\ holds[r] # NoClient
  /\ scope' = [scope EXCEPT ![holds[r]] = NoCompany]
  /\ holds' = [holds EXCEPT ![r] = NoClient]
  /\ UNCHANGED waiting

\* The process ends and another one starts: its connections end with it.
PoolRestart ==
  /\ waiting' = <<>>
  /\ holds' = [r \in Requests |-> NoClient]
  /\ scope' = [c \in Clients |-> NoCompany]
=============================================================================
