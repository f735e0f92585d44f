------------------------------- MODULE Access -------------------------------
(***************************************************************************)
(* Accounts, sessions and the requests that need them: auth.service.ts,    *)
(* auth.guard.ts, tenant-context.interceptor.ts and users.service.ts of    *)
(* apps/api/src, on the clients of Pool. A public request (login, reset of *)
(* a password) borrows a client for each of its queries. A guarded request *)
(* is looked at by the guard, query by query, and then runs its handler on *)
(* a client of its own. A transaction is one step: those that write an     *)
(* account or its sessions all update the row of the account, whose lock   *)
(* puts them in order.                                                     *)
(***************************************************************************)
EXTENDS Pool

CONSTANTS
  Users,
  CompanyOf,     \* the default company of each user
  AdminsIn,      \* who has the role company-admin in each company, once it exists
  Seeded,        \* the users that exist from the start
  Mixes,         \* bound: how many requests there are in one behaviour, of which kinds, of
                 \* and about whom, and how many failed logins in a row
  MaxAttempts,   \* LOGIN_MAX_ATTEMPTS
  MaxSessions,   \* bound: sessions ever opened
  MaxTokens,     \* bound: reset tokens ever sent
  MaxPasswords   \* bound: no change of a password starts beyond this one

ASSUME AccessAssumption ==
  /\ CompanyOf \in [Users -> Companies]
  /\ AdminsIn \in [Companies -> SUBSET Users]
  /\ Seeded \subseteq Users
  /\ MaxAttempts \in Nat \ {0}
  /\ \A m \in Mixes : m.users \subseteq Users

VARIABLES
  accounts,  \* the row of each user
  sessions,  \* the sessions opened so far
  tokens,    \* the reset tokens sent so far
  request,   \* what each request in flight is doing
  mix,       \* the one of Mixes that this behaviour keeps to
  crossed,   \* the users whose logins overlapped, the companies whose
             \* administrators were deactivated by decisions that did not see it all
  failures   \* the failed logins of each user since the last one that succeeded

accessVars == <<accounts, sessions, tokens, request, mix, crossed, failures>>
allVars == <<accessVars, poolVars>>

Idle == [step |-> "idle"]

NewAccount(exists, temporary) ==
  [status |-> IF exists THEN "active" ELSE "absent", password |-> 1,
   temporary |-> temporary, failed |-> 0, blocked |-> "no"]

AccessInit ==
  /\ PoolInit
  /\ accounts = [u \in Users |-> NewAccount(u \in Seeded, FALSE)]
  /\ sessions = <<>>
  /\ tokens = <<>>
  /\ request = [r \in Requests |-> Idle]
  /\ mix \in Mixes
  /\ crossed = [logins |-> {}, deactivations |-> {}]
  /\ failures = [u \in Users |-> 0]

At(r, step) == request[r].step = step
Becomes(r, step) == request' = [request EXCEPT ![r].step = step]
Answered(r) == request' = [request EXCEPT ![r] = Idle]
InFlight(kind) == {r \in Requests : request[r].step # "idle" /\ request[r].kind = kind}

Arrive(r, new) ==
  /\ At(r, "idle")
  /\ r \in mix.requests /\ new.kind \in mix.kinds
  /\ request' = [request EXCEPT ![r] = new]
  /\ Ask(r)
  /\ UNCHANGED <<accounts, sessions, tokens, mix, crossed, failures>>

-----------------------------------------------------------------------------
\* login: the row is read, the password verified, and then the failure or the
\* session is written from what was read. The attempt noted in login_attempts is
\* read by nothing and left out, like the time a session was last seen.

Logins == InFlight("login") \cup InFlight("wrong-login")

\* A login with the password of the account, or with another one.
ArriveLogin(r) ==
  \E u \in mix.users :
    \/ /\ failures[u] + Cardinality(Logins) <= mix.failures
       /\ Len(sessions) + Cardinality(InFlight("login")) < MaxSessions
       /\ Arrive(r, [kind |-> "login", step |-> "read", user |-> u])
    \/ /\ failures[u] + Cardinality(Logins) < mix.failures
       /\ Arrive(r, [kind |-> "wrong-login", step |-> "read", user |-> u])

LoginsThatRead(u) == {r \in Logins : request[r].user = u /\ ~At(r, "read")}

LoginRead(r) ==
  LET u == request[r].user
      row == accounts[u]
      valid == row.status = "active" /\ row.blocked # "yes" /\ request[r].kind = "login"
  IN
  /\ At(r, "read") /\ r \in Logins
  /\ IF row.status = "absent"
     THEN UseOnce(r) /\ Answered(r)
     ELSE /\ UseAndAskAgain(r)
          /\ request' = [request EXCEPT ![r] =
               [kind |-> @.kind, step |-> IF valid THEN "enter" ELSE "fail", user |-> u,
                count |-> row.failed, password |-> row.password]]
  /\ crossed' = IF LoginsThatRead(u) = {} THEN crossed
                ELSE [crossed EXCEPT !.logins = @ \cup {u}]
  /\ UNCHANGED <<accounts, sessions, tokens, mix, failures>>

\* Mutant: the account is blocked when the count passes the limit.
LoginFailLate(r) ==
  LET u == request[r].user
      count == request[r].count + 1
  IN
  /\ At(r, "fail")
  /\ UseOnce(r)
  /\ accounts' = [accounts EXCEPT ![u].failed = count,
                                  ![u].blocked = IF count > MaxAttempts THEN "yes" ELSE "no"]
  /\ failures' = [failures EXCEPT ![u] = @ + 1]
  /\ Answered(r)
  /\ UNCHANGED <<sessions, tokens, mix, crossed>>

LoginFail(r) ==
  LET u == request[r].user
      count == request[r].count + 1
  IN
  /\ At(r, "fail")
  /\ UseOnce(r)
  /\ accounts' = [accounts EXCEPT ![u].failed = count,
                                  ![u].blocked = IF count >= MaxAttempts THEN "yes" ELSE "no"]
  /\ failures' = [failures EXCEPT ![u] = @ + 1]
  /\ Answered(r)
  /\ UNCHANGED <<sessions, tokens, mix, crossed>>

\* Neither the status nor the password is looked at again.
LoginEnter(r) ==
  LET u == request[r].user IN
  /\ At(r, "enter")
  /\ UseOnce(r)
  /\ sessions' = Append(sessions,
       [user |-> u, live |-> TRUE, password |-> request[r].password,
        late |-> accounts[u].status # "active" \/ accounts[u].password # request[r].password])
  /\ accounts' = [accounts EXCEPT ![u].failed = 0, ![u].blocked = "no"]
  /\ failures' = [failures EXCEPT ![u] = 0]
  /\ Answered(r)
  /\ UNCHANGED <<tokens, mix, crossed>>

-----------------------------------------------------------------------------
\* requestPasswordReset and resetPassword.

ArriveResetRequest(r) ==
  /\ Len(tokens) + Cardinality(InFlight("reset-request")) < MaxTokens
  /\ \E u \in mix.users : Arrive(r, [kind |-> "reset-request", step |-> "read", user |-> u])

ResetRequestRead(r) ==
  /\ At(r, "read") /\ request[r].kind = "reset-request"
  /\ IF accounts[request[r].user].status = "active"
     THEN UseAndAskAgain(r) /\ Becomes(r, "send")
     ELSE UseOnce(r) /\ Answered(r)
  /\ UNCHANGED <<accounts, sessions, tokens, mix, crossed, failures>>

ResetRequestSend(r) ==
  /\ At(r, "send")
  /\ UseOnce(r)
  /\ tokens' = Append(tokens, [user |-> request[r].user, usable |-> TRUE])
  /\ Answered(r)
  /\ UNCHANGED <<accounts, sessions, mix, crossed, failures>>

ArriveReset(r) ==
  \E t \in DOMAIN tokens :
    /\ accounts[tokens[t].user].password < MaxPasswords
    /\ Arrive(r, [kind |-> "reset", step |-> "reset", token |-> t])

SessionsOf(u) == {i \in DOMAIN sessions : sessions[i].user = u}

Revoke(ended) ==
  sessions' = [i \in DOMAIN sessions |-> [sessions[i] EXCEPT !.live = @ /\ i \notin ended]]

NewPassword(u) ==
  accounts' = [accounts EXCEPT ![u].password = @ + 1, ![u].temporary = FALSE]

\* The token is used, whatever the status of the user; other tokens stay usable.
Reset(r) ==
  LET t == request[r].token
      u == tokens[t].user
  IN
  /\ At(r, "reset")
  /\ UseOnce(r)
  /\ IF tokens[t].usable
     THEN /\ tokens' = [tokens EXCEPT ![t].usable = FALSE]
          /\ NewPassword(u)
          /\ Revoke(SessionsOf(u))
     ELSE UNCHANGED <<accounts, sessions, tokens>>
  /\ Answered(r)
  /\ UNCHANGED <<mix, crossed, failures>>

-----------------------------------------------------------------------------
\* The guard: the session, the account and its permissions in one query, and the
\* module of the endpoint, if it has one, in another.

ArriveGuarded(r) ==
  \E s \in DOMAIN sessions :
    \/ \E kind \in {"logout", "work", "create"} :
         Arrive(r, [kind |-> kind, step |-> "guard", session |-> s])
    \/ /\ accounts[sessions[s].user].password < MaxPasswords
       /\ \E right \in BOOLEAN :
            Arrive(r, [kind |-> "change", step |-> "guard", session |-> s, right |-> right])
    \/ \E u \in mix.users :
         Arrive(r, [kind |-> "deactivate", step |-> "guard", session |-> s, target |-> u])

UserOf(r) == sessions[request[r].session].user

\* The row the query finds, and what the guard asks of it: only administrators manage users.
Admitted(r) ==
  /\ sessions[request[r].session].live
  /\ accounts[UserOf(r)].status = "active"
  /\ accounts[UserOf(r)].temporary => request[r].kind \in {"change", "logout"}
  /\ request[r].kind \in {"create", "deactivate"} => UserOf(r) \in AdminsIn[CompanyOf[UserOf(r)]]

Guard(r) ==
  /\ At(r, "guard")
  /\ IF Admitted(r)
     THEN /\ UseAndAskAgain(r)
          /\ Becomes(r, IF request[r].kind = "work" THEN "module" ELSE "connect")
     ELSE UseOnce(r) /\ Answered(r)
  /\ UNCHANGED <<accounts, sessions, tokens, mix, crossed, failures>>

\* What company_modules says is up to ModuleRegistry.
GuardModule(r) ==
  /\ At(r, "module")
  /\ \/ UseAndAskAgain(r) /\ Becomes(r, "connect")
     \/ UseOnce(r) /\ Answered(r)
  /\ UNCHANGED <<accounts, sessions, tokens, mix, crossed, failures>>

-----------------------------------------------------------------------------
\* The handlers, each on the client of its request.

Begin(r) ==
  /\ At(r, "connect")
  /\ Connect(r, CompanyOf[UserOf(r)])
  /\ Becomes(r, IF request[r].kind \in {"change", "deactivate"} THEN "check" ELSE "write")
  /\ UNCHANGED <<accounts, sessions, tokens, mix, crossed, failures>>

EndHandler(r) ==
  /\ Release(r)
  /\ Answered(r)

ChangeCheck(r) ==
  /\ At(r, "check") /\ request[r].kind = "change"
  /\ IF request[r].right
     THEN OnOwnClient(r) /\ Becomes(r, "write")
     ELSE EndHandler(r)
  /\ UNCHANGED <<accounts, sessions, tokens, mix, crossed, failures>>

\* Mutant: the other sessions are left alone.
ChangeAlone(r) ==
  LET own == request[r].session
      u == UserOf(r)
  IN
  /\ At(r, "write") /\ request[r].kind = "change"
  /\ NewPassword(u)
  /\ sessions' = [sessions EXCEPT ![own].password = accounts[u].password + 1]
  /\ EndHandler(r)
  /\ UNCHANGED <<tokens, mix, crossed, failures>>

\* The session of the request is kept, and from now on it goes with the new password.
Change(r) ==
  LET own == request[r].session
      u == UserOf(r)
  IN
  /\ At(r, "write") /\ request[r].kind = "change"
  /\ NewPassword(u)
  /\ sessions' = [i \in DOMAIN sessions |->
       IF sessions[i].user # u THEN sessions[i]
       ELSE IF i = own THEN [sessions[i] EXCEPT !.password = accounts[u].password + 1]
       ELSE [sessions[i] EXCEPT !.live = FALSE]]
  /\ EndHandler(r)
  /\ UNCHANGED <<tokens, mix, crossed, failures>>

Logout(r) ==
  /\ At(r, "write") /\ request[r].kind = "logout"
  /\ Revoke({request[r].session})
  /\ EndHandler(r)
  /\ UNCHANGED <<accounts, tokens, mix, crossed, failures>>

Work(r) ==
  /\ At(r, "write") /\ request[r].kind = "work"
  /\ EndHandler(r)
  /\ UNCHANGED <<accounts, sessions, tokens, mix, crossed, failures>>

\* An e-mail that is taken ends in a conflict.
Create(r) ==
  /\ At(r, "write") /\ request[r].kind = "create"
  /\ \E u \in mix.users :
       accounts' = IF accounts[u].status = "absent"
                   THEN [accounts EXCEPT ![u] = NewAccount(TRUE, TRUE)] ELSE accounts
  /\ EndHandler(r)
  /\ UNCHANGED <<sessions, tokens, mix, crossed, failures>>

ActiveAdmins(company) == {u \in AdminsIn[company] : accounts[u].status = "active"}

\* Mutant: an administrator is refused only when there is none.
MayDeactivateAny(target, company) ==
  target \in AdminsIn[company] => Cardinality(ActiveAdmins(company)) > 0

\* The active administrators of the company of the request are counted before the
\* transaction that deactivates one.
MayDeactivate(target, company) ==
  target \in AdminsIn[company] => Cardinality(ActiveAdmins(company)) > 1

DecidedFor(company) ==
  {r \in InFlight("deactivate") : At(r, "write") /\ request[r].target \in AdminsIn[company]}

\* The companies that lose an administrator whom the decision of this request does not
\* count: those of another company, and those that another decided request also takes one.
NotCounted(target, company) ==
  {other \in Companies : /\ target \in AdminsIn[other]
                         /\ other # company \/ DecidedFor(other) # {}}

DeactivateCheck(r) ==
  LET target == request[r].target
      company == CompanyOf[UserOf(r)]
  IN
  /\ At(r, "check") /\ request[r].kind = "deactivate"
  /\ IF target # UserOf(r) /\ MayDeactivate(target, company)
     THEN /\ OnOwnClient(r)
          /\ Becomes(r, "write")
          /\ crossed' = [crossed EXCEPT !.deactivations = @ \cup NotCounted(target, company)]
     ELSE EndHandler(r) /\ UNCHANGED crossed
  /\ UNCHANGED <<accounts, sessions, tokens, mix, failures>>

Deactivate(r) ==
  LET target == request[r].target IN
  /\ At(r, "write") /\ request[r].kind = "deactivate"
  /\ accounts' = [accounts EXCEPT ![target].status = IF @ = "absent" THEN @ ELSE "inactive"]
  /\ Revoke(SessionsOf(target))
  /\ EndHandler(r)
  /\ UNCHANGED <<tokens, mix, crossed, failures>>

-----------------------------------------------------------------------------
\* What goes wrong, and time.

\* A query fails: what the request had not written it does not write.
Fail(r) ==
  /\ \/ UseOnce(r)
     \/ Release(r)
  /\ Answered(r)
  /\ UNCHANGED <<accounts, sessions, tokens, mix, crossed, failures>>

Restart ==
  /\ request' = [r \in Requests |-> Idle]
  /\ PoolRestart
  /\ UNCHANGED <<accounts, sessions, tokens, mix, crossed, failures>>

ExpireSession ==
  /\ \E i \in DOMAIN sessions : sessions[i].live /\ Revoke({i})
  /\ UNCHANGED <<accounts, tokens, request, mix, crossed, failures, poolVars>>

ExpireToken ==
  /\ \E t \in DOMAIN tokens : tokens[t].usable /\ tokens' = [tokens EXCEPT ![t].usable = FALSE]
  /\ UNCHANGED <<accounts, sessions, request, mix, crossed, failures, poolVars>>

ExpireBlock ==
  /\ \E u \in Users :
       /\ accounts[u].blocked = "yes"
       /\ accounts' = [accounts EXCEPT ![u].blocked = "past"]
  /\ UNCHANGED <<sessions, tokens, request, mix, crossed, failures, poolVars>>

ArriveAny(r) == ArriveLogin(r) \/ ArriveResetRequest(r) \/ ArriveReset(r) \/ ArriveGuarded(r)

Step(r) ==
  \/ LoginRead(r) \/ LoginFail(r) \/ LoginEnter(r)
  \/ ResetRequestRead(r) \/ ResetRequestSend(r) \/ Reset(r)
  \/ Guard(r) \/ GuardModule(r) \/ Begin(r)
  \/ ChangeCheck(r) \/ Change(r) \/ Logout(r) \/ Work(r) \/ Create(r)
  \/ DeactivateCheck(r) \/ Deactivate(r)

AccessNext ==
  \/ \E r \in Requests : ArriveAny(r) \/ Step(r) \/ Fail(r)
  \/ Restart \/ ExpireSession \/ ExpireToken \/ ExpireBlock

AccessSpec ==
  /\ AccessInit
  /\ [][AccessNext]_allVars
  /\ \A r \in Requests : WF_allVars(Step(r))

-----------------------------------------------------------------------------
\* A client in the pool has no company fixed in it, and the client of a request
\* has the company of its user, after whatever requests used it, failed on it or
\* lost it: the rows another company may see depend on nothing else.
ScopeIsOwn ==
  /\ \A c \in FreeClients : scope[c] = NoCompany
  /\ \A r \in Requests : holds[r] # NoClient => scope[holds[r]] = CompanyOf[UserOf(r)]

\* A session that can be used belongs to an active user and was opened with the
\* password the user has now, but for those of logins that had read the account
\* before it was deactivated or its password changed, and wrote their session after.
SessionsMatchAccounts ==
  \A i \in DOMAIN sessions :
    sessions[i].live /\ ~sessions[i].late =>
      /\ accounts[sessions[i].user].status = "active"
      /\ accounts[sessions[i].user].password = sessions[i].password

\* A company keeps an active administrator as long as no deactivation was decided that
\* did not count on what another one, already decided, or one from another company of
\* the tenant was going to do (users.service.ts counts before its transaction).
AdministratorRemains ==
  \A company \in Companies \ crossed.deactivations :
    AdminsIn[company] \cap Seeded # {} => ActiveAdmins(company) # {}

\* A company never loses its last active administrator, whatever requests deactivate users
\* at once: what users.service.ts:78 answers a single one of them.
LastAdministratorStays ==
  \A company \in Companies : AdminsIn[company] \cap Seeded # {} => ActiveAdmins(company) # {}

\* While the logins of a user do not overlap, the counter holds the failures since
\* the last success and the account is blocked from the limit on, however the
\* logins were cut short by failures and restarts.
FailuresAreCounted ==
  \A u \in Users \ crossed.logins :
    /\ accounts[u].failed = failures[u]
    /\ failures[u] >= MaxAttempts => accounts[u].blocked # "no"

\* Every request is answered, although a request keeps a client of the pool while
\* others wait for one: no handler waits for a second client.
RequestsAnswered == \A r \in Requests : ~At(r, "idle") ~> At(r, "idle")
=============================================================================
