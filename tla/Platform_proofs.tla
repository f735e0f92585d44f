--------------------------- MODULE Platform_proofs ---------------------------
(***************************************************************************)
(* What every request runs under, access and the registry of modules.      *)
(*                                                                         *)
(* For any number of users, companies, requests and clients: no client of  *)
(* the pool carries the company of another request, no session outlives    *)
(* what it was opened with, the failures of an account are counted and a   *)
(* company keeps an administrator, but for the logins and the              *)
(* deactivations the model names.                                          *)
(***************************************************************************)
EXTENDS Access, ModuleRegistry, FiniteSetTheorems, SequenceTheorems, TLAPS

Account == [status : {"absent", "active", "inactive"}, password : Nat, temporary : BOOLEAN,
            failed : Nat, blocked : {"no", "yes", "past"}]
Session == [user : Users, live : BOOLEAN, password : Nat, late : BOOLEAN]
Token == [user : Users, usable : BOOLEAN]

GuardSteps == {"guard", "module", "connect"}
HandlerSteps == {"check", "write"}
LineSteps == {"read", "enter", "fail", "send", "reset"} \cup GuardSteps

Login == [kind : {"login", "wrong-login"}, step : {"read"}, user : Users]
ReadLogin == [kind : {"login", "wrong-login"}, step : {"enter", "fail"}, user : Users,
              count : Nat, password : Nat]
Forgotten == [kind : {"reset-request"}, step : {"read", "send"}, user : Users]
Resetting == [kind : {"reset"}, step : {"reset"}, token : Nat]
Guarded ==
  [kind : {"logout", "work", "create"}, step : GuardSteps \cup HandlerSteps, session : Nat]
  \cup [kind : {"change"}, step : GuardSteps \cup HandlerSteps, session : Nat, right : BOOLEAN]
  \cup [kind : {"deactivate"}, step : GuardSteps \cup HandlerSteps, session : Nat, target : Users]
Request == {Idle} \cup Login \cup ReadLogin \cup Forgotten \cup Resetting \cup Guarded

\* The rows of the database.
BooksOK ==
  /\ accounts \in [Users -> Account]
  /\ sessions \in Seq(Session)
  /\ tokens \in Seq(Token)
  /\ mix \in Mixes
  /\ SessionsMatchAccounts

\* Whatever a request names is there.
Named(q) ==
  /\ q \in Guarded => q.session \in DOMAIN sessions
  /\ q \in Resetting => q.token \in DOMAIN tokens

\* The same after a step, of what it names before.
NamedThen(q) ==
  /\ q \in Guarded => q.session \in DOMAIN sessions'
  /\ q \in Resetting => q.token \in DOMAIN tokens'

RequestsOK == request \in [Requests -> Request] /\ \A r \in Requests : Named(request[r])

InLine == {waiting[i] : i \in DOMAIN waiting}

\* A request stands in the line once, and has a client only while its handler runs; a
\* client is one request's.
PoolOK ==
  /\ waiting \in Seq(Requests)
  /\ \A i, j \in DOMAIN waiting : waiting[i] = waiting[j] => i = j
  /\ \A r \in InLine : request[r].step \in LineSteps
  /\ holds \in [Requests -> Clients \cup {NoClient}]
  /\ \A r \in Requests : holds[r] # NoClient => request[r].step \in HandlerSteps
  /\ \A r, q \in Requests : holds[r] # NoClient /\ holds[r] = holds[q] => r = q
  /\ scope \in [Clients -> Companies \cup {NoCompany}]
  /\ ScopeIsOwn

AccessInv == BooksOK /\ RequestsOK /\ PoolOK

\* Sessions and tokens are added, and keep their user.
Grown ==
  /\ \A i \in DOMAIN sessions : i \in DOMAIN sessions' /\ sessions'[i].user = sessions[i].user
  /\ DOMAIN tokens \subseteq DOMAIN tokens'

\* How the line moves.
LEMMA LineMoves ==
  ASSUME waiting \in Seq(Requests), \A i, j \in DOMAIN waiting : waiting[i] = waiting[j] => i = j,
         NEW r \in Requests
  PROVE  /\ waiting # <<>> /\ Head(waiting) = r /\ waiting' = Tail(waiting) =>
              /\ waiting' \in Seq(Requests)
              /\ \A i, j \in DOMAIN waiting' : waiting'[i] = waiting'[j] => i = j
              /\ r \in InLine /\ InLine' = InLine \ {r}
         /\ waiting # <<>> /\ Head(waiting) = r /\ waiting' = Append(Tail(waiting), r) =>
              /\ waiting' \in Seq(Requests)
              /\ \A i, j \in DOMAIN waiting' : waiting'[i] = waiting'[j] => i = j
              /\ r \in InLine /\ InLine' = InLine
         /\ r \notin InLine /\ waiting' = Append(waiting, r) =>
              /\ waiting' \in Seq(Requests)
              /\ \A i, j \in DOMAIN waiting' : waiting'[i] = waiting'[j] => i = j
              /\ InLine' = InLine \cup {r}
<1>1. ASSUME waiting # <<>>, Head(waiting) = r
      PROVE  /\ Tail(waiting) \in Seq(Requests) /\ Len(Tail(waiting)) = Len(waiting) - 1
             /\ \A i \in 1 .. Len(waiting) - 1 : Tail(waiting)[i] = waiting[i + 1]
             /\ Len(waiting) \in Nat \ {0} /\ waiting[1] = r
  BY <1>1
<1>2. ASSUME waiting # <<>>, Head(waiting) = r, waiting' = Tail(waiting)
      PROVE  /\ waiting' \in Seq(Requests)
             /\ \A i, j \in DOMAIN waiting' : waiting'[i] = waiting'[j] => i = j
             /\ r \in InLine /\ InLine' = InLine \ {r}
  <2>1. /\ waiting' \in Seq(Requests) /\ Len(waiting') = Len(waiting) - 1
        /\ \A i \in 1 .. Len(waiting) - 1 : waiting'[i] = waiting[i + 1]
        /\ Len(waiting) \in Nat \ {0} /\ waiting[1] = r
    BY <1>1, <1>2
  <2>2. \A i, j \in DOMAIN waiting' : waiting'[i] = waiting'[j] => i = j
    <3> SUFFICES ASSUME NEW i \in 1 .. Len(waiting) - 1, NEW j \in 1 .. Len(waiting) - 1,
                        waiting'[i] = waiting'[j]
                 PROVE i = j
      BY <2>1
    <3>1. waiting[i + 1] = waiting[j + 1] /\ i + 1 \in DOMAIN waiting /\ j + 1 \in DOMAIN waiting
      BY <2>1
    <3>2. i + 1 = j + 1
      BY <3>1
    <3> QED
      BY <3>2
  <2>3. r \in InLine
    BY <2>1 DEF InLine
  <2>4. \A q : q \in InLine' => q \in InLine \ {r}
    BY <2>1 DEF InLine
  <2>5. \A q : q \in InLine \ {r} => q \in InLine'
    <3> SUFFICES ASSUME NEW i \in DOMAIN waiting, waiting[i] # r PROVE waiting[i] \in InLine'
      BY DEF InLine
    <3>1. i - 1 \in DOMAIN waiting' /\ waiting'[i - 1] = waiting[i]
      BY <2>1
    <3> QED
      BY <3>1 DEF InLine
  <2> QED
    BY <2>1, <2>2, <2>3, <2>4, <2>5
<1>3. ASSUME waiting # <<>>, Head(waiting) = r, waiting' = Append(Tail(waiting), r)
      PROVE  /\ waiting' \in Seq(Requests)
             /\ \A i, j \in DOMAIN waiting' : waiting'[i] = waiting'[j] => i = j
             /\ r \in InLine /\ InLine' = InLine
  <2> DEFINE n == Len(waiting)
  <2>1. /\ waiting' \in Seq(Requests) /\ Len(waiting') = n
        /\ \A i \in 1 .. n - 1 : waiting'[i] = waiting[i + 1]
        /\ n \in Nat \ {0} /\ waiting[1] = r /\ waiting'[n] = r
    BY <1>1, <1>3
  <2>2. \A i, j \in DOMAIN waiting' : waiting'[i] = waiting'[j] => i = j
    <3> SUFFICES ASSUME NEW i \in 1 .. n, NEW j \in 1 .. n, waiting'[i] = waiting'[j], i < j
                 PROVE FALSE
      BY <2>1
    <3>1. waiting'[i] = waiting[i + 1] /\ i + 1 \in 2 .. n
      BY <2>1
    <3>2. DOMAIN waiting = 1 .. n
      OBVIOUS
    <3>3. n \in Nat /\ 1 \in 1 .. n /\ i + 1 \in 1 .. n
      BY <2>1
    <3>4. CASE j = n
      <4>1. waiting'[j] = r /\ waiting[1] = r
        BY <2>1, <3>4
      <4>2. waiting[i + 1] = waiting[1]
        BY <3>1, <4>1
      <4>3. i + 1 = 1
        BY <3>2, <3>3, <4>2
      <4> QED
        BY <4>3
    <3>5. CASE j # n
      <4>1. j \in 1 .. n - 1 /\ j + 1 \in 1 .. n
        BY <3>3, <3>5
      <4>2. waiting'[j] = waiting[j + 1]
        BY <2>1, <4>1
      <4>3. waiting[i + 1] = waiting[j + 1]
        BY <3>1, <4>2
      <4>4. i + 1 = j + 1
        BY <3>2, <3>3, <4>1, <4>3
      <4> QED
        BY <4>4
    <3> QED
      BY <3>4, <3>5
  <2>3. r \in InLine /\ r \in InLine'
    BY <2>1 DEF InLine
  <2>4. \A q : q \in InLine' => q \in InLine
    <3> SUFFICES ASSUME NEW i \in DOMAIN waiting' PROVE waiting'[i] \in InLine
      BY DEF InLine
    <3>1. CASE i = n
      BY <2>1, <2>3, <3>1
    <3>2. CASE i # n
      <4>1. i \in 1 .. n - 1 /\ i + 1 \in DOMAIN waiting
        BY <2>1, <3>2
      <4>2. waiting'[i] = waiting[i + 1]
        BY <2>1, <4>1
      <4> QED
        BY <4>1, <4>2 DEF InLine
    <3> QED
      BY <3>1, <3>2
  <2>5. \A q : q \in InLine => q \in InLine'
    <3> SUFFICES ASSUME NEW i \in DOMAIN waiting, waiting[i] # r PROVE waiting[i] \in InLine'
      BY <2>3 DEF InLine
    <3>1. i - 1 \in DOMAIN waiting' /\ waiting'[i - 1] = waiting[i]
      BY <2>1
    <3> QED
      BY <3>1 DEF InLine
  <2> QED
    BY <2>1, <2>2, <2>3, <2>4, <2>5
<1>4. ASSUME r \notin InLine, waiting' = Append(waiting, r)
      PROVE  /\ waiting' \in Seq(Requests)
             /\ \A i, j \in DOMAIN waiting' : waiting'[i] = waiting'[j] => i = j
             /\ InLine' = InLine \cup {r}
  <2>1. /\ waiting' \in Seq(Requests) /\ Len(waiting') = Len(waiting) + 1 /\ Len(waiting) \in Nat
        /\ \A i \in 1 .. Len(waiting) : waiting'[i] = waiting[i]
        /\ waiting'[Len(waiting) + 1] = r
    BY <1>4
  <2>2. \A i \in DOMAIN waiting : waiting[i] # r
    BY <1>4 DEF InLine
  <2>3. \A i, j \in DOMAIN waiting' : waiting'[i] = waiting'[j] => i = j
    BY <2>1, <2>2
  <2>4. InLine' = InLine \cup {r}
    BY <2>1 DEF InLine
  <2> QED
    BY <2>1, <2>3, <2>4
<1> QED
  BY <1>2, <1>3, <1>4

\* One request goes on, and what the others name is still there.
LEMMA OneMoves ==
  ASSUME AccessInv, Grown, NEW r \in Requests, NEW new \in Request,
         request' = [request EXCEPT ![r] = new], NamedThen(new)
  PROVE  /\ RequestsOK'
         /\ request'[r] = new
         /\ \A q \in Requests \ {r} : request'[q] = request[q]
         /\ \A q \in Requests \ {r} : request[q] \in Guarded => UserOf(q)' = UserOf(q)
<1>1. request \in [Requests -> Request] /\ \A q \in Requests : Named(request[q])
  BY DEF AccessInv, RequestsOK
<1>2. request' \in [Requests -> Request] /\ request'[r] = new
      /\ \A q \in Requests \ {r} : request'[q] = request[q]
  BY <1>1
<1>3. \A q \in Requests \ {r} : Named(request[q])'
  BY <1>1, <1>2 DEF Named, Grown
<1>4. \A q \in Requests : Named(request[q])'
  BY <1>2, <1>3 DEF Named, NamedThen
<1>5. \A q \in Requests \ {r} : request[q] \in Guarded => UserOf(q)' = UserOf(q)
  BY <1>1, <1>2 DEF Named, Grown, UserOf
<1> QED
  BY <1>2, <1>4, <1>5 DEF RequestsOK

\* The step of a request says what it is.
LEMMA Steps ==
  ASSUME NEW q \in Request
  PROVE  /\ q.step \in HandlerSteps => q \in Guarded
         /\ q.step \in {"guard", "module", "connect"} => q \in Guarded
         /\ q \in Guarded => q.session \in Nat /\ q.step \in GuardSteps \cup HandlerSteps
         /\ q.step = "idle" => q \notin Guarded
         /\ q.step \in {"enter", "fail"} => q \in ReadLogin
         /\ q.step = "send" => q \in Forgotten
         /\ q.step = "reset" => q \in Resetting
BY DEF Request, Idle, Login, ReadLogin, Forgotten, Resetting, Guarded, GuardSteps, HandlerSteps

\* The requests that have a client are guarded, and stand in no line.
LEMMA HoldersHandle ==
  ASSUME AccessInv, NEW r \in Requests, holds[r] # NoClient
  PROVE  request[r] \in Guarded /\ r \notin InLine
<1>1. request[r] \in Request /\ request[r].step \in HandlerSteps
  BY DEF AccessInv, RequestsOK, PoolOK
<1>2. request[r] \in Guarded
  BY <1>1, Steps
<1>3. r \notin InLine
  BY <1>1 DEF AccessInv, PoolOK, HandlerSteps, LineSteps, GuardSteps
<1> QED
  BY <1>2, <1>3

\* A request that has no client changes its place in the line, or leaves it.
LEMMA InLineMoves ==
  ASSUME AccessInv, Grown, NEW r \in Requests, NEW new \in Request,
         request' = [request EXCEPT ![r] = new], NamedThen(new), holds[r] = NoClient,
         UNCHANGED <<holds, scope>>,
         waiting' \in Seq(Requests),
         \A i, j \in DOMAIN waiting' : waiting'[i] = waiting'[j] => i = j,
         \/ InLine' = InLine \ {r}
         \/ InLine' \subseteq InLine \cup {r} /\ new.step \in LineSteps
  PROVE  RequestsOK' /\ PoolOK'
<1>1. /\ RequestsOK'
      /\ request'[r] = new
      /\ \A q \in Requests \ {r} : request'[q] = request[q]
      /\ \A q \in Requests \ {r} : request[q] \in Guarded => UserOf(q)' = UserOf(q)
  BY OneMoves
<1>2. /\ \A q \in InLine : request[q].step \in LineSteps
      /\ \A q \in InLine' : q \in Requests
  BY DEF AccessInv, PoolOK, InLine
<1>3. \A q \in InLine' : request'[q].step \in LineSteps
  BY <1>1, <1>2
<1>4. \A q \in Requests : holds'[q] # NoClient => request'[q].step \in HandlerSteps
  BY <1>1 DEF AccessInv, PoolOK
<1>5. \A q \in Requests : holds[q] # NoClient => q # r /\ request[q] \in Guarded
  BY HoldersHandle
<1>6. \A q \in Requests : holds'[q] # NoClient => scope'[holds'[q]] = CompanyOf[UserOf(q)']
  BY <1>1, <1>5 DEF AccessInv, PoolOK, ScopeIsOwn
<1>7. ScopeIsOwn'
  BY <1>6 DEF AccessInv, PoolOK, ScopeIsOwn, FreeClients, UserOf
<1>8. PoolOK'
  BY <1>3, <1>4, <1>7 DEF AccessInv, PoolOK
<1> QED
  BY <1>1, <1>8

\* Who is at its turn has no client yet.
LEMMA TurnHasNone ==
  ASSUME AccessInv, NEW r \in Requests, r \in InLine \/ At(r, "idle")
  PROVE  holds[r] = NoClient
BY HoldersHandle, Steps DEF At, AccessInv, RequestsOK

LEMMA TurnEnds ==
  ASSUME AccessInv, Grown, NEW r \in Requests, UseOnce(r), Answered(r)
  PROVE  RequestsOK' /\ PoolOK'
<1>1. /\ waiting' \in Seq(Requests)
      /\ \A i, j \in DOMAIN waiting' : waiting'[i] = waiting'[j] => i = j
      /\ r \in InLine /\ InLine' = InLine \ {r}
  BY LineMoves DEF UseOnce, AtTurn, AccessInv, PoolOK
<1>2. Idle \in Request /\ NamedThen(Idle)
  BY Steps DEF Request, NamedThen, Idle, Guarded, Resetting
<1> QED
  BY <1>1, <1>2, TurnHasNone, InLineMoves DEF UseOnce, Answered

LEMMA AsksAgain ==
  ASSUME AccessInv, Grown, NEW r \in Requests, UseAndAskAgain(r),
         NEW new \in Request, request' = [request EXCEPT ![r] = new],
         NamedThen(new), new.step \in LineSteps
  PROVE  RequestsOK' /\ PoolOK'
<1>1. /\ waiting' \in Seq(Requests)
      /\ \A i, j \in DOMAIN waiting' : waiting'[i] = waiting'[j] => i = j
      /\ r \in InLine /\ InLine' = InLine
  BY LineMoves DEF UseAndAskAgain, AtTurn, AccessInv, PoolOK
<1> QED
  BY <1>1, TurnHasNone, InLineMoves DEF UseAndAskAgain

LEMMA Arrives ==
  ASSUME AccessInv, NEW r \in Requests, NEW new \in Request, Arrive(r, new), Named(new),
         new.step \in LineSteps
  PROVE  RequestsOK' /\ PoolOK'
<1>1. At(r, "idle") /\ Ask(r) /\ request' = [request EXCEPT ![r] = new]
      /\ UNCHANGED <<sessions, tokens>>
  BY DEF Arrive
<1>2. r \notin InLine
  BY <1>1 DEF AccessInv, PoolOK, At, LineSteps, GuardSteps
<1>3. /\ waiting' \in Seq(Requests)
      /\ \A i, j \in DOMAIN waiting' : waiting'[i] = waiting'[j] => i = j
      /\ InLine' = InLine \cup {r}
  BY <1>1, <1>2, LineMoves DEF Ask, AccessInv, PoolOK
<1>4. Grown /\ NamedThen(new)
  BY <1>1 DEF Grown, Named, NamedThen
<1> QED
  BY <1>1, <1>3, <1>4, TurnHasNone, InLineMoves DEF Ask

\* A guarded request takes a client and fixes its company in it.
LEMMA Begins ==
  ASSUME AccessInv, Grown, NEW r \in Requests, request[r] \in Guarded,
         Connect(r, CompanyOf[UserOf(r)]),
         NEW new \in Guarded, request' = [request EXCEPT ![r] = new],
         new.session = request[r].session, new.step \in HandlerSteps
  PROVE  RequestsOK' /\ PoolOK'
<1>1. PICK c \in FreeClients :
        holds' = [holds EXCEPT ![r] = c] /\ scope' = [scope EXCEPT ![c] = CompanyOf[UserOf(r)]]
  BY DEF Connect
<1>2. /\ waiting' \in Seq(Requests)
      /\ \A i, j \in DOMAIN waiting' : waiting'[i] = waiting'[j] => i = j
      /\ r \in InLine /\ InLine' = InLine \ {r}
  BY LineMoves DEF Connect, AtTurn, AccessInv, PoolOK
<1>3. Named(request[r]) /\ request[r].session \in DOMAIN sessions
  BY DEF AccessInv, RequestsOK, Named
<1>4. new \in Request /\ new \notin Resetting /\ NamedThen(new)
  BY <1>3 DEF Named, NamedThen, Grown, Request, Guarded, Resetting
<1>5. /\ RequestsOK'
      /\ request'[r] = new
      /\ \A q \in Requests \ {r} : request'[q] = request[q]
      /\ \A q \in Requests \ {r} : request[q] \in Guarded => UserOf(q)' = UserOf(q)
  BY <1>4, OneMoves
<1>6. UserOf(r)' = UserOf(r) /\ UserOf(r) \in Users
  <2>1. UserOf(r)' = UserOf(r)
    BY <1>3, <1>5 DEF UserOf, Grown
  <2>2. sessions[request[r].session] \in Session
    BY <1>3 DEF AccessInv, BooksOK
  <2> QED
    BY <2>1, <2>2 DEF UserOf, Session
<1>7. CompanyOf[UserOf(r)] \in Companies
  BY <1>6, AccessAssumption
<1>8. c \in Clients /\ c # NoClient /\ \A q \in Requests : holds[q] # c
  BY PoolAssumption DEF FreeClients
<1>9. /\ holds' \in [Requests -> Clients \cup {NoClient}]
      /\ scope' \in [Clients -> Companies \cup {NoCompany}]
      /\ holds'[r] = c /\ scope'[c] = CompanyOf[UserOf(r)]
      /\ \A q \in Requests \ {r} : holds'[q] = holds[q]
      /\ \A d \in Clients \ {c} : scope'[d] = scope[d]
  BY <1>1, <1>7, <1>8 DEF AccessInv, PoolOK
<1>10. /\ \A q \in InLine' : q \in Requests \ {r} /\ request'[q].step \in LineSteps
       /\ \A q \in Requests : holds'[q] # NoClient => request'[q].step \in HandlerSteps
       /\ \A p, q \in Requests : holds'[p] # NoClient /\ holds'[p] = holds'[q] => p = q
  <2>1. \A q \in InLine : q \in Requests
    BY DEF InLine, AccessInv, PoolOK
  <2> QED
    BY <2>1, <1>2, <1>5, <1>8, <1>9 DEF AccessInv, PoolOK
<1>11. ScopeIsOwn'
  <2>1. \A d \in FreeClients' : d \in FreeClients /\ d # c
    <3>1. holds[r] = NoClient
      BY <1>2, TurnHasNone
    <3> QED
      BY <3>1, <1>9, PoolAssumption DEF FreeClients
  <2>2. \A d \in FreeClients' : scope'[d] = NoCompany
    BY <2>1, <1>9 DEF AccessInv, PoolOK, ScopeIsOwn, FreeClients
  <2>3. \A q \in Requests : holds'[q] # NoClient => scope'[holds'[q]] = CompanyOf[UserOf(q)']
    <3> SUFFICES ASSUME NEW q \in Requests, holds'[q] # NoClient
                 PROVE scope'[holds'[q]] = CompanyOf[UserOf(q)']
      OBVIOUS
    <3>1. CASE q = r
      BY <3>1, <1>6, <1>9
    <3>2. CASE q # r
      <4>1. holds'[q] = holds[q] /\ holds[q] \in Clients \ {c}
        BY <3>2, <1>8, <1>9 DEF AccessInv, PoolOK
      <4>2. UserOf(q)' = UserOf(q)
        BY <3>2, <4>1, <1>5, HoldersHandle, PoolAssumption
      <4>3. scope[holds[q]] = CompanyOf[UserOf(q)]
        BY <4>1, PoolAssumption DEF AccessInv, PoolOK, ScopeIsOwn
      <4> QED
        BY <4>1, <4>2, <4>3, <1>9
    <3> QED
      BY <3>1, <3>2
  <2> QED
    BY <2>2, <2>3 DEF ScopeIsOwn
<1> QED
  BY <1>2, <1>5, <1>9, <1>10, <1>11 DEF PoolOK

\* A handler goes on, on the client of its request.
LEMMA Handles ==
  ASSUME AccessInv, Grown, NEW r \in Requests, OnOwnClient(r),
         NEW new \in Guarded, request' = [request EXCEPT ![r] = new],
         new.session = request[r].session, new.step \in HandlerSteps
  PROVE  RequestsOK' /\ PoolOK'
<1>1. request[r] \in Guarded /\ r \notin InLine
  BY HoldersHandle DEF OnOwnClient
<1>2. Named(request[r]) /\ request[r].session \in DOMAIN sessions
  BY <1>1 DEF AccessInv, RequestsOK, Named
<1>3. new \in Request /\ new \notin Resetting /\ NamedThen(new)
  BY <1>2 DEF Named, NamedThen, Grown, Request, Guarded, Resetting
<1>4. /\ RequestsOK'
      /\ request'[r] = new
      /\ \A q \in Requests \ {r} : request'[q] = request[q]
      /\ \A q \in Requests \ {r} : request[q] \in Guarded => UserOf(q)' = UserOf(q)
  BY <1>3, OneMoves
<1>5. UserOf(r)' = UserOf(r)
  BY <1>2, <1>4 DEF UserOf, Grown
<1>6. UNCHANGED <<waiting, holds, scope>> /\ InLine' = InLine /\ FreeClients' = FreeClients
  BY DEF OnOwnClient, poolVars, InLine, FreeClients
<1>7. \A q \in InLine : q \in Requests
  BY DEF InLine, AccessInv, PoolOK
<1>8. /\ \A q \in InLine' : request'[q].step \in LineSteps
      /\ \A q \in Requests : holds'[q] # NoClient => request'[q].step \in HandlerSteps
  BY <1>1, <1>4, <1>6, <1>7 DEF AccessInv, PoolOK
<1>9. \A q \in Requests : holds[q] # NoClient => UserOf(q)' = UserOf(q)
  BY <1>4, <1>5, HoldersHandle
<1>10. ScopeIsOwn'
  BY <1>6, <1>9 DEF AccessInv, PoolOK, ScopeIsOwn
<1> QED
  BY <1>4, <1>6, <1>8, <1>10 DEF AccessInv, PoolOK

\* A handler ends: its client is free, and nobody's.
LEMMA Ends ==
  ASSUME AccessInv, Grown, NEW r \in Requests, EndHandler(r)
  PROVE  RequestsOK' /\ PoolOK'
<1>1. request[r] \in Guarded /\ r \notin InLine /\ holds[r] \in Clients
  BY HoldersHandle DEF EndHandler, Release, AccessInv, PoolOK
<1>2. Idle \in Request /\ NamedThen(Idle)
  BY Steps DEF Request, NamedThen, Idle, Guarded, Resetting
<1>3. /\ RequestsOK'
      /\ request'[r] = Idle
      /\ \A q \in Requests \ {r} : request'[q] = request[q]
      /\ \A q \in Requests \ {r} : request[q] \in Guarded => UserOf(q)' = UserOf(q)
  BY <1>2, OneMoves DEF EndHandler, Answered
<1>4. /\ holds' \in [Requests -> Clients \cup {NoClient}]
      /\ scope' \in [Clients -> Companies \cup {NoCompany}]
      /\ holds'[r] = NoClient /\ scope'[holds[r]] = NoCompany
      /\ \A q \in Requests \ {r} : holds'[q] = holds[q]
      /\ \A d \in Clients \ {holds[r]} : scope'[d] = scope[d]
      /\ waiting' = waiting
  BY <1>1 DEF EndHandler, Release, AccessInv, PoolOK
<1>5. InLine' = InLine /\ \A q \in InLine : q \in Requests \ {r}
  BY <1>1, <1>4 DEF InLine, AccessInv, PoolOK
<1>6. /\ \A q \in InLine' : request'[q].step \in LineSteps
      /\ \A q \in Requests : holds'[q] # NoClient => request'[q].step \in HandlerSteps
      /\ \A p, q \in Requests : holds'[p] # NoClient /\ holds'[p] = holds'[q] => p = q
  BY <1>3, <1>4, <1>5 DEF AccessInv, PoolOK
<1>7. \A d \in FreeClients' : scope'[d] = NoCompany
  <2> SUFFICES ASSUME NEW d \in FreeClients' PROVE scope'[d] = NoCompany
    OBVIOUS
  <2>1. CASE d = holds[r]
    BY <2>1, <1>4
  <2>2. CASE d # holds[r]
    <3>1. d \in FreeClients
      BY <2>2, <1>4 DEF FreeClients
    <3> QED
      BY <2>2, <3>1, <1>4 DEF AccessInv, PoolOK, ScopeIsOwn, FreeClients
  <2> QED
    BY <2>1, <2>2
<1>8. \A q \in Requests : holds'[q] # NoClient => scope'[holds'[q]] = CompanyOf[UserOf(q)']
  <2> SUFFICES ASSUME NEW q \in Requests, holds'[q] # NoClient
               PROVE scope'[holds'[q]] = CompanyOf[UserOf(q)']
    OBVIOUS
  <2>1. q # r /\ holds'[q] = holds[q] /\ holds[q] \in Clients \ {holds[r]}
    BY <1>1, <1>4 DEF AccessInv, PoolOK
  <2>2. UserOf(q)' = UserOf(q)
    BY <2>1, <1>3, HoldersHandle, PoolAssumption
  <2>3. scope[holds[q]] = CompanyOf[UserOf(q)]
    BY <2>1, PoolAssumption DEF AccessInv, PoolOK, ScopeIsOwn
  <2> QED
    BY <2>1, <2>2, <2>3, <1>4
<1>9. ScopeIsOwn'
  BY <1>7, <1>8 DEF ScopeIsOwn
<1> QED
  BY <1>3, <1>4, <1>5, <1>6, <1>9 DEF AccessInv, PoolOK

\* The process starts again, with no request and no connection.
LEMMA Restarts ==
  ASSUME AccessInv, Restart
  PROVE  RequestsOK' /\ PoolOK'
<1>1. RequestsOK'
  BY DEF Restart, RequestsOK, Named, Request, Idle, Guarded, Resetting
<1>2. /\ waiting' = <<>> /\ InLine' = {}
      /\ \A q \in Requests : holds'[q] = NoClient
      /\ \A c \in Clients : scope'[c] = NoCompany
  BY DEF Restart, PoolRestart, InLine
<1>3. ScopeIsOwn'
  BY <1>2 DEF ScopeIsOwn, FreeClients
<1> QED
  BY <1>1, <1>2, <1>3 DEF Restart, PoolRestart, PoolOK

\* Time passes for the rows of the database alone.
LEMMA RequestsWait ==
  ASSUME AccessInv, Grown, UNCHANGED <<request, poolVars>>
  PROVE  RequestsOK' /\ PoolOK'
<1>1. RequestsOK'
  BY DEF AccessInv, RequestsOK, Named, Grown
<1>2. UNCHANGED <<waiting, holds, scope>> /\ InLine' = InLine /\ FreeClients' = FreeClients
  BY DEF poolVars, InLine, FreeClients
<1>3. \A q \in Requests : holds[q] # NoClient => UserOf(q)' = UserOf(q)
  BY HoldersHandle DEF UserOf, Grown, AccessInv, RequestsOK, Named
<1>4. ScopeIsOwn'
  BY <1>2, <1>3 DEF AccessInv, PoolOK, ScopeIsOwn
<1> QED
  BY <1>1, <1>2, <1>4 DEF AccessInv, PoolOK

-----------------------------------------------------------------------------
\* The rows of the database stay, or a session ends.

LEMMA BooksStay ==
  ASSUME AccessInv, UNCHANGED <<accounts, sessions, tokens, mix>>
  PROVE  BooksOK' /\ Grown
BY DEF AccessInv, BooksOK, Grown, SessionsMatchAccounts

LEMMA SessionRows ==
  ASSUME AccessInv
  PROVE  \A i \in DOMAIN sessions : sessions[i] \in Session
BY DEF AccessInv, BooksOK

LEMMA SessionsEnd ==
  ASSUME AccessInv, NEW ended, Revoke(ended)
  PROVE  /\ sessions' \in Seq(Session) /\ DOMAIN sessions' = DOMAIN sessions
         /\ \A i \in DOMAIN sessions :
              /\ sessions'[i].user = sessions[i].user
              /\ sessions'[i].password = sessions[i].password
              /\ sessions'[i].late = sessions[i].late
              /\ sessions'[i].live => sessions[i].live /\ i \notin ended
<1>1. /\ DOMAIN sessions = 1 .. Len(sessions) /\ Len(sessions) \in Nat
      /\ \A i \in DOMAIN sessions : sessions[i] \in Session
  BY DEF AccessInv, BooksOK
<1>2. \A i \in DOMAIN sessions : sessions'[i] = [sessions[i] EXCEPT !.live = @ /\ i \notin ended]
  BY DEF Revoke
<1>3. \A i \in DOMAIN sessions :
        /\ sessions'[i] \in Session
        /\ sessions'[i].user = sessions[i].user
        /\ sessions'[i].password = sessions[i].password
        /\ sessions'[i].late = sessions[i].late
        /\ sessions'[i].live => sessions[i].live /\ i \notin ended
  BY <1>1, <1>2 DEF Session
<1>4. sessions' \in [1 .. Len(sessions) -> Session]
  BY <1>1, <1>3 DEF Revoke
<1>5. sessions' \in Seq(Session)
  BY <1>1, <1>4, SeqDef
<1>6. DOMAIN sessions' = DOMAIN sessions
  BY DEF Revoke
<1> QED
  BY <1>3, <1>5, <1>6

\* What matches still does, when the accounts of the sessions that can be used keep
\* what they are matched with.
LEMMA StillMatched ==
  ASSUME AccessInv, accounts' \in [Users -> Account], sessions' \in Seq(Session),
         tokens' \in Seq(Token), UNCHANGED mix, Grown,
         \A i \in DOMAIN sessions' : sessions'[i].live /\ ~sessions'[i].late =>
           \/ /\ i \in DOMAIN sessions /\ sessions[i].live /\ ~sessions[i].late
              /\ accounts'[sessions[i].user].status = accounts[sessions[i].user].status
              /\ accounts'[sessions[i].user].password - accounts[sessions[i].user].password
                   = sessions'[i].password - sessions[i].password
           \/ /\ accounts'[sessions'[i].user].status = "active"
              /\ accounts'[sessions'[i].user].password = sessions'[i].password
  PROVE  BooksOK'
<1>1. SUFFICES ASSUME NEW i \in DOMAIN sessions', sessions'[i].live, ~sessions'[i].late
               PROVE  /\ accounts'[sessions'[i].user].status = "active"
                      /\ accounts'[sessions'[i].user].password = sessions'[i].password
  BY DEF BooksOK, SessionsMatchAccounts, AccessInv
<1>2. CASE /\ i \in DOMAIN sessions /\ sessions[i].live /\ ~sessions[i].late
           /\ accounts'[sessions[i].user].status = accounts[sessions[i].user].status
           /\ accounts'[sessions[i].user].password - accounts[sessions[i].user].password
                = sessions'[i].password - sessions[i].password
  <2>1. /\ accounts[sessions[i].user].status = "active"
        /\ accounts[sessions[i].user].password = sessions[i].password
    BY <1>2 DEF AccessInv, BooksOK, SessionsMatchAccounts
  <2>2. sessions'[i].user = sessions[i].user
    BY <1>2 DEF Grown
  <2>3. sessions[i] \in Session /\ sessions'[i] \in Session
    BY <1>2 DEF AccessInv, BooksOK
  <2>4. accounts[sessions[i].user] \in Account /\ accounts'[sessions[i].user] \in Account
    BY <2>3 DEF Session, AccessInv, BooksOK
  <2>5. /\ sessions[i].password \in Int /\ sessions'[i].password \in Int
        /\ accounts'[sessions[i].user].password \in Int
    BY <2>3, <2>4 DEF Session, Account
  <2> QED
    BY <1>2, <2>1, <2>2, <2>5
<1> QED
  BY <1>1, <1>2

\* An account changes in what no session is matched with.
LEMMA AccountsCount ==
  ASSUME AccessInv, NEW u \in Users, NEW failed \in Nat, NEW blocked \in {"no", "yes", "past"},
         accounts' = [accounts EXCEPT ![u].failed = failed, ![u].blocked = blocked]
  PROVE  /\ accounts' \in [Users -> Account]
         /\ \A v \in Users : /\ accounts'[v].status = accounts[v].status
                             /\ accounts'[v].password = accounts[v].password
<1>1. accounts \in [Users -> Account]
  BY DEF AccessInv, BooksOK
<1>2. accounts[u] \in Account /\ DOMAIN accounts = Users
  BY <1>1
<1>3. accounts'[u] = [accounts[u] EXCEPT !.failed = failed, !.blocked = blocked]
  BY <1>2
<1>4. accounts'[u] \in Account /\ accounts'[u].status = accounts[u].status
      /\ accounts'[u].password = accounts[u].password
  BY <1>2, <1>3 DEF Account
<1>5. \A v \in Users \ {u} : accounts'[v] = accounts[v]
  BY <1>1
<1> QED
  BY <1>1, <1>4, <1>5

\* Of one account, the password is another.
LEMMA PasswordMoves ==
  ASSUME AccessInv, NEW u \in Users, NewPassword(u)
  PROVE  /\ accounts' \in [Users -> Account]
         /\ accounts'[u].status = accounts[u].status
         /\ accounts'[u].password = accounts[u].password + 1
         /\ \A v \in Users \ {u} : accounts'[v] = accounts[v]
<1>1. accounts \in [Users -> Account]
  BY DEF AccessInv, BooksOK
<1>2. accounts[u] \in Account /\ DOMAIN accounts = Users
  BY <1>1
<1> DEFINE next == accounts[u].password + 1
<1>3. accounts'[u] = [accounts[u] EXCEPT !.password = next, !.temporary = FALSE] /\ next \in Nat
  BY <1>2 DEF NewPassword, Account
<1>4. accounts'[u] \in Account /\ accounts'[u].status = accounts[u].status
      /\ accounts'[u].password = next
  <2> HIDE DEF next
  <2> QED
    BY <1>2, <1>3 DEF Account
<1>5. \A v \in Users \ {u} : accounts'[v] = accounts[v]
  BY <1>1 DEF NewPassword
<1> QED
  BY <1>1, <1>4, <1>5, <1>2 DEF NewPassword

-----------------------------------------------------------------------------
\* Logins.

LEMMA LoginReadKeeps ==
  ASSUME AccessInv, NEW r \in Requests, LoginRead(r)
  PROVE  AccessInv'
<1>1. BooksOK' /\ Grown
  BY BooksStay DEF LoginRead
<1>2. request[r] \in Login
  BY DEF LoginRead, At, Logins, InFlight, AccessInv, RequestsOK, Request, Idle, Login, ReadLogin,
         Forgotten, Resetting, Guarded, GuardSteps, HandlerSteps
<1> DEFINE u == request[r].user
<1>3. u \in Users /\ accounts[u] \in Account
  BY <1>2 DEF Login, AccessInv, BooksOK
<1>4. CASE UseOnce(r) /\ Answered(r)
  BY <1>1, <1>4, TurnEnds DEF AccessInv
<1>5. ASSUME NEW step \in {"enter", "fail"}, UseAndAskAgain(r),
             request' = [request EXCEPT ![r] = [kind |-> @.kind, step |-> step, user |-> u,
                           count |-> accounts[u].failed, password |-> accounts[u].password]]
      PROVE  AccessInv'
  <2> DEFINE new == [kind |-> request[r].kind, step |-> step, user |-> u,
                     count |-> accounts[u].failed, password |-> accounts[u].password]
  <2>1. new \in ReadLogin
    BY <1>2, <1>3 DEF Login, ReadLogin, Account
  <2>2. new \in Request /\ NamedThen(new)
    BY <2>1 DEF Request, ReadLogin, NamedThen, Guarded, Resetting
  <2>3. request' = [request EXCEPT ![r] = new]
    BY <1>5
  <2>4. new.step \in LineSteps
    BY DEF LineSteps
  <2> HIDE DEF new
  <2> QED
    BY <1>1, <1>5, <2>2, <2>3, <2>4, AsksAgain DEF AccessInv
<1> QED
  BY <1>4, <1>5 DEF LoginRead

LEMMA LoginFailKeeps ==
  ASSUME AccessInv, NEW r \in Requests, LoginFail(r)
  PROVE  AccessInv'
<1> DEFINE u == request[r].user
<1>1. request[r] \in ReadLogin
  BY Steps DEF LoginFail, At, AccessInv, RequestsOK
<1>2. u \in Users /\ request[r].count + 1 \in Nat
  BY <1>1 DEF ReadLogin
<1>3. /\ accounts' \in [Users -> Account]
      /\ \A v \in Users : /\ accounts'[v].status = accounts[v].status
                          /\ accounts'[v].password = accounts[v].password
  <2> DEFINE blocked == IF request[r].count + 1 >= MaxAttempts THEN "yes" ELSE "no"
  <2>1. blocked \in {"no", "yes", "past"}
    OBVIOUS
  <2>2. accounts' = [accounts EXCEPT ![u].failed = request[r].count + 1, ![u].blocked = blocked]
    BY DEF LoginFail
  <2> HIDE DEF blocked
  <2> QED
    BY <1>2, <2>1, <2>2, AccountsCount
<1>4. UNCHANGED <<sessions, tokens, mix>> /\ Grown
  BY DEF LoginFail, Grown
<1>5. \A i \in DOMAIN sessions : sessions[i].user \in Users /\ sessions[i].password \in Int
  BY SessionRows DEF Session
<1>6. BooksOK'
  <2>1. \A v \in Users : accounts[v].password \in Int
    BY DEF AccessInv, BooksOK, Account
  <2> QED
    BY <1>3, <1>4, <1>5, <2>1, StillMatched DEF AccessInv, BooksOK
<1> QED
  BY <1>4, <1>6, TurnEnds DEF LoginFail, AccessInv

LEMMA LoginEnterKeeps ==
  ASSUME AccessInv, NEW r \in Requests, LoginEnter(r)
  PROVE  AccessInv'
<1> DEFINE u == request[r].user
           late == accounts[u].status # "active" \/ accounts[u].password # request[r].password
           row == [user |-> u, live |-> TRUE, password |-> request[r].password, late |-> late]
<1>1. request[r] \in ReadLogin
  BY Steps DEF LoginEnter, At, AccessInv, RequestsOK
<1>2. u \in Users /\ request[r].password \in Nat
  BY <1>1 DEF ReadLogin
<1>3. /\ accounts' \in [Users -> Account]
      /\ \A v \in Users : /\ accounts'[v].status = accounts[v].status
                          /\ accounts'[v].password = accounts[v].password
  BY <1>2, AccountsCount DEF LoginEnter
<1>4. late \in BOOLEAN
  OBVIOUS
<1>5. row \in Session /\ row.user = u /\ row.password = request[r].password /\ row.late = late
  BY <1>2, <1>4 DEF Session
<1>6. sessions' = Append(sessions, row) /\ UNCHANGED <<tokens, mix>>
  BY DEF LoginEnter
<1>7. ~row.late => accounts[u].status = "active" /\ accounts[u].password = row.password
  BY <1>5
<1> HIDE DEF row, late
<1>8. /\ sessions' \in Seq(Session)
      /\ \A i \in DOMAIN sessions : i \in DOMAIN sessions' /\ sessions'[i] = sessions[i]
      /\ \A i \in DOMAIN sessions' : i \in DOMAIN sessions \/ sessions'[i] = row
  BY <1>5, <1>6 DEF AccessInv, BooksOK
<1>9. Grown
  BY <1>6, <1>8 DEF Grown
<1>10. BooksOK'
  <2>1. \A v \in Users : accounts[v].password \in Int
    BY DEF AccessInv, BooksOK, Account
  <2>2. \A i \in DOMAIN sessions : sessions[i].user \in Users /\ sessions[i].password \in Int
    BY SessionRows DEF Session
  <2>3. \A i \in DOMAIN sessions' : sessions'[i].live /\ ~sessions'[i].late =>
           \/ /\ i \in DOMAIN sessions /\ sessions[i].live /\ ~sessions[i].late
              /\ accounts'[sessions[i].user].status = accounts[sessions[i].user].status
              /\ accounts'[sessions[i].user].password - accounts[sessions[i].user].password
                   = sessions'[i].password - sessions[i].password
           \/ /\ accounts'[sessions'[i].user].status = "active"
              /\ accounts'[sessions'[i].user].password = sessions'[i].password
    BY <1>2, <1>3, <1>5, <1>7, <1>8, <2>1, <2>2
  <2> QED
    BY <1>3, <1>6, <1>8, <1>9, <2>3, StillMatched DEF AccessInv, BooksOK
<1> QED
  BY <1>9, <1>10, TurnEnds DEF LoginEnter, AccessInv

-----------------------------------------------------------------------------
\* Arrivals, and the steps that write no row.

LEMMA ArriveKeeps ==
  ASSUME AccessInv, NEW r \in Requests, NEW new \in Request, Arrive(r, new), Named(new),
         new.step \in LineSteps
  PROVE  AccessInv'
BY Arrives, BooksStay DEF Arrive, AccessInv

LEMMA ArriveAnyKeeps ==
  ASSUME AccessInv, NEW r \in Requests, ArriveAny(r)
  PROVE  AccessInv'
<1>1. mix.users \subseteq Users
  BY AccessAssumption DEF AccessInv, BooksOK
<1>2. ASSUME NEW u \in mix.users, NEW kind \in {"login", "wrong-login"},
             Arrive(r, [kind |-> kind, step |-> "read", user |-> u])
      PROVE  AccessInv'
  <2> DEFINE new == [kind |-> kind, step |-> "read", user |-> u]
  <2>1. new \in Login /\ new \notin Guarded /\ new \notin Resetting /\ new.step \in LineSteps
    BY <1>1 DEF Login, Guarded, Resetting, LineSteps
  <2> HIDE DEF new
  <2> QED
    BY <1>2, <2>1, ArriveKeeps DEF Request, Named, new
<1>3. ASSUME NEW u \in mix.users, Arrive(r, [kind |-> "reset-request", step |-> "read", user |-> u])
      PROVE  AccessInv'
  <2> DEFINE new == [kind |-> "reset-request", step |-> "read", user |-> u]
  <2>1. new \in Forgotten /\ new \notin Guarded /\ new \notin Resetting /\ new.step \in LineSteps
    BY <1>1 DEF Forgotten, Guarded, Resetting, LineSteps
  <2> HIDE DEF new
  <2> QED
    BY <1>3, <2>1, ArriveKeeps DEF Request, Named, new
<1>4. ASSUME NEW t \in DOMAIN tokens, Arrive(r, [kind |-> "reset", step |-> "reset", token |-> t])
      PROVE  AccessInv'
  <2> DEFINE new == [kind |-> "reset", step |-> "reset", token |-> t]
  <2>1. t \in Nat
    BY DEF AccessInv, BooksOK
  <2>2. new \in Resetting /\ new \notin Guarded /\ new.token = t /\ new.step \in LineSteps
    BY <2>1 DEF Guarded, Resetting, LineSteps
  <2> HIDE DEF new
  <2> QED
    BY <1>4, <2>2, ArriveKeeps DEF Request, Named, new
<1>5. ASSUME NEW n \in DOMAIN sessions, NEW new \in Guarded, new.session = n, new.step = "guard",
             Arrive(r, new)
      PROVE  AccessInv'
  <2>1. new \notin Resetting /\ new.step \in LineSteps
    BY <1>5 DEF Guarded, Resetting, LineSteps, GuardSteps
  <2> QED
    BY <1>5, <2>1, ArriveKeeps DEF Request, Named
<1>6. \A n \in DOMAIN sessions : n \in Nat
  BY DEF AccessInv, BooksOK
<1>7. ASSUME NEW n \in DOMAIN sessions, NEW kind \in {"logout", "work", "create"},
             Arrive(r, [kind |-> kind, step |-> "guard", session |-> n])
      PROVE  AccessInv'
  <2> DEFINE new == [kind |-> kind, step |-> "guard", session |-> n]
  <2>1. new \in Guarded /\ new.session = n /\ new.step = "guard"
    BY <1>6 DEF Guarded, GuardSteps
  <2> HIDE DEF new
  <2> QED
    BY <1>5, <1>7, <2>1 DEF new
<1>8. ASSUME NEW n \in DOMAIN sessions, NEW right \in BOOLEAN,
             Arrive(r, [kind |-> "change", step |-> "guard", session |-> n, right |-> right])
      PROVE  AccessInv'
  <2> DEFINE new == [kind |-> "change", step |-> "guard", session |-> n, right |-> right]
  <2>1. new \in Guarded /\ new.session = n /\ new.step = "guard"
    BY <1>6 DEF Guarded, GuardSteps
  <2> HIDE DEF new
  <2> QED
    BY <1>5, <1>8, <2>1 DEF new
<1>9. ASSUME NEW n \in DOMAIN sessions, NEW u \in mix.users,
             Arrive(r, [kind |-> "deactivate", step |-> "guard", session |-> n, target |-> u])
      PROVE  AccessInv'
  <2> DEFINE new == [kind |-> "deactivate", step |-> "guard", session |-> n, target |-> u]
  <2>1. new \in Guarded /\ new.session = n /\ new.step = "guard"
    BY <1>1, <1>6 DEF Guarded, GuardSteps
  <2> HIDE DEF new
  <2> QED
    BY <1>5, <1>9, <2>1 DEF new
<1> QED
  BY <1>2, <1>3, <1>4, <1>7, <1>8, <1>9
  DEF ArriveAny, ArriveLogin, ArriveResetRequest, ArriveReset, ArriveGuarded

LEMMA GoesOn ==
  ASSUME NEW q \in Guarded, NEW step \in GuardSteps \cup HandlerSteps
  PROVE  LET new == [q EXCEPT !.step = step]
         IN  new \in Guarded /\ new.step = step /\ new.session = q.session
<1> DEFINE new == [q EXCEPT !.step = step]
<1>1. CASE q \in [kind : {"logout", "work", "create"}, step : GuardSteps \cup HandlerSteps, session : Nat]
  BY <1>1 DEF Guarded
<1>2. CASE q \in [kind : {"change"}, step : GuardSteps \cup HandlerSteps, session : Nat, right : BOOLEAN]
  BY <1>2 DEF Guarded
<1>3. CASE q \in [kind : {"deactivate"}, step : GuardSteps \cup HandlerSteps, session : Nat, target : Users]
  BY <1>3 DEF Guarded
<1> QED
  BY <1>1, <1>2, <1>3 DEF Guarded

LEMMA GuardGoesOn ==
  ASSUME AccessInv, Grown, NEW r \in Requests, request[r] \in Guarded, UseAndAskAgain(r),
         NEW step \in GuardSteps, Becomes(r, step)
  PROVE  RequestsOK' /\ PoolOK'
<1> DEFINE new == [request[r] EXCEPT !.step = step]
<1>1. new \in Guarded /\ new.step = step /\ new.session = request[r].session
  BY GoesOn
<1>2. request' = [request EXCEPT ![r] = new]
  BY DEF Becomes
<1>3. request[r].session \in DOMAIN sessions
  BY DEF AccessInv, RequestsOK, Named
<1> HIDE DEF new
<1>4. new \in Request /\ new \notin Resetting /\ new.step \in LineSteps
  BY <1>1 DEF Request, Guarded, Resetting, LineSteps
<1>5. NamedThen(new)
  BY <1>1, <1>3, <1>4 DEF NamedThen, Grown
<1> QED
  BY <1>2, <1>4, <1>5, AsksAgain

LEMMA HandlerGoesOn ==
  ASSUME AccessInv, Grown, NEW r \in Requests, OnOwnClient(r),
         NEW step \in HandlerSteps, Becomes(r, step)
  PROVE  RequestsOK' /\ PoolOK'
<1> DEFINE new == [request[r] EXCEPT !.step = step]
<1>1. request[r] \in Guarded
  BY HoldersHandle DEF OnOwnClient
<1>2. new \in Guarded /\ new.step = step /\ new.session = request[r].session
  BY <1>1, GoesOn
<1>3. request' = [request EXCEPT ![r] = new]
  BY DEF Becomes
<1> HIDE DEF new
<1> QED
  BY <1>2, <1>3, Handles

\* The steps of the guard and the checks of the handlers.
LEMMA ChecksKeep ==
  ASSUME AccessInv, NEW r \in Requests,
         \/ ResetRequestRead(r) \/ Guard(r) \/ GuardModule(r) \/ Begin(r)
         \/ ChangeCheck(r) \/ DeactivateCheck(r) \/ Work(r) \/ Fail(r)
  PROVE  AccessInv'
<1>1. BooksOK' /\ Grown
  BY BooksStay
  DEF ResetRequestRead, Guard, GuardModule, Begin, ChangeCheck, DeactivateCheck, Work, Fail
<1>2. request[r] \in Request /\ Named(request[r])
  BY DEF AccessInv, RequestsOK
<1>3. CASE ResetRequestRead(r)
  <2>1. request[r] \in Forgotten
    BY <1>2, <1>3
    DEF ResetRequestRead, At, Request, Idle, Login, ReadLogin, Forgotten, Resetting, Guarded
  <2>2. CASE UseAndAskAgain(r) /\ Becomes(r, "send")
    <3> DEFINE new == [request[r] EXCEPT !.step = "send"]
    <3>1. new \in Forgotten /\ new \notin Guarded /\ new \notin Resetting /\ new.step = "send"
      BY <2>1 DEF Forgotten, Guarded, Resetting
    <3>2. request' = [request EXCEPT ![r] = new]
      BY <2>2 DEF Becomes
    <3> HIDE DEF new
    <3>3. new \in Request /\ NamedThen(new) /\ new.step \in LineSteps
      BY <3>1 DEF Request, NamedThen, LineSteps
    <3> QED
      BY <1>1, <2>2, <3>2, <3>3, AsksAgain DEF AccessInv
  <2>3. CASE UseOnce(r) /\ Answered(r)
    BY <1>1, <2>3, TurnEnds DEF AccessInv
  <2> QED
    BY <1>3, <2>2, <2>3 DEF ResetRequestRead
<1>4. CASE Guard(r) \/ GuardModule(r)
  <2>1. request[r] \in Guarded
    BY <1>2, <1>4, Steps DEF Guard, GuardModule, At
  <2>2. CASE UseOnce(r) /\ Answered(r)
    BY <1>1, <2>2, TurnEnds DEF AccessInv
  <2>3. ASSUME NEW step \in GuardSteps, UseAndAskAgain(r), Becomes(r, step) PROVE AccessInv'
    BY <1>1, <2>1, <2>3, GuardGoesOn DEF AccessInv
  <2> QED
    BY <1>4, <2>2, <2>3 DEF Guard, GuardModule, GuardSteps
<1>5. CASE Begin(r)
  <2>1. request[r] \in Guarded
    BY <1>2, <1>5, Steps DEF Begin, At
  <2>2. ASSUME NEW step \in HandlerSteps, Becomes(r, step), Connect(r, CompanyOf[UserOf(r)])
        PROVE  AccessInv'
    <3> DEFINE new == [request[r] EXCEPT !.step = step]
    <3>1. new \in Guarded /\ new.step = step /\ new.session = request[r].session
      BY <2>1, GoesOn
    <3>2. request' = [request EXCEPT ![r] = new]
      BY <2>2 DEF Becomes
    <3> HIDE DEF new
    <3> QED
      BY <1>1, <2>1, <2>2, <3>1, <3>2, Begins DEF AccessInv
  <2> QED
    BY <1>5, <2>2 DEF Begin, HandlerSteps
<1>6. CASE ChangeCheck(r) \/ DeactivateCheck(r)
  <2>1. CASE EndHandler(r)
    BY <1>1, <2>1, Ends DEF AccessInv
  <2>2. CASE OnOwnClient(r) /\ Becomes(r, "write")
    BY <1>1, <2>2, HandlerGoesOn DEF AccessInv, HandlerSteps
  <2> QED
    BY <1>6, <2>1, <2>2 DEF ChangeCheck, DeactivateCheck
<1>7. CASE Work(r)
  BY <1>1, <1>7, Ends DEF Work, AccessInv
<1>8. CASE Fail(r)
  BY <1>1, <1>8, TurnEnds, Ends DEF Fail, EndHandler, AccessInv
<1> QED
  BY <1>3, <1>4, <1>5, <1>6, <1>7, <1>8

-----------------------------------------------------------------------------
\* The steps that write.

LEMMA TokensKeep ==
  ASSUME AccessInv, tokens' \in Seq(Token), DOMAIN tokens \subseteq DOMAIN tokens',
         UNCHANGED <<accounts, sessions, mix>>
  PROVE  BooksOK' /\ Grown
BY DEF AccessInv, BooksOK, Grown, SessionsMatchAccounts

LEMMA SendKeeps ==
  ASSUME AccessInv, NEW r \in Requests, ResetRequestSend(r)
  PROVE  AccessInv'
<1>1. request[r] \in Forgotten
  BY Steps DEF ResetRequestSend, At, AccessInv, RequestsOK
<1>2. [user |-> request[r].user, usable |-> TRUE] \in Token
  BY <1>1 DEF Forgotten, Token
<1>3. tokens' \in Seq(Token) /\ DOMAIN tokens \subseteq DOMAIN tokens'
  BY <1>2 DEF ResetRequestSend, AccessInv, BooksOK
<1> QED
  BY <1>3, TokensKeep, TurnEnds DEF ResetRequestSend, AccessInv

LEMMA UsedTokens ==
  ASSUME AccessInv, NEW t \in DOMAIN tokens, tokens' = [tokens EXCEPT ![t].usable = FALSE]
  PROVE  tokens' \in Seq(Token) /\ DOMAIN tokens' = DOMAIN tokens
<1>1. /\ DOMAIN tokens = 1 .. Len(tokens) /\ Len(tokens) \in Nat
      /\ \A i \in DOMAIN tokens : tokens[i] \in Token
  BY DEF AccessInv, BooksOK
<1>2. [tokens[t] EXCEPT !.usable = FALSE] \in Token
  BY <1>1 DEF Token
<1>3. \A i \in DOMAIN tokens : tokens'[i] \in Token
  BY <1>1, <1>2
<1>4. tokens' \in [1 .. Len(tokens) -> Token]
  BY <1>1, <1>3
<1> QED
  BY <1>1, <1>4, SeqDef

\* The sessions of a user end with the password they were opened with.
LEMMA ResetKeeps ==
  ASSUME AccessInv, NEW r \in Requests, Reset(r)
  PROVE  AccessInv'
<1> DEFINE t == request[r].token
           u == tokens[t].user
<1>1. request[r] \in Resetting
  BY Steps DEF Reset, At, AccessInv, RequestsOK
<1>2. t \in DOMAIN tokens /\ tokens[t] \in Token
  BY <1>1 DEF AccessInv, RequestsOK, Named, BooksOK
<1>3. u \in Users
  BY <1>2 DEF Token
<1>4. CASE UNCHANGED <<accounts, sessions, tokens>>
  BY <1>4, BooksStay, TurnEnds DEF Reset, AccessInv
<1>5. CASE tokens' = [tokens EXCEPT ![t].usable = FALSE] /\ NewPassword(u) /\ Revoke(SessionsOf(u))
  <2>1. tokens' \in Seq(Token) /\ DOMAIN tokens' = DOMAIN tokens
    BY <1>2, <1>5, UsedTokens
  <2>2. /\ accounts' \in [Users -> Account]
        /\ \A v \in Users \ {u} : accounts'[v] = accounts[v]
    BY <1>3, <1>5, PasswordMoves
  <2> DEFINE ended == SessionsOf(u)
  <2>3. /\ sessions' \in Seq(Session) /\ DOMAIN sessions' = DOMAIN sessions
        /\ \A i \in DOMAIN sessions :
             /\ sessions'[i].user = sessions[i].user
             /\ sessions'[i].password = sessions[i].password
             /\ sessions'[i].late = sessions[i].late
             /\ sessions'[i].live => sessions[i].live /\ i \notin ended
    <3> HIDE DEF ended
    <3> QED
      BY <1>5, SessionsEnd DEF ended
  <2>4. Grown
    BY <2>1, <2>3 DEF Grown
  <2>5. \A i \in DOMAIN sessions : sessions[i].user \in Users /\ sessions[i].password \in Int
    BY SessionRows DEF Session
  <2>6. \A v \in Users : accounts[v].password \in Int
    BY DEF AccessInv, BooksOK, Account
  <2>7. BooksOK'
    BY <2>1, <2>2, <2>3, <2>4, <2>5, <2>6, StillMatched DEF Reset, SessionsOf
  <2> QED
    BY <2>4, <2>7, TurnEnds DEF Reset, AccessInv
<1> QED
  BY <1>4, <1>5 DEF Reset

LEMMA LogoutKeeps ==
  ASSUME AccessInv, NEW ended, Revoke(ended), UNCHANGED <<accounts, tokens, mix>>
  PROVE  BooksOK' /\ Grown
<1>1. /\ sessions' \in Seq(Session) /\ DOMAIN sessions' = DOMAIN sessions
      /\ \A i \in DOMAIN sessions :
           /\ sessions'[i].user = sessions[i].user
           /\ sessions'[i].password = sessions[i].password
           /\ sessions'[i].late = sessions[i].late
           /\ sessions'[i].live => sessions[i].live
  BY SessionsEnd
<1> QED
  BY <1>1 DEF AccessInv, BooksOK, Grown, SessionsMatchAccounts

\* The session of the request goes on with the new password, the others end.
LEMMA ChangeKeeps ==
  ASSUME AccessInv, NEW r \in Requests, Change(r)
  PROVE  AccessInv'
<1> DEFINE own == request[r].session
           u == UserOf(r)
           next == accounts[u].password + 1
<1>1. request[r] \in Guarded /\ own \in DOMAIN sessions
  BY HoldersHandle DEF Change, EndHandler, Release, AccessInv, RequestsOK, Named
<1>2. u \in Users
  BY <1>1, SessionRows DEF UserOf, Session
<1>3. /\ accounts' \in [Users -> Account]
      /\ accounts'[u].status = accounts[u].status
      /\ accounts'[u].password = next
      /\ \A v \in Users \ {u} : accounts'[v] = accounts[v]
  BY <1>2, PasswordMoves DEF Change
<1>4. next \in Nat
  BY <1>2 DEF AccessInv, BooksOK, Account
<1>5. /\ DOMAIN sessions' = DOMAIN sessions
      /\ \A i \in DOMAIN sessions : sessions'[i] =
           IF sessions[i].user # u THEN sessions[i]
           ELSE IF i = own THEN [sessions[i] EXCEPT !.password = next]
           ELSE [sessions[i] EXCEPT !.live = FALSE]
  BY DEF Change
<1> HIDE DEF next, u, own
<1>6. ASSUME NEW i \in DOMAIN sessions
      PROVE  /\ sessions'[i] \in Session
             /\ sessions'[i].user = sessions[i].user
             /\ sessions'[i].late = sessions[i].late
             /\ sessions'[i].live => sessions[i].live
             /\ sessions[i].user # u => sessions'[i].password = sessions[i].password
             /\ sessions[i].user = u /\ sessions'[i].live => sessions'[i].password = next
  <2>1. sessions[i] \in Session
    BY SessionRows
  <2>2. CASE sessions[i].user # u
    BY <1>5, <2>1, <2>2
  <2>3. CASE sessions[i].user = u /\ i = own
    <3>1. sessions'[i] = [sessions[i] EXCEPT !.password = next]
      BY <1>5, <2>3
    <3> QED
      BY <1>4, <2>1, <2>3, <3>1 DEF Session
  <2>4. CASE sessions[i].user = u /\ i # own
    <3>1. sessions'[i] = [sessions[i] EXCEPT !.live = FALSE]
      BY <1>5, <2>4
    <3> QED
      BY <2>1, <2>4, <3>1 DEF Session
  <2> QED
    BY <2>2, <2>3, <2>4
<1>7. sessions' \in Seq(Session)
  <2>1. DOMAIN sessions = 1 .. Len(sessions) /\ Len(sessions) \in Nat
    BY DEF AccessInv, BooksOK
  <2>2. sessions' \in [1 .. Len(sessions) -> Session]
    BY <1>5, <1>6, <2>1 DEF Change
  <2> QED
    BY <2>1, <2>2, SeqDef
<1>8. UNCHANGED <<tokens, mix>> /\ Grown
  BY <1>5, <1>6 DEF Change, Grown
<1>9. SessionsMatchAccounts'
  <2> SUFFICES ASSUME NEW i \in DOMAIN sessions, sessions'[i].live, ~sessions'[i].late
               PROVE  /\ accounts'[sessions'[i].user].status = "active"
                      /\ accounts'[sessions'[i].user].password = sessions'[i].password
    BY <1>5 DEF SessionsMatchAccounts
  <2>1. /\ accounts[sessions[i].user].status = "active"
        /\ accounts[sessions[i].user].password = sessions[i].password
    BY <1>6 DEF AccessInv, BooksOK, SessionsMatchAccounts
  <2>2. sessions[i].user \in Users
    BY SessionRows DEF Session
  <2> QED
    BY <1>3, <1>6, <2>1, <2>2
<1>10. BooksOK'
  BY <1>3, <1>7, <1>8, <1>9 DEF AccessInv, BooksOK
<1> QED
  BY <1>8, <1>10, Ends DEF Change, AccessInv

\* Nobody has a session of an account that is not there.
LEMMA CreateKeeps ==
  ASSUME AccessInv, NEW r \in Requests, Create(r)
  PROVE  AccessInv'
<1>1. PICK u \in mix.users : accounts' = IF accounts[u].status = "absent"
                                         THEN [accounts EXCEPT ![u] = NewAccount(TRUE, TRUE)]
                                         ELSE accounts
  BY DEF Create
<1>2. u \in Users
  BY <1>1, AccessAssumption DEF AccessInv, BooksOK
<1>3. NewAccount(TRUE, TRUE) \in Account
  BY DEF NewAccount, Account
<1>4. /\ accounts' \in [Users -> Account]
      /\ \A v \in Users : accounts[v].status # "absent" => accounts'[v] = accounts[v]
  BY <1>1, <1>2, <1>3 DEF AccessInv, BooksOK
<1>5. UNCHANGED <<sessions, tokens, mix>> /\ Grown
  BY DEF Create, Grown
<1>6. BooksOK'
  <2>1. \A i \in DOMAIN sessions : sessions[i].user \in Users
    BY SessionRows DEF Session
  <2>2. SessionsMatchAccounts'
    BY <1>4, <1>5, <2>1 DEF AccessInv, BooksOK, SessionsMatchAccounts
  <2> QED
    BY <1>4, <1>5, <2>2 DEF AccessInv, BooksOK
<1> QED
  BY <1>5, <1>6, Ends DEF Create, AccessInv

\* The sessions of who is deactivated end.
LEMMA DeactivateKeeps ==
  ASSUME AccessInv, NEW r \in Requests, Deactivate(r)
  PROVE  AccessInv'
<1> DEFINE target == request[r].target
           next == IF accounts[target].status = "absent" THEN "absent" ELSE "inactive"
<1>1. request[r] \in Guarded
  BY HoldersHandle DEF Deactivate, EndHandler, Release
<1>2. target \in Users
  BY <1>1 DEF Deactivate, Guarded
<1>3. accounts \in [Users -> Account]
  BY DEF AccessInv, BooksOK
<1>4. accounts' = [accounts EXCEPT ![target].status = next]
  BY DEF Deactivate
<1>5. next \in {"absent", "active", "inactive"}
  OBVIOUS
<1>6. Revoke(SessionsOf(target)) /\ UNCHANGED <<tokens, mix>>
  BY DEF Deactivate
<1> HIDE DEF next, target
<1>7. [accounts[target] EXCEPT !.status = next] \in Account
  <2>1. accounts[target] \in Account
    BY <1>2, <1>3
  <2> QED
    BY <1>5, <2>1 DEF Account
<1>8. accounts' \in [Users -> Account] /\ \A v \in Users \ {target} : accounts'[v] = accounts[v]
  BY <1>3, <1>4, <1>7
<1> DEFINE ended == SessionsOf(target)
<1>9. /\ sessions' \in Seq(Session) /\ DOMAIN sessions' = DOMAIN sessions
      /\ \A i \in DOMAIN sessions :
           /\ sessions'[i].user = sessions[i].user
           /\ sessions'[i].password = sessions[i].password
           /\ sessions'[i].late = sessions[i].late
           /\ sessions'[i].live => sessions[i].live /\ i \notin ended
  <2> HIDE DEF ended
  <2> QED
    BY <1>6, SessionsEnd DEF ended
<1>10. Grown
  BY <1>6, <1>9 DEF Grown
<1>11. SessionsMatchAccounts'
  <2>1. \A i \in DOMAIN sessions : sessions[i].user \in Users
    BY SessionRows DEF Session
  <2>2. \A i \in DOMAIN sessions : sessions'[i].live => sessions[i].user # target
    BY <1>9 DEF SessionsOf
  <2> QED
    BY <1>8, <1>9, <2>1, <2>2 DEF AccessInv, BooksOK, SessionsMatchAccounts
<1>12. BooksOK'
  BY <1>6, <1>8, <1>9, <1>11 DEF AccessInv, BooksOK
<1> QED
  BY <1>10, <1>12, Ends DEF Deactivate, AccessInv

\* A block that is over matters to no session.
LEMMA BlockKeeps ==
  ASSUME AccessInv, ExpireBlock
  PROVE  AccessInv'
<1>1. PICK u \in Users : accounts' = [accounts EXCEPT ![u].blocked = "past"]
  BY DEF ExpireBlock
<1>2. accounts[u] \in Account /\ accounts \in [Users -> Account]
  BY DEF AccessInv, BooksOK
<1>3. accounts'[u] = [accounts[u] EXCEPT !.blocked = "past"]
  BY <1>1, <1>2
<1>4. accounts'[u] \in Account /\ accounts'[u].status = accounts[u].status
      /\ accounts'[u].password = accounts[u].password
  BY <1>2, <1>3 DEF Account
<1>5. /\ accounts' \in [Users -> Account]
      /\ \A v \in Users : /\ accounts'[v].status = accounts[v].status
                          /\ accounts'[v].password = accounts[v].password
  BY <1>1, <1>2, <1>4
<1>6. UNCHANGED <<sessions, tokens, mix, request, poolVars>> /\ Grown
  BY DEF ExpireBlock, Grown
<1>7. BooksOK'
  <2>1. \A i \in DOMAIN sessions : sessions[i].user \in Users
    BY SessionRows DEF Session
  <2> QED
    BY <1>5, <1>6, <2>1 DEF AccessInv, BooksOK, SessionsMatchAccounts
<1> QED
  BY <1>6, <1>7, RequestsWait DEF AccessInv

-----------------------------------------------------------------------------
LEMMA AccessStarts == AccessInit => AccessInv
<1> SUFFICES ASSUME AccessInit PROVE AccessInv
  OBVIOUS
<1>1. \A u \in Users : NewAccount(u \in Seeded, FALSE) \in Account
  BY DEF NewAccount, Account
<1>2. BooksOK
  <2>1. accounts \in [Users -> Account]
    BY <1>1 DEF AccessInit
  <2>2. sessions = <<>> /\ tokens = <<>> /\ mix \in Mixes
    BY DEF AccessInit
  <2> QED
    BY <2>1, <2>2 DEF BooksOK, SessionsMatchAccounts
<1>3. RequestsOK
  <2>1. Idle \in Request /\ Named(Idle)
    BY Steps DEF Request, Named, Idle, Guarded, Resetting
  <2> QED
    BY <2>1 DEF AccessInit, RequestsOK
<1>4. PoolOK
  BY DEF AccessInit, PoolInit, PoolOK, ScopeIsOwn, InLine, FreeClients
<1> QED
  BY <1>2, <1>3, <1>4 DEF AccessInv

LEMMA AccessKeeps == AccessInv /\ [AccessNext]_allVars => AccessInv'
<1> SUFFICES ASSUME AccessInv, [AccessNext]_allVars PROVE AccessInv'
  OBVIOUS
<1>1. ASSUME NEW r \in Requests, ArriveAny(r) PROVE AccessInv'
  BY <1>1, ArriveAnyKeeps
<1>2. ASSUME NEW r \in Requests, Step(r) \/ Fail(r) PROVE AccessInv'
  <2>1. CASE LoginRead(r)
    BY <2>1, LoginReadKeeps
  <2>2. CASE LoginFail(r)
    BY <2>2, LoginFailKeeps
  <2>3. CASE LoginEnter(r)
    BY <2>3, LoginEnterKeeps
  <2>4. CASE \/ ResetRequestRead(r) \/ Guard(r) \/ GuardModule(r) \/ Begin(r)
             \/ ChangeCheck(r) \/ DeactivateCheck(r) \/ Work(r) \/ Fail(r)
    BY <2>4, ChecksKeep
  <2>5. CASE ResetRequestSend(r)
    BY <2>5, SendKeeps
  <2>6. CASE Reset(r)
    BY <2>6, ResetKeeps
  <2>7. CASE Change(r)
    BY <2>7, ChangeKeeps
  <2>8. CASE Logout(r)
    BY <2>8, LogoutKeeps, Ends DEF Logout, AccessInv
  <2>9. CASE Create(r)
    BY <2>9, CreateKeeps
  <2>10. CASE Deactivate(r)
    BY <2>10, DeactivateKeeps
  <2> QED
    BY <1>2, <2>1, <2>2, <2>3, <2>4, <2>5, <2>6, <2>7, <2>8, <2>9, <2>10 DEF Step
<1>3. CASE Restart
  BY <1>3, Restarts, BooksStay DEF Restart, AccessInv
<1>4. CASE ExpireSession
  BY <1>4, LogoutKeeps, RequestsWait DEF ExpireSession, AccessInv
<1>5. CASE ExpireToken
  BY <1>5, UsedTokens, TokensKeep, RequestsWait DEF ExpireToken, AccessInv
<1>6. CASE ExpireBlock
  BY <1>6, BlockKeeps
<1>7. CASE UNCHANGED allVars
  BY <1>7, BooksStay, RequestsWait DEF allVars, accessVars, AccessInv
<1> QED
  BY <1>1, <1>2, <1>3, <1>4, <1>5, <1>6, <1>7 DEF AccessNext

\* No client in the pool has a company fixed in it, and that of a request has the
\* company of its user (database.service.ts resets it however a request ends), for any
\* number of clients and requests, with failures and restarts.
THEOREM ScopeStaysOwn == AccessSpec => []ScopeIsOwn
<1>1. AccessInv => ScopeIsOwn
  BY DEF AccessInv, PoolOK
<1> QED
  BY <1>1, AccessStarts, AccessKeeps, PTL DEF AccessSpec

\* A session that can be used goes with the account as it is (auth.service.ts and
\* users.service.ts revoke what goes no longer), but for the logins that were under way.
THEOREM SessionsStayMatched == AccessSpec => []SessionsMatchAccounts
<1>1. AccessInv => SessionsMatchAccounts
  BY DEF AccessInv, BooksOK
<1> QED
  BY <1>1, AccessStarts, AccessKeeps, PTL DEF AccessSpec

-----------------------------------------------------------------------------
\* What logins have read and deactivations decided is written later: nothing may come
\* between that they do not know of, but what crossed says.

\* A login that has read the account, a deactivation that is decided.
HasRead(q) == q.step \in {"enter", "fail"}
Decided(q) == q.step = "write" /\ q.kind = "deactivate"

NoneReads == \A r \in Requests : HasRead(request'[r]) => request'[r] = request[r]
NoneDecides == \A r \in Requests : Decided(request'[r]) => request'[r] = request[r]

\* What a request is for stays what it was while it goes on.
LEMMA StepsGoOn ==
  ASSUME NEW q \in Request, NEW step, q \in Guarded \/ q \in Forgotten
  PROVE  LET new == [q EXCEPT !.step = step]
         IN  new.step = step /\ new.kind = q.kind
  BY DEF Guarded, Forgotten

\* The step of one request.
LEMMA OneGoesOn ==
  ASSUME AccessInv, NEW r \in Requests, NEW new, request' = [request EXCEPT ![r] = new]
  PROVE  /\ ~HasRead(new) => NoneReads
         /\ ~Decided(new) => NoneDecides
  BY DEF AccessInv, RequestsOK, NoneReads, NoneDecides

\* An answer is the end of it.
LEMMA AnsweredIsOver ==
  ASSUME AccessInv, NEW r \in Requests, Answered(r)
  PROVE  NoneReads /\ NoneDecides
<1>1. ~HasRead(Idle) /\ ~Decided(Idle)
  BY DEF HasRead, Decided, Idle
<1> QED
  BY <1>1, OneGoesOn DEF Answered

\* A request begins with a query; only a login that reads and a deactivation that is
\* checked then know of something.
LEMMA OthersAreBlind ==
  ASSUME AccessInv, NEW r \in Requests, ArriveAny(r) \/ Step(r) \/ Fail(r)
  PROVE  /\ ~LoginRead(r) => NoneReads
         /\ ~DeactivateCheck(r) => NoneDecides
<1> DEFINE Blind == NoneReads /\ NoneDecides
<1>1. ASSUME NEW new, Arrive(r, new), new.step \in {"read", "reset", "guard"}
      PROVE  Blind
  BY <1>1, OneGoesOn DEF Arrive, HasRead, Decided
<1>2. CASE ArriveAny(r)
  <2>1. CASE ArriveLogin(r)
    BY <2>1, <1>1 DEF ArriveLogin
  <2>2. CASE ArriveResetRequest(r)
    BY <2>2, <1>1 DEF ArriveResetRequest
  <2>3. CASE ArriveReset(r)
    BY <2>3, <1>1 DEF ArriveReset
  <2>4. CASE ArriveGuarded(r)
    BY <2>4, <1>1 DEF ArriveGuarded
  <2> QED
    BY <1>2, <2>1, <2>2, <2>3, <2>4 DEF ArriveAny
<1>3. ASSUME NEW step, request[r] \in Guarded \/ request[r] \in Forgotten, Becomes(r, step)
      PROVE  /\ step \notin {"enter", "fail"} => NoneReads
             /\ step # "write" \/ request[r].kind # "deactivate" => NoneDecides
  <2> DEFINE new == [request[r] EXCEPT !.step = step]
  <2>1. request[r] \in Request /\ request' = [request EXCEPT ![r] = new]
    BY <1>3 DEF Becomes, AccessInv, RequestsOK
  <2>2. new.step = step /\ new.kind = request[r].kind
    BY <1>3, <2>1, StepsGoOn
  <2> HIDE DEF new
  <2> QED
    BY <2>1, <2>2, OneGoesOn DEF HasRead, Decided
<1>4. request[r] \in Request
  BY DEF AccessInv, RequestsOK
<1>5. CASE ResetRequestRead(r)
  <2>1. request[r] \in Forgotten
    BY <1>4, <1>5 DEF ResetRequestRead, At, Request, Idle, Login, ReadLogin, Forgotten, Resetting,
                      Guarded, GuardSteps, HandlerSteps
  <2> QED
    BY <1>3, <1>5, <2>1, AnsweredIsOver DEF ResetRequestRead
<1>6. CASE Guard(r)
  <2>1. request[r] \in Guarded
    BY <1>4, <1>6, Steps DEF Guard, At
  <2> QED
    BY <1>3, <1>6, <2>1, AnsweredIsOver DEF Guard
<1>7. CASE GuardModule(r)
  <2>1. request[r] \in Guarded
    BY <1>4, <1>7, Steps DEF GuardModule, At
  <2> QED
    BY <1>3, <1>7, <2>1, AnsweredIsOver DEF GuardModule
<1>8. CASE Begin(r)
  <2>1. request[r] \in Guarded
    BY <1>4, <1>8, Steps DEF Begin, At
  <2>2. CASE request[r].kind \in {"change", "deactivate"}
    BY <1>3, <1>8, <2>1, <2>2 DEF Begin
  <2>3. CASE request[r].kind \notin {"change", "deactivate"}
    BY <1>3, <1>8, <2>1, <2>3 DEF Begin
  <2> QED
    BY <2>2, <2>3
<1>9. CASE ChangeCheck(r)
  <2>1. request[r] \in Guarded /\ request[r].kind = "change"
    BY <1>4, <1>9, Steps DEF ChangeCheck, At, HandlerSteps
  <2> QED
    BY <1>3, <1>9, <2>1, AnsweredIsOver DEF ChangeCheck, EndHandler
<1>10. CASE DeactivateCheck(r)
  <2>1. request[r] \in Guarded
    BY <1>4, <1>10, Steps DEF DeactivateCheck, At, HandlerSteps
  <2> QED
    BY <1>3, <1>10, <2>1, AnsweredIsOver DEF DeactivateCheck, EndHandler
<1>11. CASE LoginRead(r)
  <2>1. ASSUME NEW new, request' = [request EXCEPT ![r] = new], new.step \in {"enter", "fail"}
        PROVE  NoneDecides
    BY <2>1, OneGoesOn DEF Decided
  <2>2. Answered(r) \/ \E new : /\ request' = [request EXCEPT ![r] = new]
                                /\ new.step \in {"enter", "fail"}
    <3> DEFINE row == accounts[request[r].user]
               new(step) == [kind |-> request[r].kind, step |-> step, user |-> request[r].user,
                             count |-> row.failed, password |-> row.password]
    <3>1. row.status # "absent" => \E step \in {"enter", "fail"} :
                                     request' = [request EXCEPT ![r] = new(step)]
      BY <1>11, Zenon DEF LoginRead
    <3>2. \A step \in {"enter", "fail"} : new(step).step = step
      OBVIOUS
    <3>3. row.status = "absent" => Answered(r)
      BY <1>11 DEF LoginRead
    <3> HIDE DEF new
    <3> QED
      BY <3>1, <3>2, <3>3
  <2> QED
    BY <1>11, <2>1, <2>2, AnsweredIsOver
<1> QED
  BY <1>2, <1>5, <1>6, <1>7, <1>8, <1>9, <1>10, <1>11, AnsweredIsOver
  DEF Step, Fail, LoginFail, LoginEnter, ResetRequestSend, Reset, Change, Logout, Work, Create,
      Deactivate, EndHandler

\* Restarts and expiries.
LEMMA TimeIsBlind ==
  ASSUME AccessInv, Restart \/ ExpireSession \/ ExpireToken \/ ExpireBlock \/ UNCHANGED allVars
  PROVE  NoneReads /\ NoneDecides
<1>1. ~HasRead(Idle) /\ ~Decided(Idle)
  BY DEF HasRead, Decided, Idle
<1>2. CASE Restart
  BY <1>1, <1>2 DEF Restart, NoneReads, NoneDecides
<1>3. CASE UNCHANGED request
  BY <1>3 DEF NoneReads, NoneDecides
<1> QED
  BY <1>2, <1>3 DEF ExpireSession, ExpireToken, ExpireBlock, allVars, accessVars

-----------------------------------------------------------------------------
\* Whom overlapping logins and uncounted deactivations are about.
MarksOK == crossed \in [logins : SUBSET Users, deactivations : SUBSET Companies]

\* What a login has read of an account nobody else has read since, and is what it is; who
\* does not exist has not failed.
CountsOK ==
  /\ failures \in [Users -> Nat]
  /\ \A u \in Users : accounts[u].status = "absent" => accounts[u].failed = 0
  /\ \A r \in Requests : HasRead(request[r]) => accounts[request[r].user].status # "absent"
  /\ \A u \in Users \ crossed.logins :
       /\ accounts[u].failed = failures[u]
       /\ failures[u] >= MaxAttempts => accounts[u].blocked # "no"
       /\ \A r \in Requests : HasRead(request[r]) /\ request[r].user = u =>
            /\ request[r].count = accounts[u].failed
            /\ \A q \in Requests : HasRead(request[q]) /\ request[q].user = u => q = r

\* What an account counts, and whether it is there.
SameCounts ==
  \A u \in Users :
    /\ accounts'[u].failed = accounts[u].failed
    /\ accounts'[u].blocked = "no" => accounts[u].blocked = "no" \/ accounts[u].failed = 0
    /\ accounts'[u].status = "absent" => accounts[u].status = "absent"

\* Who has read is a login of a user.
LEMMA ReadersAreUsers ==
  ASSUME AccessInv, NEW r \in Requests, HasRead(request[r])
  PROVE  request[r] \in ReadLogin /\ request[r].user \in Users /\ r \in LoginsThatRead(request[r].user)
<1>1. request[r] \in ReadLogin
  BY Steps DEF HasRead, AccessInv, RequestsOK
<1> QED
  BY <1>1 DEF ReadLogin, LoginsThatRead, Logins, InFlight, At, HasRead

\* A step that reads nothing and counts nothing.
LEMMA CountsStay ==
  ASSUME AccessInv, CountsOK, SameCounts, NoneReads, UNCHANGED failures,
         crossed'.logins = crossed.logins
  PROVE  CountsOK'
<1>1. MaxAttempts \in Nat \ {0}
  BY AccessAssumption
<1>2. \A u \in Users : accounts'[u].status = "absent" => accounts'[u].failed = 0
  BY DEF SameCounts, CountsOK
<1>3. \A r \in Requests :
        HasRead(request'[r]) => HasRead(request[r]) /\ request'[r] = request[r]
                                /\ request[r].user \in Users
  BY ReadersAreUsers DEF NoneReads
<1>4. \A r \in Requests : HasRead(request'[r]) => accounts'[request'[r].user].status # "absent"
  BY <1>3 DEF SameCounts, CountsOK
<1>5. ASSUME NEW u \in Users \ crossed.logins
      PROVE  /\ accounts'[u].failed = failures[u]
             /\ failures[u] >= MaxAttempts => accounts'[u].blocked # "no"
  <2>1. accounts[u].failed = failures[u] /\ accounts'[u].failed = accounts[u].failed
    BY DEF CountsOK, SameCounts
  <2>2. failures[u] >= MaxAttempts => accounts[u].blocked # "no" /\ accounts[u].failed # 0
    BY <1>1, <2>1 DEF CountsOK
  <2> QED
    BY <2>1, <2>2 DEF SameCounts
<1>6. ASSUME NEW u \in Users \ crossed.logins, NEW r \in Requests, HasRead(request'[r]),
             request'[r].user = u
      PROVE  /\ request'[r].count = accounts'[u].failed
             /\ \A q \in Requests : HasRead(request'[q]) /\ request'[q].user = u => q = r
  BY <1>3, <1>6 DEF CountsOK, SameCounts
<1> QED
  BY <1>2, <1>4, <1>5, <1>6 DEF CountsOK, HasRead

\* A login reads what the account counts; unless another one has read, none other knows.
LEMMA ReadingCounts ==
  ASSUME AccessInv, MarksOK, CountsOK, NEW r \in Requests, LoginRead(r)
  PROVE  MarksOK' /\ CountsOK'
<1> SUFFICES ASSUME NEW u, u = request[r].user PROVE MarksOK' /\ CountsOK'
  OBVIOUS
<1>1. request[r] \in Login
  BY DEF LoginRead, At, Logins, InFlight, AccessInv, RequestsOK, Request, Idle, Login, ReadLogin,
         Forgotten, Resetting, Guarded, GuardSteps, HandlerSteps
<1>2. u \in Users /\ ~HasRead(request[r])
  BY <1>1 DEF Login, HasRead
<1>3. UNCHANGED <<accounts, failures>>
  BY DEF LoginRead
<1>4. /\ MarksOK' /\ crossed.logins \subseteq crossed'.logins
      /\ u \notin crossed'.logins => LoginsThatRead(u) = {}
  <2>1. crossed' = IF LoginsThatRead(u) = {} THEN crossed
                   ELSE [crossed EXCEPT !.logins = @ \cup {u}]
    BY DEF LoginRead
  <2> QED
    BY <2>1, <1>2 DEF MarksOK
<1> DEFINE new(step) == [kind |-> request[r].kind, step |-> step, user |-> u,
                         count |-> accounts[u].failed, password |-> accounts[u].password]
<1>5. \/ request' = [request EXCEPT ![r] = Idle]
      \/ /\ accounts[u].status # "absent"
         /\ \E step : request' = [request EXCEPT ![r] = new(step)]
  <2>1. accounts[u].status = "absent" => request' = [request EXCEPT ![r] = Idle]
    BY DEF LoginRead, Answered
  <2>2. accounts[u].status # "absent" => \E step : request' = [request EXCEPT ![r] = new(step)]
    BY Zenon DEF LoginRead
  <2> QED
    BY <2>1, <2>2
<1>6. \A step : new(step).user = u /\ new(step).count = accounts[u].failed
  OBVIOUS
<1> HIDE DEF new
<1>7. /\ \A q \in Requests \ {r} : request'[q] = request[q]
      /\ HasRead(request'[r]) => /\ accounts[u].status # "absent" /\ request'[r].user = u
                                 /\ request'[r].count = accounts[u].failed
  <2>1. ~HasRead(Idle)
    BY DEF HasRead, Idle
  <2> QED
    BY <2>1, <1>5, <1>6 DEF AccessInv, RequestsOK
<1>8. u \notin crossed'.logins =>
        \A q \in Requests : HasRead(request[q]) => request[q].user # u
  BY <1>4, ReadersAreUsers
<1>9. \A q \in Requests : HasRead(request'[q]) => accounts'[request'[q].user].status # "absent"
  BY <1>3, <1>7 DEF CountsOK
<1>10. ASSUME NEW w \in Users \ crossed'.logins, NEW q \in Requests, HasRead(request'[q]),
              request'[q].user = w
       PROVE  /\ request'[q].count = accounts[w].failed
              /\ \A o \in Requests : HasRead(request'[o]) /\ request'[o].user = w => o = q
  <2>1. w \in Users \ crossed.logins
    BY <1>4
  <2>2. CASE w = u
    <3>1. \A o \in Requests : HasRead(request'[o]) /\ request'[o].user = u => o = r
      BY <1>7, <1>8, <2>2
    <3> QED
      BY <3>1, <2>2, <1>7, <1>10
  <2>3. CASE w # u
    <3>1. \A o \in Requests : HasRead(request'[o]) /\ request'[o].user = w =>
            HasRead(request[o]) /\ request'[o] = request[o]
      BY <1>7, <2>3
    <3> QED
      BY <3>1, <2>1, <1>10 DEF CountsOK
  <2> QED
    BY <2>2, <2>3
<1>11. \A w \in Users \ crossed'.logins :
         /\ accounts[w].failed = failures[w]
         /\ failures[w] >= MaxAttempts => accounts[w].blocked # "no"
  BY <1>4 DEF CountsOK
<1> QED
  BY <1>3, <1>4, <1>9, <1>10, <1>11 DEF CountsOK, HasRead

\* The failure, or the success, is written of what the account counted.
LEMMA WritingCounts ==
  ASSUME AccessInv, CountsOK, NEW r \in Requests, LoginFail(r) \/ LoginEnter(r)
  PROVE  CountsOK'
<1> SUFFICES ASSUME NEW u, u = request[r].user, NEW n, n = request[r].count + 1
             PROVE  CountsOK'
  OBVIOUS
<1>1. HasRead(request[r]) /\ UNCHANGED crossed /\ request' = [request EXCEPT ![r] = Idle]
  BY DEF LoginFail, LoginEnter, At, HasRead, Answered
<1>2. request[r] \in ReadLogin /\ u \in Users /\ n \in Nat
  BY <1>1, ReadersAreUsers DEF ReadLogin
<1>3. PICK failed \in Nat, blocked \in {"no", "yes", "past"} :
        /\ accounts' = [accounts EXCEPT ![u].failed = failed, ![u].blocked = blocked]
        /\ \/ /\ failed = n /\ failures' = [failures EXCEPT ![u] = failures[u] + 1]
              /\ n >= MaxAttempts => blocked # "no"
           \/ failed = 0 /\ failures' = [failures EXCEPT ![u] = 0]
  <2>1. CASE LoginFail(r)
    BY <2>1, <1>2 DEF LoginFail
  <2>2. CASE LoginEnter(r)
    BY <2>2, <1>2 DEF LoginEnter
  <2> QED
    BY <2>1, <2>2
<1>4. /\ accounts' \in [Users -> Account] /\ accounts \in [Users -> Account]
      /\ accounts'[u].failed = failed /\ accounts'[u].blocked = blocked
      /\ \A v \in Users : accounts'[v].status = accounts[v].status
      /\ \A v \in Users \ {u} : accounts'[v] = accounts[v]
  <2>1. accounts \in [Users -> Account]
    BY DEF AccessInv, BooksOK
  <2>2. accounts'[u] = [accounts[u] EXCEPT !.failed = failed, !.blocked = blocked]
    BY <1>2, <1>3, <2>1
  <2>3. accounts'[u].failed = failed /\ accounts'[u].blocked = blocked
    BY <1>2, <2>1, <2>2 DEF Account
  <2>4. \A v \in Users \ {u} : accounts'[v] = accounts[v]
    BY <1>3, <2>1
  <2> QED
    BY <1>2, <1>3, <2>1, <2>3, <2>4, AccountsCount
<1>5. /\ failures \in [Users -> Nat] /\ failures' \in [Users -> Nat]
      /\ \/ failed = n /\ failures'[u] = failures[u] + 1 /\ (n >= MaxAttempts => blocked # "no")
         \/ failed = 0 /\ failures'[u] = 0
      /\ \A v \in Users \ {u} : failures'[v] = failures[v]
  <2>1. failures \in [Users -> Nat]
    BY DEF CountsOK
  <2> DEFINE next == failures[u] + 1
  <2>2. next \in Nat
    BY <1>2, <2>1
  <2>3. \/ failed = n /\ failures' = [failures EXCEPT ![u] = next] /\ (n >= MaxAttempts => blocked # "no")
        \/ failed = 0 /\ failures' = [failures EXCEPT ![u] = 0]
    BY <1>3
  <2> HIDE DEF next
  <2>4. \/ failed = n /\ failures'[u] = next /\ (n >= MaxAttempts => blocked # "no")
        \/ failed = 0 /\ failures'[u] = 0
    BY <1>2, <2>1, <2>3
  <2>5. failures' \in [Users -> Nat] /\ \A v \in Users \ {u} : failures'[v] = failures[v]
    BY <1>2, <2>1, <2>2, <2>3
  <2> QED
    BY <2>1, <2>4, <2>5 DEF next
<1>6. /\ ~HasRead(request'[r])
      /\ \A q \in Requests : HasRead(request'[q]) =>
           q # r /\ HasRead(request[q]) /\ request'[q] = request[q]
  <2>1. ~HasRead(Idle)
    BY DEF HasRead, Idle
  <2> QED
    BY <2>1, <1>1 DEF AccessInv, RequestsOK
<1>7. accounts[u].status # "absent"
  BY <1>1 DEF CountsOK
<1>8. \A v \in Users : accounts'[v].status = "absent" => accounts'[v].failed = 0
  BY <1>4, <1>7 DEF CountsOK
<1>9. \A q \in Requests : HasRead(request'[q]) => accounts'[request'[q].user].status # "absent"
  BY <1>4, <1>6, ReadersAreUsers DEF CountsOK
<1>10. ASSUME NEW w \in Users \ crossed.logins
       PROVE  /\ accounts'[w].failed = failures'[w]
              /\ failures'[w] >= MaxAttempts => accounts'[w].blocked # "no"
  <2>1. CASE w # u
    BY <2>1, <1>4, <1>5 DEF CountsOK
  <2>2. CASE w = u
    <3>1. n = failures[u] + 1
      BY <2>2, <1>1, <1>2 DEF CountsOK
    <3>2. 0 \in Nat /\ ~(0 >= MaxAttempts)
      BY AccessAssumption
    <3> QED
      BY <2>2, <3>1, <3>2, <1>4, <1>5
  <2> QED
    BY <2>1, <2>2
<1>11. ASSUME NEW w \in Users \ crossed.logins, NEW q \in Requests, HasRead(request'[q]),
              request'[q].user = w
       PROVE  /\ request'[q].count = accounts'[w].failed
              /\ \A o \in Requests : HasRead(request'[o]) /\ request'[o].user = w => o = q
  <2>1. q # r /\ HasRead(request[q]) /\ request'[q] = request[q]
    BY <1>6, <1>11
  <2>2. w # u
    BY <1>1, <1>11, <2>1 DEF CountsOK
  <2> QED
    BY <2>1, <2>2, <1>4, <1>6, <1>11 DEF CountsOK
<1> QED
  BY <1>1, <1>5, <1>8, <1>9, <1>10, <1>11 DEF CountsOK, HasRead

-----------------------------------------------------------------------------
\* An administrator whom no decided deactivation is about.
AdminsOK ==
  \A company \in Companies \ crossed.deactivations :
    AdminsIn[company] \cap Seeded # {} =>
      \E u \in ActiveAdmins(company) :
        \A r \in Requests : Decided(request[r]) => request[r].target # u

StillActive == \A u \in Users : accounts[u].status = "active" => accounts'[u].status = "active"

\* Administrators are users.
LEMMA AdminsAreUsers == \A company \in Companies : ActiveAdmins(company) \subseteq Users
  BY AccessAssumption DEF ActiveAdmins

\* Where nobody is deactivated and nothing decided, who remained remains.
LEMMA AdminsStay ==
  ASSUME AdminsOK, StillActive, NoneDecides, crossed.deactivations \subseteq crossed'.deactivations
  PROVE  AdminsOK'
<1> SUFFICES ASSUME NEW company \in Companies \ crossed'.deactivations,
                    AdminsIn[company] \cap Seeded # {}
             PROVE  \E u \in ActiveAdmins(company)' :
                      \A r \in Requests : Decided(request'[r]) => request'[r].target # u
  BY DEF AdminsOK, Decided
<1>1. PICK u \in ActiveAdmins(company) :
        \A r \in Requests : Decided(request[r]) => request[r].target # u
  BY DEF AdminsOK
<1>2. u \in ActiveAdmins(company)'
  BY <1>1, AdminsAreUsers DEF ActiveAdmins, StillActive
<1> QED
  BY <1>1, <1>2 DEF NoneDecides

\* Of more than one, there is another than any.
LEMMA OneMoreThan == ASSUME NEW S, NEW x, Cardinality(S) > 1 PROVE \E y \in S : y # x
<1> SUFFICES ASSUME S \subseteq {x} PROVE FALSE
  OBVIOUS
<1>1. S = {} \/ S = {x}
  OBVIOUS
<1>2. Cardinality({}) = 0 /\ Cardinality({x}) = 1
  BY FS_EmptySet, FS_Singleton
<1> QED
  BY <1>1, <1>2

\* A deactivation is decided where another administrator is left, and no other one decided.
LEMMA DecidingLeavesOne ==
  ASSUME AccessInv, MarksOK, AdminsOK, NEW r \in Requests, DeactivateCheck(r)
  PROVE  MarksOK' /\ AdminsOK' /\ crossed'.logins = crossed.logins
<1> SUFFICES ASSUME NEW target, target = request[r].target,
                    NEW company, company = CompanyOf[UserOf(r)]
             PROVE  MarksOK' /\ AdminsOK' /\ crossed'.logins = crossed.logins
  OBVIOUS
<1>1. request[r] \in Guarded /\ request[r] \in Request /\ request[r].kind = "deactivate"
  BY Steps DEF DeactivateCheck, At, HandlerSteps, AccessInv, RequestsOK
<1>2. StillActive
  BY DEF DeactivateCheck, StillActive
<1>3. CASE ~(target # UserOf(r) /\ MayDeactivate(target, company))
  <2>1. NoneDecides /\ UNCHANGED crossed
    BY <1>3, AnsweredIsOver DEF DeactivateCheck, EndHandler
  <2> QED
    BY <2>1, <1>2, AdminsStay DEF MarksOK
<1>4. CASE target # UserOf(r) /\ MayDeactivate(target, company)
  <2> DEFINE new == [request[r] EXCEPT !.step = "write"]
  <2>1. /\ request' = [request EXCEPT ![r] = new]
        /\ crossed' = [crossed EXCEPT !.deactivations = @ \cup NotCounted(target, company)]
    BY <1>4 DEF DeactivateCheck, Becomes
  <2>2. NotCounted(target, company) \subseteq Companies
    BY DEF NotCounted
  <2>3. /\ MarksOK' /\ crossed'.logins = crossed.logins
        /\ crossed'.deactivations = crossed.deactivations \cup NotCounted(target, company)
    BY <2>1, <2>2 DEF MarksOK
  <2>4. new.target = target
    BY <1>1 DEF Guarded
  <2> HIDE DEF new
  <2>5. request'[r].target = target /\ \A q \in Requests \ {r} : request'[q] = request[q]
    BY <2>1, <2>4 DEF AccessInv, RequestsOK
  <2>6. ASSUME NEW other \in Companies \ crossed'.deactivations,
               AdminsIn[other] \cap Seeded # {}
        PROVE  \E u \in ActiveAdmins(other) :
                 \A q \in Requests : Decided(request'[q]) => request'[q].target # u
    <3>1. PICK u \in ActiveAdmins(other) :
            \A q \in Requests : Decided(request[q]) => request[q].target # u
      BY <2>3, <2>6 DEF AdminsOK
    <3>2. CASE target \notin AdminsIn[other]
      BY <3>1, <3>2, <2>5 DEF ActiveAdmins
    <3>3. CASE target \in AdminsIn[other]
      <4>1. other = company /\ DecidedFor(other) = {}
        BY <3>3, <2>3, <2>6 DEF NotCounted
      <4>2. Cardinality(ActiveAdmins(other)) > 1
        BY <4>1, <3>3, <1>4 DEF MayDeactivate
      <4>3. PICK v \in ActiveAdmins(other) : v # target
        BY <4>2, OneMoreThan
      <4>4. \A q \in Requests : Decided(request[q]) => request[q].target \notin AdminsIn[other]
        BY <4>1 DEF DecidedFor, InFlight, At, Decided
      <4> QED
        BY <4>3, <4>4, <2>5 DEF ActiveAdmins
    <3> QED
      BY <3>2, <3>3
  <2>7. accounts' = accounts
    BY DEF DeactivateCheck
  <2>8. AdminsOK'
    BY <2>6, <2>7 DEF AdminsOK, ActiveAdmins, Decided
  <2> QED
    BY <2>3, <2>8
<1> QED
  BY <1>3, <1>4

\* The one who is deactivated is not the one whom nobody decided on.
LEMMA DeactivatingLeavesOne ==
  ASSUME AccessInv, MarksOK, AdminsOK, NEW r \in Requests, Deactivate(r)
  PROVE  MarksOK' /\ AdminsOK' /\ crossed' = crossed
<1> SUFFICES ASSUME NEW target, target = request[r].target
             PROVE  MarksOK' /\ AdminsOK' /\ crossed' = crossed
  OBVIOUS
<1>1. /\ Decided(request[r]) /\ NoneDecides /\ UNCHANGED crossed
  BY AnsweredIsOver DEF Deactivate, At, Decided, EndHandler
<1>2. \A u \in Users \ {target} : accounts'[u] = accounts[u]
  BY DEF Deactivate, AccessInv, BooksOK
<1>3. ASSUME NEW company \in Companies \ crossed.deactivations,
             AdminsIn[company] \cap Seeded # {}
      PROVE  \E u \in ActiveAdmins(company)' :
               \A q \in Requests : Decided(request'[q]) => request'[q].target # u
  <2>1. PICK u \in ActiveAdmins(company) :
          \A q \in Requests : Decided(request[q]) => request[q].target # u
    BY <1>3 DEF AdminsOK
  <2>2. u # target /\ u \in Users
    BY <2>1, <1>1, AdminsAreUsers
  <2>3. u \in ActiveAdmins(company)'
    BY <2>1, <2>2, <1>2 DEF ActiveAdmins
  <2> QED
    BY <2>1, <2>3, <1>1 DEF NoneDecides
<1> QED
  BY <1>1, <1>3 DEF AdminsOK, MarksOK, Decided

\* A token is somebody's.
LEMMA UsersOfTokens == ASSUME AccessInv PROVE \A t \in DOMAIN tokens : tokens[t].user \in Users
<1>1. tokens \in Seq(Token)
  BY DEF AccessInv, BooksOK
<1>2. \A t \in DOMAIN tokens : tokens[t] \in Token
  BY <1>1
<1> QED
  BY <1>2 DEF Token

\* What the other steps make of the accounts is of no account here.
LEMMA AccountsGoOn ==
  ASSUME AccessInv, CountsOK, NEW r \in Requests, ArriveAny(r) \/ Step(r) \/ Fail(r),
         ~LoginFail(r), ~LoginEnter(r)
  PROVE  SameCounts /\ (~Deactivate(r) => StillActive)
<1>1. accounts \in [Users -> Account]
  BY DEF AccessInv, BooksOK
<1>2. CASE UNCHANGED accounts
  BY <1>2 DEF SameCounts, StillActive
<1>3. ASSUME NEW u \in Users, NewPassword(u) PROVE SameCounts /\ StillActive
  <2>1. /\ accounts'[u].status = accounts[u].status
        /\ \A v \in Users \ {u} : accounts'[v] = accounts[v]
    BY <1>3, PasswordMoves
  <2> DEFINE next == accounts[u].password + 1
  <2>2. accounts'[u] = [accounts[u] EXCEPT !.password = next, !.temporary = FALSE]
    BY <1>1, <1>3 DEF NewPassword
  <2> HIDE DEF next
  <2>3. accounts'[u].failed = accounts[u].failed /\ accounts'[u].blocked = accounts[u].blocked
    BY <1>1, <2>2 DEF Account
  <2> QED
    BY <2>1, <2>3 DEF SameCounts, StillActive
<1>4. CASE Create(r)
  <2>1. PICK u \in mix.users : accounts' = IF accounts[u].status = "absent"
                                           THEN [accounts EXCEPT ![u] = NewAccount(TRUE, TRUE)]
                                           ELSE accounts
    BY <1>4 DEF Create
  <2>2. u \in Users
    BY <2>1, AccessAssumption DEF AccessInv, BooksOK
  <2>3. NewAccount(TRUE, TRUE).status = "active" /\ NewAccount(TRUE, TRUE).failed = 0
    BY DEF NewAccount
  <2>4. CASE accounts[u].status = "absent"
    <3>1. accounts[u].failed = 0 /\ accounts'[u] = NewAccount(TRUE, TRUE)
      BY <1>1, <2>1, <2>2, <2>4 DEF CountsOK
    <3>2. \A v \in Users \ {u} : accounts'[v] = accounts[v]
      BY <1>1, <2>1, <2>4
    <3> QED
      BY <2>3, <2>4, <3>1, <3>2 DEF SameCounts, StillActive
  <2> QED
    BY <2>1, <2>4, <1>2
<1>5. CASE Deactivate(r)
  <2>1. request[r] \in Guarded
    BY <1>5, HoldersHandle DEF Deactivate, EndHandler, Release
  <2> DEFINE target == request[r].target
             next == IF accounts[target].status = "absent" THEN "absent" ELSE "inactive"
  <2>2. target \in Users
    BY <1>5, <2>1 DEF Deactivate, Guarded
  <2>3. accounts' = [accounts EXCEPT ![target].status = next]
    BY <1>5 DEF Deactivate
  <2>4. next = "absent" => accounts[target].status = "absent"
    OBVIOUS
  <2> HIDE DEF next, target
  <2>5. accounts'[target] = [accounts[target] EXCEPT !.status = next]
    BY <1>1, <2>2, <2>3
  <2>6. /\ accounts'[target].status = next /\ accounts'[target].failed = accounts[target].failed
        /\ accounts'[target].blocked = accounts[target].blocked
    BY <1>1, <2>2, <2>5 DEF Account
  <2>7. \A v \in Users \ {target} : accounts'[v] = accounts[v]
    BY <1>1, <2>3
  <2> QED
    BY <1>5, <2>4, <2>6, <2>7 DEF SameCounts
<1>6. CASE Change(r)
  <2>1. request[r] \in Guarded /\ request[r].session \in DOMAIN sessions
    BY <1>6, HoldersHandle DEF Change, EndHandler, Release, AccessInv, RequestsOK, Named
  <2>2. UserOf(r) \in Users
    BY <2>1, SessionRows DEF UserOf, Session
  <2> QED
    BY <1>3, <1>6, <2>2 DEF Change
<1>7. CASE Reset(r)
  <2>1. request[r] \in Resetting /\ request[r].token \in DOMAIN tokens
    BY <1>7, Steps DEF Reset, At, AccessInv, RequestsOK, Named
  <2>2. tokens[request[r].token].user \in Users
    BY <2>1, UsersOfTokens
  <2>3. NewPassword(tokens[request[r].token].user) \/ UNCHANGED accounts
    BY <1>7 DEF Reset
  <2> QED
    BY <1>2, <1>3, <2>2, <2>3
<1>8. CASE ArriveAny(r)
  BY <1>2, <1>8 DEF ArriveAny, ArriveLogin, ArriveResetRequest, ArriveReset, ArriveGuarded, Arrive
<1>9. CASE \/ LoginRead(r) \/ ResetRequestRead(r) \/ ResetRequestSend(r)
           \/ Guard(r) \/ GuardModule(r) \/ Begin(r)
           \/ ChangeCheck(r) \/ Logout(r) \/ Work(r) \/ DeactivateCheck(r) \/ Fail(r)
  BY <1>2, <1>9 DEF LoginRead, ResetRequestRead, ResetRequestSend, Guard, GuardModule, Begin,
                    ChangeCheck, Logout, Work, DeactivateCheck, Fail
<1> QED
  BY <1>4, <1>5, <1>6, <1>7, <1>8, <1>9 DEF Step

\* A login writes the counter, not the status.
LEMMA WritingKeepsStatus ==
  ASSUME AccessInv, NEW r \in Requests, LoginFail(r) \/ LoginEnter(r)
  PROVE  StillActive
<1> DEFINE u == request[r].user
           count == request[r].count + 1
           blocked == IF count >= MaxAttempts THEN "yes" ELSE "no"
<1>1. u \in Users /\ count \in Nat
  <2>1. HasRead(request[r])
    BY DEF LoginFail, LoginEnter, At, HasRead
  <2> QED
    BY <2>1, ReadersAreUsers DEF ReadLogin
<1>2. blocked \in {"no", "yes", "past"}
  OBVIOUS
<1>3. \/ accounts' = [accounts EXCEPT ![u].failed = count, ![u].blocked = blocked]
      \/ accounts' = [accounts EXCEPT ![u].failed = 0, ![u].blocked = "no"]
  BY DEF LoginFail, LoginEnter
<1> HIDE DEF u, count, blocked
<1>4. \A v \in Users : accounts'[v].status = accounts[v].status
  BY <1>1, <1>2, <1>3, AccountsCount
<1> QED
  BY <1>4 DEF StillActive

Unnoticed == UNCHANGED <<failures, crossed>>

\* Only logins and deactivations keep the accounts of what they did.
LEMMA StepsAreUnnoticed ==
  ASSUME NEW r \in Requests, ArriveAny(r) \/ Step(r) \/ Fail(r),
         ~LoginRead(r), ~LoginFail(r), ~LoginEnter(r), ~DeactivateCheck(r)
  PROVE  Unnoticed
<1>1. CASE ArriveAny(r)
  BY <1>1 DEF ArriveAny, ArriveLogin, ArriveResetRequest, ArriveReset, ArriveGuarded, Arrive,
              Unnoticed
<1>2. CASE Step(r) \/ Fail(r)
  BY <1>2 DEF Step, Fail, ResetRequestRead, ResetRequestSend, Reset, Guard, GuardModule, Begin,
              ChangeCheck, Change, Logout, Work, Create, Deactivate, Unnoticed
<1> QED
  BY <1>1, <1>2

WatchInv == AccessInv /\ MarksOK /\ CountsOK /\ AdminsOK

\* At first nobody has failed and nothing is going on.
LEMMA WatchStarts == AccessInit => WatchInv
<1> SUFFICES ASSUME AccessInit PROVE WatchInv
  OBVIOUS
<1>1. AccessInv
  BY AccessStarts
<1>2. MarksOK
  BY DEF AccessInit, MarksOK
<1>3. \A r \in Requests : ~HasRead(request[r]) /\ ~Decided(request[r])
  BY DEF AccessInit, HasRead, Decided, Idle
<1>4. \A u \in Users : /\ accounts[u].failed = 0
                       /\ accounts[u].status = IF u \in Seeded THEN "active" ELSE "absent"
  BY DEF AccessInit, NewAccount
<1>5. failures \in [Users -> Nat] /\ \A u \in Users : failures[u] = 0
  BY DEF AccessInit
<1>6. CountsOK
  <2>1. ~(0 >= MaxAttempts)
    BY AccessAssumption
  <2> QED
    BY <2>1, <1>3, <1>4, <1>5 DEF CountsOK
<1>7. AdminsOK
  BY <1>3, <1>4, AdminsAreUsers, AccessAssumption DEF AdminsOK, ActiveAdmins
<1> QED
  BY <1>1, <1>2, <1>6, <1>7 DEF WatchInv

\* Each step, by what it does to the accounts and to what requests know of them.
LEMMA WatchKeeps == WatchInv /\ [AccessNext]_allVars => WatchInv'
<1> SUFFICES ASSUME WatchInv, [AccessNext]_allVars PROVE WatchInv'
  OBVIOUS
<1>1. AccessInv /\ MarksOK /\ CountsOK /\ AdminsOK /\ AccessInv'
  BY AccessKeeps DEF WatchInv
<1> DEFINE Goal == MarksOK' /\ CountsOK' /\ AdminsOK'
<1>2. ASSUME Unnoticed, SameCounts, StillActive, NoneReads, NoneDecides PROVE Goal
  <2>1. UNCHANGED failures /\ UNCHANGED crossed
    BY <1>2 DEF Unnoticed
  <2>2. crossed'.logins = crossed.logins /\ crossed.deactivations \subseteq crossed'.deactivations
    BY <2>1
  <2>3. CountsOK'
    BY <1>1, <1>2, <2>1, <2>2, CountsStay
  <2>4. AdminsOK'
    BY <1>1, <1>2, <2>2, AdminsStay
  <2> QED
    BY <1>1, <2>1, <2>3, <2>4 DEF MarksOK
<1>3. ASSUME NEW r \in Requests, ArriveAny(r) \/ Step(r) \/ Fail(r) PROVE Goal
  <2>1. CASE LoginRead(r)
    <3>1. MarksOK' /\ CountsOK'
      BY <1>1, <2>1, ReadingCounts
    <3>2. ~DeactivateCheck(r) /\ StillActive
      BY <2>1 DEF LoginRead, StillActive, DeactivateCheck, At
    <3>3. NoneDecides
      BY <1>1, <1>3, <3>2, OthersAreBlind
    <3>4. crossed' \in {crossed, [crossed EXCEPT !.logins = crossed.logins \cup {request[r].user}]}
      BY <2>1 DEF LoginRead
    <3>5. crossed.deactivations \subseteq crossed'.deactivations
      BY <1>1, <3>4 DEF MarksOK
    <3>6. AdminsOK'
      BY <1>1, <3>2, <3>3, <3>5, AdminsStay
    <3> QED
      BY <3>1, <3>6
  <2>2. CASE LoginFail(r) \/ LoginEnter(r)
    <3>1. CountsOK'
      BY <1>1, <2>2, WritingCounts
    <3>2. ~DeactivateCheck(r) /\ UNCHANGED crossed
      BY <2>2 DEF LoginFail, LoginEnter, DeactivateCheck, At
    <3>3. NoneDecides
      BY <1>1, <1>3, <3>2, OthersAreBlind
    <3>4. StillActive
      BY <1>1, <2>2, WritingKeepsStatus
    <3>5. AdminsOK'
      BY <1>1, <3>2, <3>3, <3>4, AdminsStay
    <3> QED
      BY <1>1, <3>1, <3>2, <3>5 DEF MarksOK
  <2>3. CASE DeactivateCheck(r)
    <3>1. MarksOK' /\ AdminsOK' /\ crossed'.logins = crossed.logins
      BY <1>1, <2>3, DecidingLeavesOne
    <3>2. SameCounts /\ UNCHANGED failures
      BY <2>3 DEF DeactivateCheck, SameCounts
    <3>3. ~LoginRead(r)
      BY <2>3 DEF DeactivateCheck, LoginRead, At
    <3>4. NoneReads
      BY <1>1, <1>3, <3>3, OthersAreBlind
    <3> QED
      BY <1>1, <3>1, <3>2, <3>4, CountsStay
  <2>4. CASE Deactivate(r)
    <3>1. MarksOK' /\ AdminsOK' /\ crossed' = crossed
      BY <1>1, <2>4, DeactivatingLeavesOne
    <3>2. ~LoginRead(r) /\ ~LoginFail(r) /\ ~LoginEnter(r) /\ UNCHANGED failures
      BY <2>4 DEF Deactivate, LoginRead, LoginFail, LoginEnter, At
    <3>3. NoneReads /\ SameCounts
      BY <1>1, <1>3, <3>2, OthersAreBlind, AccountsGoOn
    <3> QED
      BY <1>1, <3>1, <3>2, <3>3, CountsStay
  <2>5. CASE /\ ~LoginRead(r) /\ ~LoginFail(r) /\ ~LoginEnter(r)
             /\ ~DeactivateCheck(r) /\ ~Deactivate(r)
    <3>1. NoneReads /\ NoneDecides
      BY <1>1, <1>3, <2>5, OthersAreBlind
    <3>2. SameCounts /\ StillActive
      BY <1>1, <1>3, <2>5, AccountsGoOn
    <3>3. Unnoticed
      BY <1>3, <2>5, StepsAreUnnoticed
    <3> QED
      BY <1>2, <3>1, <3>2, <3>3
  <2> QED
    BY <2>1, <2>2, <2>3, <2>4, <2>5
<1>4. CASE Restart \/ ExpireSession \/ ExpireToken \/ UNCHANGED allVars
  <2>1. UNCHANGED <<accounts, failures, crossed>>
    BY <1>4 DEF Restart, ExpireSession, ExpireToken, allVars, accessVars
  <2>2. SameCounts /\ StillActive /\ Unnoticed
    BY <2>1 DEF SameCounts, StillActive, Unnoticed
  <2>3. NoneReads /\ NoneDecides
    BY <1>1, <1>4, TimeIsBlind
  <2>4. Goal
    BY <1>2, <2>2, <2>3
  <2> QED
    BY <1>1, <2>4 DEF WatchInv
<1>5. CASE ExpireBlock
  <2>1. PICK u \in Users : accounts' = [accounts EXCEPT ![u].blocked = "past"]
    BY <1>5 DEF ExpireBlock
  <2>2. accounts \in [Users -> Account] /\ accounts[u] \in Account
    BY <1>1 DEF AccessInv, BooksOK
  <2>3. /\ accounts'[u] = [accounts[u] EXCEPT !.blocked = "past"]
        /\ \A v \in Users \ {u} : accounts'[v] = accounts[v]
    BY <2>1, <2>2
  <2>4. /\ accounts'[u].status = accounts[u].status /\ accounts'[u].failed = accounts[u].failed
        /\ accounts'[u].blocked = "past"
    BY <2>2, <2>3 DEF Account
  <2>5. SameCounts /\ StillActive
    BY <2>3, <2>4 DEF SameCounts, StillActive
  <2>6. Unnoticed
    BY <1>5 DEF ExpireBlock, Unnoticed
  <2>7. NoneReads /\ NoneDecides
    BY <1>1, <1>5, TimeIsBlind
  <2>8. Goal
    BY <1>2, <2>5, <2>6, <2>7
  <2> QED
    BY <1>1, <2>8 DEF WatchInv
<1> QED
  BY <1>1, <1>3, <1>4, <1>5 DEF AccessNext, WatchInv

\* While the logins of a user do not overlap, the counter of the account is that of its
\* failures since the last success and it is blocked from the limit on (login of
\* auth.service.ts), for any number of users and requests, whatever else is done with the
\* account, and however requests fail and processes restart.
THEOREM FailuresStayCounted == AccessSpec => []FailuresAreCounted
<1>1. WatchInv => FailuresAreCounted
  BY DEF WatchInv, CountsOK, FailuresAreCounted
<1> QED
  BY <1>1, WatchStarts, WatchKeeps, PTL DEF AccessSpec

\* A company that began with an administrator has an active one (users.service.ts counts
\* them before it deactivates one), unless a decision did not see what another one was
\* about to do: for any number of administrators, companies and requests.
THEOREM AdministratorStays == AccessSpec => []AdministratorRemains
<1>1. WatchInv => AdministratorRemains
  BY DEF WatchInv, AdminsOK, AdministratorRemains
<1> QED
  BY <1>1, WatchStarts, WatchKeeps, PTL DEF AccessSpec

-----------------------------------------------------------------------------
(* However many requests enable and disable modules at once, an enabled    *)
(* module lacks a dependency only where their decisions crossed: the run   *)
(* MCModuleRace shows that there it may.                                   *)

\* What a change that waits to be written was decided on still holds, but for what crossed.
WaitingOK ==
  \A m \in Modules :
    /\ InWork(Enabling(m)) =>
         m \in Implemented /\ \A d \in Dependencies[m] : d \in enabled \/ <<m, d>> \in crossing
    /\ InWork(Enabling(m)) \/ m \in enabled =>
         \A d \in Dependencies[m] : InWork(Disabling(d)) => <<m, d>> \in crossing

RegistryInv == RegistryTypeOK /\ LacksOnlyWhatCrossed /\ WaitingOK

LEMMA Changes ==
  /\ \A m \in Modules : Enabling(m) \in ModuleChange /\ Disabling(m) \in ModuleChange
  /\ \A m \in Modules, n \in Modules : Enabling(m) # Disabling(n)
  /\ \A m \in Modules, n \in Modules : m # n =>
       Enabling(m) # Enabling(n) /\ Disabling(m) # Disabling(n)
  BY DEF ModuleChange, Enabling, Disabling

\* A decision comes to what is in work, and nothing is in work twice by it.
LEMMA ApprovalIsInWork ==
  ASSUME RegistryTypeOK, NEW u \in Managers, NEW change \in ModuleChange, Approve(u, change),
         NEW other \in ModuleChange
  PROVE  InWork(other)' <=> other = change \/ InWork(other)
  BY NoChangeAssumption DEF RegistryTypeOK, Approve, InWork

\* What was written is not made a decision by it.
LEMMA WritingEndsWork ==
  ASSUME RegistryTypeOK, NEW u \in Managers, NEW change \in ModuleChange, Write(u, change),
         NEW other \in ModuleChange
  PROVE  /\ InWork(change)
         /\ InWork(other)' => InWork(other)
         /\ other # change => (InWork(other)' <=> InWork(other))
  BY NoChangeAssumption DEF RegistryTypeOK, Write, InWork

\* The decision to enable: its dependencies are there, or what disables them is recorded.
LEMMA DecidingToEnable ==
  ASSUME RegistryInv, NEW u \in Managers, NEW m \in Modules, DecideEnable(u, m)
  PROVE  RegistryInv'
<1>1. /\ RegistryTypeOK /\ LacksOnlyWhatCrossed /\ WaitingOK
      /\ Enableable(m, enabled) /\ Approve(u, Enabling(m)) /\ enabled' = enabled
      /\ Enabling(m) \in ModuleChange
  BY Changes DEF RegistryInv, DecideEnable, Approve
<1>2. /\ crossing \subseteq crossing' /\ crossing' \subseteq Modules \X Modules
      /\ \A d \in Dependencies[m] : InWork(Disabling(d)) => <<m, d>> \in crossing'
  BY <1>1, RegistryAssumption DEF DecideEnable, RegistryTypeOK
<1>3. RegistryTypeOK'
  BY <1>1, <1>2 DEF RegistryTypeOK, Approve
<1>4. \A n \in Modules : /\ InWork(Enabling(n))' <=> n = m \/ InWork(Enabling(n))
                         /\ InWork(Disabling(n))' <=> InWork(Disabling(n))
  <2> SUFFICES ASSUME NEW n \in Modules
               PROVE  /\ InWork(Enabling(n))' <=> n = m \/ InWork(Enabling(n))
                      /\ InWork(Disabling(n))' <=> InWork(Disabling(n))
    OBVIOUS
  <2>1. InWork(Enabling(n))' <=> Enabling(n) = Enabling(m) \/ InWork(Enabling(n))
    BY <1>1, Changes, ApprovalIsInWork DEF Enabling
  <2>2. InWork(Disabling(n))' <=> Disabling(n) = Enabling(m) \/ InWork(Disabling(n))
    BY <1>1, Changes, ApprovalIsInWork DEF Disabling
  <2> QED
    BY <2>1, <2>2, Changes
<1>5. LacksOnlyWhatCrossed'
  BY <1>1, <1>2 DEF LacksOnlyWhatCrossed
<1>6. WaitingOK'
  <2> SUFFICES ASSUME NEW n \in Modules
               PROVE  /\ InWork(Enabling(n))' =>
                           /\ n \in Implemented
                           /\ \A d \in Dependencies[n] : d \in enabled \/ <<n, d>> \in crossing'
                      /\ InWork(Enabling(n))' \/ n \in enabled =>
                           \A d \in Dependencies[n] :
                             InWork(Disabling(d))' => <<n, d>> \in crossing'
    BY <1>1 DEF WaitingOK
  <2>1. Dependencies[n] \subseteq Modules
    BY RegistryAssumption
  <2>2. CASE n = m
    BY <1>1, <1>2, <1>4, <2>1, <2>2 DEF Enableable
  <2>3. CASE n # m
    BY <1>1, <1>2, <1>4, <2>1, <2>3 DEF WaitingOK
  <2> QED
    BY <2>2, <2>3
<1> QED
  BY <1>3, <1>5, <1>6 DEF RegistryInv

\* The decision to disable: nothing that is enabled needs the module, and what is being
\* enabled and needs it is recorded.
LEMMA DecidingToDisable ==
  ASSUME RegistryInv, NEW u \in Managers, NEW m \in Modules, DecideDisable(u, m)
  PROVE  RegistryInv'
<1>1. /\ RegistryTypeOK /\ LacksOnlyWhatCrossed /\ WaitingOK
      /\ EnabledDependents(m, enabled) = {} /\ Approve(u, Disabling(m)) /\ enabled' = enabled
      /\ Disabling(m) \in ModuleChange
  BY Changes DEF RegistryInv, DecideDisable, Approve
<1>2. /\ crossing \subseteq crossing' /\ crossing' \subseteq Modules \X Modules
      /\ \A n \in Modules : m \in Dependencies[n] /\ InWork(Enabling(n)) => <<n, m>> \in crossing'
  BY <1>1 DEF DecideDisable, RegistryTypeOK
<1>3. RegistryTypeOK'
  BY <1>1, <1>2 DEF RegistryTypeOK, Approve
<1>4. \A n \in Modules : /\ InWork(Enabling(n))' <=> InWork(Enabling(n))
                         /\ InWork(Disabling(n))' <=> n = m \/ InWork(Disabling(n))
  <2> SUFFICES ASSUME NEW n \in Modules
               PROVE  /\ InWork(Enabling(n))' <=> InWork(Enabling(n))
                      /\ InWork(Disabling(n))' <=> n = m \/ InWork(Disabling(n))
    OBVIOUS
  <2>1. InWork(Enabling(n))' <=> Enabling(n) = Disabling(m) \/ InWork(Enabling(n))
    BY <1>1, Changes, ApprovalIsInWork DEF Enabling
  <2>2. InWork(Disabling(n))' <=> Disabling(n) = Disabling(m) \/ InWork(Disabling(n))
    BY <1>1, Changes, ApprovalIsInWork DEF Disabling
  <2> QED
    BY <2>1, <2>2, Changes
<1>5. LacksOnlyWhatCrossed'
  BY <1>1, <1>2 DEF LacksOnlyWhatCrossed
<1>6. WaitingOK'
  <2> SUFFICES ASSUME NEW n \in Modules, NEW d \in Dependencies[n]
               PROVE  /\ InWork(Enabling(n)) =>
                           n \in Implemented /\ (d \in enabled \/ <<n, d>> \in crossing')
                      /\ /\ InWork(Enabling(n)) \/ n \in enabled
                         /\ d = m \/ InWork(Disabling(d))
                         => <<n, d>> \in crossing'
    <3>1. \A n \in Modules : InWork(Enabling(n)) => n \in Implemented
      BY <1>1 DEF WaitingOK
    <3>2. \A n \in Modules : Dependencies[n] \subseteq Modules
      BY RegistryAssumption
    <3> QED
      BY <1>1, <1>4, <3>1, <3>2 DEF WaitingOK
  <2>1. /\ InWork(Enabling(n)) => n \in Implemented /\ (d \in enabled \/ <<n, d>> \in crossing)
        /\ (InWork(Enabling(n)) \/ n \in enabled) /\ InWork(Disabling(d)) => <<n, d>> \in crossing
    BY <1>1 DEF WaitingOK
  <2>2. d = m => n \notin enabled
    BY <1>1 DEF EnabledDependents
  <2> QED
    BY <1>2, <2>1, <2>2
<1> QED
  BY <1>3, <1>5, <1>6 DEF RegistryInv

\* The write of an enabling: what it was decided on is still there, or recorded.
LEMMA WritingEnabled ==
  ASSUME RegistryInv, NEW u \in Managers, NEW m \in Modules, WriteEnable(u, m)
  PROVE  RegistryInv'
<1>1. /\ RegistryTypeOK /\ LacksOnlyWhatCrossed /\ WaitingOK /\ Write(u, Enabling(m))
      /\ enabled' = enabled \cup {m} /\ crossing' = crossing
  BY DEF RegistryInv, WriteEnable
<1>2. /\ InWork(Enabling(m))
      /\ \A n \in Modules : /\ InWork(Enabling(n))' => InWork(Enabling(n))
                            /\ InWork(Disabling(n))' => InWork(Disabling(n))
  BY <1>1, Changes, WritingEndsWork
<1>3. RegistryTypeOK'
  BY <1>1 DEF RegistryTypeOK, Write
<1>4. \A d \in Dependencies[m] : d \in Modules
  BY RegistryAssumption
<1>5. LacksOnlyWhatCrossed'
  BY <1>1, <1>2 DEF LacksOnlyWhatCrossed, WaitingOK
<1>6. WaitingOK'
  <2> SUFFICES ASSUME NEW n \in Modules
               PROVE  /\ InWork(Enabling(n))' =>
                           /\ n \in Implemented
                           /\ \A d \in Dependencies[n] : d \in enabled' \/ <<n, d>> \in crossing
                      /\ InWork(Enabling(n))' \/ n \in enabled' =>
                           \A d \in Dependencies[n] :
                             InWork(Disabling(d))' => <<n, d>> \in crossing
    BY <1>1 DEF WaitingOK
  <2>1. \A d \in Dependencies[n] : d \in Modules
    BY RegistryAssumption
  <2>2. InWork(Enabling(n))' \/ n \in enabled' => InWork(Enabling(n)) \/ n \in enabled
    BY <1>1, <1>2
  <2> QED
    BY <1>1, <1>2, <2>1, <2>2 DEF WaitingOK
<1> QED
  BY <1>3, <1>5, <1>6 DEF RegistryInv

\* The write of a disabling: whoever needs the module was decided on against it.
LEMMA WritingDisabled ==
  ASSUME RegistryInv, NEW u \in Managers, NEW m \in Modules, WriteDisable(u, m)
  PROVE  RegistryInv'
<1>1. /\ RegistryTypeOK /\ LacksOnlyWhatCrossed /\ WaitingOK /\ Write(u, Disabling(m))
      /\ enabled' = enabled \ {m}
      /\ crossing' = {pair \in crossing : pair[1] # m \/ InWork(Enabling(m))}
  BY DEF RegistryInv, WriteDisable
<1>2. /\ InWork(Disabling(m))
      /\ \A n \in Modules : /\ InWork(Enabling(n))' => InWork(Enabling(n))
                            /\ InWork(Disabling(n))' => InWork(Disabling(n))
  BY <1>1, Changes, WritingEndsWork
<1>3. RegistryTypeOK'
  BY <1>1 DEF RegistryTypeOK, Write
<1>4. ASSUME NEW n \in Modules, n \in enabled' \/ InWork(Enabling(n))', NEW d \in Dependencies[n]
      PROVE  /\ n \in Implemented
             /\ d \in enabled' \/ <<n, d>> \in crossing'
             /\ InWork(Disabling(d))' => <<n, d>> \in crossing'
  <2>1. d \in Modules
    BY RegistryAssumption
  <2>2. <<n, d>> \in crossing => <<n, d>> \in crossing'
    BY <1>1, <1>2, <1>4
  <2>3. n \in enabled \/ InWork(Enabling(n))
    BY <1>1, <1>2, <1>4
  <2>4. n \in Implemented /\ (d \in enabled \/ <<n, d>> \in crossing)
    BY <1>1, <2>3 DEF LacksOnlyWhatCrossed, WaitingOK
  <2>5. InWork(Disabling(d)) => <<n, d>> \in crossing
    BY <1>1, <2>3 DEF WaitingOK
  <2>6. d = m => <<n, d>> \in crossing
    BY <1>2, <2>5
  <2> QED
    BY <1>1, <1>2, <2>1, <2>2, <2>4, <2>5, <2>6
<1>5. \A n \in Modules : n \in enabled' \/ InWork(Enabling(n))' => n \in Implemented
  <2>1. enabled \subseteq Modules
    BY <1>1 DEF RegistryTypeOK
  <2> QED
    BY <1>1, <1>2 DEF LacksOnlyWhatCrossed, WaitingOK
<1>6. LacksOnlyWhatCrossed'
  <2>1. enabled' \subseteq Modules
    BY <1>3 DEF RegistryTypeOK
  <2> QED
    BY <1>4, <1>5, <2>1 DEF LacksOnlyWhatCrossed
<1>7. WaitingOK'
  BY <1>4, <1>5 DEF WaitingOK
<1> QED
  BY <1>3, <1>6, <1>7 DEF RegistryInv

\* However many requests enable and disable modules at once, for any registry, an enabled
\* module is implemented and lacks only a dependency whose disabling was decided on while
\* its own enabling was, each before the other was written (enable and disable of
\* modules.service.ts, which decide outside the transaction that writes).
THEOREM OnlyCrossedIsLacking == RegistrySpec => []LacksOnlyWhatCrossed
<1>1. RegistryInit => RegistryInv
  <2> SUFFICES ASSUME RegistryInit PROVE RegistryInv
    OBVIOUS
  <2>1. \A change \in ModuleChange : ~InWork(change)
    BY NoChangeAssumption DEF RegistryInit, InWork
  <2>2. \A m \in Modules : ~InWork(Enabling(m)) /\ ~InWork(Disabling(m))
    BY <2>1, Changes
  <2>3. \A m \in Modules : Dependencies[m] \subseteq Modules
    BY RegistryAssumption
  <2>4. RegistryTypeOK
    BY RegistryAssumption DEF RegistryInit, RegistryTypeOK
  <2>5. LacksOnlyWhatCrossed
    BY RegistryAssumption DEF RegistryInit, LacksOnlyWhatCrossed
  <2>6. WaitingOK
    BY <2>2, <2>3 DEF WaitingOK
  <2> QED
    BY <2>4, <2>5, <2>6 DEF RegistryInv
<1>2. RegistryInv /\ [RegistryNext]_registryVars => RegistryInv'
  <2> SUFFICES ASSUME RegistryInv, [RegistryNext]_registryVars PROVE RegistryInv'
    OBVIOUS
  <2>1. ASSUME NEW u \in Managers, NEW m \in Modules,
               \/ DecideEnable(u, m) \/ DecideDisable(u, m)
               \/ WriteEnable(u, m) \/ WriteDisable(u, m)
        PROVE  RegistryInv'
    BY <2>1, DecidingToEnable, DecidingToDisable, WritingEnabled, WritingDisabled
  <2>2. CASE UNCHANGED registryVars
    BY <2>2 DEF registryVars, RegistryInv, RegistryTypeOK, LacksOnlyWhatCrossed, WaitingOK, InWork
  <2> QED
    BY <2>1, <2>2 DEF RegistryNext
<1>3. RegistryInv => LacksOnlyWhatCrossed
  BY DEF RegistryInv
<1> QED
  BY <1>1, <1>2, <1>3, PTL DEF RegistrySpec
=============================================================================
