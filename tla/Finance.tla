------------------------------ MODULE Finance ------------------------------
(***************************************************************************)
(* The money of one company (apps/api/src/finance.service.ts): the status  *)
(* and paid amount of the sales, purchases and expenses money is owed      *)
(* for, their accounts receivable and payable, the payments that settle    *)
(* them, and the cash sessions the payments are booked in.                 *)
(*                                                                         *)
(* A source is a sale, a purchase or an expense; its account is the one    *)
(* its confirmation opens when it is on credit.  The status a registered   *)
(* expense has (REGISTERED) is written CONFIRMED here.                     *)
(***************************************************************************)
EXTENDS Integers, Sequences, FiniteSets, FiniteSetsExt, Sources

CONSTANTS
  Tills,             \* the pairs of a cash account and a user
  Amounts,           \* the amounts a request may carry, in cents
  ReversalRuns,      \* see ReversePayment
  MaxPayments,       \* bound: the payments a behaviour registers
  MaxSessions        \* bound: the cash sessions a behaviour opens

ASSUME FinanceAssumption ==
  /\ Amounts \subseteq Nat
  /\ ReversalRuns \in BOOLEAN
  /\ MaxPayments \in Nat
  /\ MaxSessions \in Nat

VARIABLES
  header,    \* status and paid_amount of each source
  account,   \* the account receivable or payable of each source
  payments,  \* the payments in the order they were committed
  sessions   \* the cash sessions in the order they were opened

financeVars == <<header, account, payments, sessions>>

HeaderStatus  == {"NONE", "DRAFT", "CONFIRMED", "PARTIALLY_PAID", "PAID", "CANCELLED"}
AccountStatus == {"NONE", "OPEN", "PARTIALLY_PAID", "PAID", "CANCELLED"}

Header  == [status : HeaderStatus, paid : Nat]
Account == [status : AccountStatus, principal : Nat, applied : Nat, outstanding : Nat]
Payment == [source : Sources \cup {NoSource}, direction : {"INBOUND", "OUTBOUND"},
            method : {"CASH", "OTHER"}, amount : Nat, session : Nat,
            booked : BOOLEAN, status : {"POSTED", "REVERSED"}, reverses : Nat]
Session == [till : Tills, status : {"OPEN", "CLOSED"}, counted : SUBSET Nat]

NoAccount == [status |-> "NONE", principal |-> 0, applied |-> 0, outstanding |-> 0]

FinanceInit ==
  /\ header = [x \in Sources |-> [status |-> "NONE", paid |-> 0]]
  /\ account = [x \in Sources |-> NoAccount]
  /\ payments = <<>>
  /\ sessions = <<>>

-----------------------------------------------------------------------------
\* A sale is paid by what comes in, a purchase or an expense by what goes out.
DirectionOf(x) == IF x \in Sales THEN "INBOUND" ELSE "OUTBOUND"
Opposite(direction) == IF direction = "INBOUND" THEN "OUTBOUND" ELSE "INBOUND"

\* An expense has no paid_amount column.
KeepsPaid(x) == x \notin Expenses

\* The account a confirmation on credit opens.
OpenedAccount(total) ==
  [status |-> "OPEN", principal |-> total, applied |-> 0, outstanding |-> total]

Payable(a) == a.status \in {"OPEN", "PARTIALLY_PAID"}

\* Mutant: the principal is not looked at.
AppliableBeyond(a, amount) == amount > 0

\* applyBalance: the part of the principal that is applied may only grow to it.
Appliable(a, amount) == amount > 0 /\ a.applied + amount <= a.principal

\* Mutant: the payment takes the place of what was applied before.
ApplyOverwriting(a, amount) ==
  [a EXCEPT !.applied = amount, !.outstanding = a.principal - amount,
            !.status = IF a.principal = amount THEN "PAID" ELSE "PARTIALLY_PAID"]

ApplyBalance(a, amount) ==
  LET rest == a.principal - (a.applied + amount)
  IN  [status |-> IF rest = 0 THEN "PAID" ELSE "PARTIALLY_PAID",
       principal |-> a.principal, applied |-> a.applied + amount, outstanding |-> rest]

\* Mutant: only a sale keeps what was paid.
HeaderAfterPaymentOfSales(x, h, a) ==
  [status |-> IF a.status = "PAID" THEN "PAID" ELSE "PARTIALLY_PAID",
   paid   |-> IF x \in Sales THEN a.applied ELSE h.paid]

\* The source takes over what its account says.
HeaderAfterPayment(x, h, a) ==
  [status |-> IF a.status = "PAID" THEN "PAID" ELSE "PARTIALLY_PAID",
   paid   |-> IF KeepsPaid(x) THEN a.applied ELSE h.paid]

\* Mutant: the status of the account is left as the payment set it.
UnapplyKeepingStatus(a, amount) ==
  [a EXCEPT !.applied = @ - amount, !.outstanding = @ + amount]

\* What a reversal gives back to the account, computed in the statement itself.
UnapplyBalance(a, amount) ==
  [a EXCEPT !.applied = @ - amount, !.outstanding = @ + amount,
            !.status = IF a.applied - amount = 0 THEN "OPEN" ELSE "PARTIALLY_PAID"]

\* A sale or a purchase looks at its own paid amount, an expense at its account.
HeaderAfterReversal(x, h, a, amount) ==
  LET rest == IF KeepsPaid(x) THEN h.paid - amount ELSE a.applied
  IN  [status |-> IF rest <= 0 THEN "CONFIRMED" ELSE "PARTIALLY_PAID",
       paid   |-> IF KeepsPaid(x) THEN Max({0, rest}) ELSE h.paid]

-----------------------------------------------------------------------------
\* The cash movements of session c are those of the payments booked in it; its
\* opening movement is left out, as the closing query does.
MovementsOf(c) ==
  {n \in DOMAIN payments : payments[n].booked /\ payments[n].session = c}

\* The account a of source x as it was read, and the source, after a payment.
Settle(x, a, amount) ==
  /\ account' = [account EXCEPT ![x] = ApplyBalance(a, amount)]
  /\ header' = [header EXCEPT ![x] = HeaderAfterPayment(x, @, ApplyBalance(a, amount))]

PostPayment(x, direction, method, amount, c, booked) ==
  /\ Len(payments) < MaxPayments
  /\ payments' = Append(payments,
       [source |-> x, direction |-> direction, method |-> method, amount |-> amount,
        session |-> c, booked |-> booked, status |-> "POSTED", reverses |-> 0])

\* A payment of x (NoSource: of nothing), naming cash session c (0: none) and,
\* when it is booked, a cash account.  Only a CASH payment has them looked at.
RegisterPayment(x, direction, method, amount, c, booked) ==
  /\ amount > 0
  /\ x # NoSource => direction = DirectionOf(x)
  /\ method = "CASH" => booked /\ c # 0 /\ sessions[c].status = "OPEN"
  /\ \/ /\ x = NoSource
        /\ UNCHANGED <<header, account>>
     \/ /\ x # NoSource
        /\ Payable(account[x])
        /\ Appliable(account[x], amount)
        /\ Settle(x, account[x], amount)
  /\ PostPayment(x, direction, method, amount, c, booked)
  /\ UNCHANGED sessions

\* The reversal of payment n posts the opposite payment in the same session,
\* open or not.  The applications of a reversal are not reversed with it.
\*
\* The code reads the applications with SELECT ... FOR UPDATE over two LEFT
\* JOINs, which PostgreSQL refuses: deployed, no reversal commits, and
\* ReversalRuns is FALSE.  TRUE stands for the same code with that lock
\* narrowed to payment_applications, so that what follows it is checked too.
ReversePayment(n) ==
  LET p == payments[n]
      x == IF p.reverses = 0 THEN p.source ELSE NoSource
  IN  /\ ReversalRuns
      /\ Len(payments) < MaxPayments
      /\ p.status = "POSTED"
      /\ \/ /\ x = NoSource
            /\ UNCHANGED <<header, account>>
         \/ /\ x # NoSource
            /\ account' = [account EXCEPT ![x] = UnapplyBalance(@, p.amount)]
            /\ header' = [header EXCEPT
                 ![x] = HeaderAfterReversal(x, @, account'[x], p.amount)]
      /\ payments' = Append([payments EXCEPT ![n].status = "REVERSED"],
           [p EXCEPT !.source = x, !.direction = Opposite(@), !.reverses = n])
      /\ UNCHANGED sessions

\* cash_sessions_one_open: one open session for a cash account and a user.
TillFree(till) ==
  \A c \in DOMAIN sessions : ~(sessions[c].till = till /\ sessions[c].status = "OPEN")

AppendSession(till) ==
  /\ Len(sessions) < MaxSessions
  /\ sessions' = Append(sessions, [till |-> till, status |-> "OPEN", counted |-> {}])

OpenCashSession(till) ==
  /\ TillFree(till)
  /\ AppendSession(till)
  /\ UNCHANGED <<header, account, payments>>

\* The expected balance is the opening balance and what the movements sum up to;
\* the balance a person counts, and why it differs, are left out.
CloseSession(c, N) ==
  sessions' = [sessions EXCEPT ![c].status = "CLOSED", ![c].counted = N]

CloseCashSession(c) ==
  /\ sessions[c].status = "OPEN"
  /\ CloseSession(c, MovementsOf(c))
  /\ UNCHANGED <<header, account, payments>>

FinanceNext ==
  \/ \E x \in Sources \cup {NoSource}, direction \in {"INBOUND", "OUTBOUND"},
        method \in {"CASH", "OTHER"}, amount \in Amounts,
        c \in {0} \cup DOMAIN sessions, booked \in BOOLEAN :
       RegisterPayment(x, direction, method, amount, c, booked)
  \/ \E n \in DOMAIN payments : ReversePayment(n)
  \/ \E till \in Tills : OpenCashSession(till)
  \/ \E c \in DOMAIN sessions : CloseCashSession(c)

-----------------------------------------------------------------------------
FinanceTypeOK ==
  /\ header \in [Sources -> Header]
  /\ account \in [Sources -> Account]
  /\ payments \in Seq(Payment)
  /\ sessions \in Seq(Session)

\* The status a source has while its account has status t.
StatusUnder(t) == IF t \in {"NONE", "OPEN"} THEN "CONFIRMED" ELSE t

Balanced(a) ==
  IF a.status = "CANCELLED" THEN a.applied = 0 /\ a.outstanding = 0
                            ELSE a.applied + a.outstanding = a.principal

Agrees(x, h, a) ==
  /\ a.status # "NONE" => h.status = StatusUnder(a.status)
  /\ h.status \in {"PARTIALLY_PAID", "PAID"} => a.status # "NONE"
  /\ Balanced(a)
  /\ a.status = "PAID" <=> a.applied > 0 /\ a.outstanding = 0
  /\ a.status = "PARTIALLY_PAID" <=> a.applied > 0 /\ a.outstanding > 0
  /\ h.paid = IF KeepsPaid(x) THEN a.applied ELSE 0

\* A source and its account are two rows, written by four handlers through
\* different statements.  They must agree: the account is opened with the
\* confirmation and cancelled with the source, its balances add up to the
\* principal until it is cancelled with nothing applied, its status is the one
\* its balances call for, and what the source counts as paid is what is applied.
AccountAgreesWithSource == \A x \in Sources : Agrees(x, header[x], account[x])

\* The payments that stand: posted, neither a reversal nor reversed.
Standing(n) == payments[n].status = "POSTED" /\ payments[n].reverses = 0

\* What the payments N of the sequence ps amount to.
AmountOf(ps, N) == MapThenSumSet(LAMBDA n : ps[n].amount, N)

\* What an account counts as applied is exactly the payments that stand: no
\* payment is counted twice, lost by an overwriting update, or given back twice.
AppliedIsWhatStands ==
  \A x \in Sources :
    account[x].applied =
      AmountOf(payments, {n \in DOMAIN payments : payments[n].source = x /\ Standing(n)})
=============================================================================
