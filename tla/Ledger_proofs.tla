---------------------------- MODULE Ledger_proofs ----------------------------
(***************************************************************************)
(* Theorems of SalesLedger for every number of sales, items, warehouses,   *)
(* documents and payments, whether reversals commit or not: the accounts   *)
(* agree with the sources and are what the standing payments sum up to,    *)
(* the balances are what the movements sum up to, the stock of a sale      *)
(* moves once, its documents stand alone, the numbers of a series are used *)
(* once, and nothing is left of a sale that is cancelled.                  *)
(*                                                                         *)
(* After them the theorems of Procurement, whose purchases and expenses    *)
(* share stock and accounts with the sales.                                *)
(***************************************************************************)
EXTENDS Procurement, Stock_proofs

-----------------------------------------------------------------------------
(* What the standing payments of a source amount to, under the two writes  *)
(* that change it.                                                         *)

\* The payments of the sequence ps that stand for source x.
StandingFor(ps, x) ==
  {n \in DOMAIN ps : ps[n].source = x /\ ps[n].status = "POSTED" /\ ps[n].reverses = 0}

AmountsOf(ps, N) == [n \in N |-> ps[n].amount]

LEMMA AmountIsSum ==
  ASSUME NEW ps, NEW N, IsFiniteSet(N)
  PROVE  AmountOf(ps, N) = SumOver(AmountsOf(ps, N), N)
<1> DEFINE Sums(g) == g = [T \in SUBSET N |->
             IF T = {} THEN 0 ELSE ps[Chosen(T)].amount + g[T \ {Chosen(T)}]]
           k == CHOOSE g : Sums(g)
<1>1. AmountOf(ps, N) = k[N]
  BY DEF AmountOf, MapThenSumSet, MapThenFoldSet, Chosen
<1>2. ASSUME NEW g PROVE Sums(g) <=> SumsWithin(AmountsOf(ps, N), N, g)
  <2>1. \A T \in SUBSET N : T # {} => AmountsOf(ps, N)[Chosen(T)] = ps[Chosen(T)].amount
    BY ChosenIsIn DEF AmountsOf
  <2> QED
    BY <2>1 DEF SumsWithin
<1>3. SumsWithin(AmountsOf(ps, N), N, k)
  BY <1>2, SumsExist
<1> HIDE DEF k
<1> QED
  BY <1>1, <1>3, SumsAreOver, N \in SUBSET N

\* Payments are finitely many, and their amounts naturals.
LEMMA StandingIsFinite ==
  ASSUME NEW ps \in Seq(Payment), NEW x
  PROVE  /\ IsFiniteSet(StandingFor(ps, x))
         /\ \A n \in StandingFor(ps, x) : ps[n].amount \in Nat
         /\ StandingFor(ps, x) \subseteq DOMAIN ps
<1>1. DOMAIN ps = 1 .. Len(ps) /\ Len(ps) \in Nat
  BY LenProperties
<1>2. IsFiniteSet(DOMAIN ps)
  BY <1>1, FS_Interval
<1>3. StandingFor(ps, x) \in SUBSET DOMAIN ps
  BY DEF StandingFor
<1>4. \A n \in DOMAIN ps : ps[n].amount \in Nat
  <2>1. \A n \in 1 .. Len(ps) : ps[n] \in Payment
    BY ElementOfSeq
  <2> QED
    BY <1>1, <2>1 DEF Payment
<1> QED
  BY <1>2, <1>3, <1>4, FS_Subset

\* What stands is at least each payment that stands, and nothing where none does.
LEMMA StandingIsAtLeast ==
  ASSUME NEW ps \in Seq(Payment), NEW x
  PROVE  /\ AmountOf(ps, StandingFor(ps, x)) \in Nat
         /\ \A n \in StandingFor(ps, x) : AmountOf(ps, StandingFor(ps, x)) >= ps[n].amount
<1> DEFINE N == StandingFor(ps, x)
           f == AmountsOf(ps, N)
<1>1. IsFiniteSet(N) /\ \A n \in N : f[n] = ps[n].amount /\ f[n] \in Nat
  BY StandingIsFinite DEF AmountsOf
<1>2. AmountOf(ps, N) = SumOver(f, N)
  BY <1>1, AmountIsSum
<1> HIDE DEF f, N
<1>3. SumOver(f, N) \in Nat
  BY <1>1, SumIsNat
<1>4. \A n \in N : SumOver(f, N) >= f[n]
  BY <1>1, SumIsAtLeast
<1> QED
  BY <1>1, <1>2, <1>3, <1>4 DEF N

\* A set of payments that are the same in two sequences amounts to the same.
LEMMA AmountOfSame ==
  ASSUME NEW ps, NEW qs, NEW N, IsFiniteSet(N), \A n \in N : ps[n].amount = qs[n].amount
  PROVE  AmountOf(ps, N) = AmountOf(qs, N)
<1>1. SumOver(AmountsOf(ps, N), N) = SumOver(AmountsOf(qs, N), N)
  <2>1. \A n \in N : AmountsOf(ps, N)[n] = AmountsOf(qs, N)[n]
    BY DEF AmountsOf
  <2> QED
    BY <2>1, SumOfSame
<1> QED
  BY <1>1, AmountIsSum

\* One payment more, or one less.
LEMMA AmountWithout ==
  ASSUME NEW ps, NEW N, IsFiniteSet(N), \A n \in N : ps[n].amount \in Nat, NEW e \in N
  PROVE  /\ AmountOf(ps, N) = ps[e].amount + AmountOf(ps, N \ {e})
         /\ AmountOf(ps, N \ {e}) \in Nat
<1> DEFINE R == N \ {e}
           f == AmountsOf(ps, N)
           r == AmountsOf(ps, R)
<1>1. IsFiniteSet(R)
  BY FS_Subset, R \in SUBSET N
<1>2. \A n \in N : f[n] = ps[n].amount /\ f[n] \in Int
  BY DEF AmountsOf
<1>3. \A n \in R : r[n] = f[n] /\ r[n] \in Nat
  BY DEF AmountsOf
<1>4. AmountOf(ps, N) = SumOver(f, N) /\ AmountOf(ps, R) = SumOver(r, R)
  BY <1>1, AmountIsSum
<1> HIDE DEF f, r
<1>5. SumOver(f, N) = f[e] + SumOver(f, R)
  BY <1>2, SumWithout
<1> HIDE DEF R
<1>6. SumOver(f, R) = SumOver(r, R)
  BY <1>1, <1>3, SumOfSame
<1>7. SumOver(r, R) \in Nat
  BY <1>1, <1>3, SumIsNat
<1> QED
  BY <1>2, <1>4, <1>5, <1>6, <1>7 DEF R

\* A payment that is posted adds its amount to what stands for its source.
LEMMA PayingAdds ==
  ASSUME NEW ps \in Seq(Payment), NEW p \in Payment, p.status = "POSTED", p.reverses = 0, NEW x
  PROVE  LET qs == Append(ps, p)
         IN  AmountOf(qs, StandingFor(qs, x)) =
               AmountOf(ps, StandingFor(ps, x)) + IF p.source = x THEN p.amount ELSE 0
<1> DEFINE qs == Append(ps, p)
           N == StandingFor(ps, x)
           M == StandingFor(qs, x)
           e == Len(ps) + 1
<1>1. /\ qs \in Seq(Payment)
      /\ DOMAIN ps = 1 .. Len(ps) /\ Len(ps) \in Nat
      /\ DOMAIN qs = 1 .. e
      /\ \A n \in DOMAIN ps : qs[n] = ps[n]
      /\ qs[e] = p
  BY AppendProperties, LenProperties
<1> HIDE DEF qs
<1>2. IsFiniteSet(N) /\ (\A n \in N : ps[n].amount \in Nat) /\ N \subseteq DOMAIN ps
  BY StandingIsFinite
<1>3. IsFiniteSet(M) /\ \A n \in M : qs[n].amount \in Nat
  BY <1>1, StandingIsFinite
<1>4. AmountOf(ps, N) = AmountOf(qs, N)
  BY <1>1, <1>2, AmountOfSame
<1>5. AmountOf(ps, N) \in Nat /\ p.amount \in Nat
  BY StandingIsAtLeast DEF Payment
<1>6. p.source = x => AmountOf(qs, M) = AmountOf(ps, N) + p.amount
  <2> SUFFICES ASSUME p.source = x PROVE AmountOf(qs, M) = AmountOf(ps, N) + p.amount
    OBVIOUS
  <2>1. e \in M /\ M \ {e} = N
    BY <1>1 DEF StandingFor
  <2> HIDE DEF M, N, e
  <2>2. AmountOf(qs, M) = qs[e].amount + AmountOf(qs, M \ {e})
    BY <1>3, <2>1, AmountWithout
  <2>3. AmountOf(qs, M \ {e}) = AmountOf(ps, N)
    BY <1>4, <2>1
  <2>4. qs[e].amount = p.amount
    BY <1>1
  <2> HIDE DEF qs
  <2> QED
    BY <1>5, <2>2, <2>3, <2>4
<1>7. p.source # x => AmountOf(qs, M) = AmountOf(ps, N) + 0
  <2>1. p.source # x => M = N
    BY <1>1 DEF StandingFor
  <2> QED
    BY <1>4, <1>5, <2>1
<1> QED
  BY <1>6, <1>7 DEF qs

\* The payments after payment n of ps is reversed by r.
Reversed(ps, n, r) == Append([ps EXCEPT ![n].status = "REVERSED"], r)

\* A payment that is reversed no longer counts, and its reversal never does.
LEMMA ReversingTakes ==
  ASSUME NEW ps \in Seq(Payment), NEW n \in DOMAIN ps, ps[n].status = "POSTED",
         NEW r \in Payment, r.reverses # 0, NEW x
  PROVE  AmountOf(ps, StandingFor(ps, x)) =
           AmountOf(Reversed(ps, n, r), StandingFor(Reversed(ps, n, r), x))
             + IF ps[n].reverses = 0 /\ ps[n].source = x THEN ps[n].amount ELSE 0
<1> DEFINE v == [ps[n] EXCEPT !.status = "REVERSED"]
           us == [ps EXCEPT ![n] = v]
           qs == Reversed(ps, n, r)
           N == StandingFor(ps, x)
           M == StandingFor(qs, x)
<1>1. DOMAIN ps = 1 .. Len(ps) /\ Len(ps) \in Nat /\ ps[n] \in Payment
  BY LenProperties, ElementOfSeq
<1>2. /\ v \in Payment
      /\ v.status = "REVERSED"
      /\ v.amount = ps[n].amount
  BY <1>1 DEF Payment
<1> HIDE DEF v
<1>3. us \in Seq(Payment) /\ Len(us) = Len(ps)
  BY <1>1, <1>2, ExceptSeq
<1>4. us[n] = v /\ \A m \in DOMAIN ps : m # n => us[m] = ps[m]
  BY <1>1
<1>5. qs = Append(us, r)
  BY <1>1 DEF v, Reversed
<1> HIDE DEF us, qs
<1>6. /\ qs \in Seq(Payment)
      /\ DOMAIN qs = 1 .. Len(ps) + 1
      /\ \A m \in DOMAIN ps : qs[m] = us[m]
      /\ qs[Len(ps) + 1] = r
  <2>1. /\ Append(us, r) \in Seq(Payment)
        /\ Len(Append(us, r)) = Len(us) + 1
        /\ \A m \in 1 .. Len(us) : Append(us, r)[m] = us[m]
        /\ Append(us, r)[Len(us) + 1] = r
    BY <1>3, AppendProperties
  <2>2. DOMAIN qs = 1 .. Len(qs)
    BY <1>5, <2>1, LenProperties
  <2> QED
    BY <1>1, <1>3, <1>5, <2>1, <2>2
<1>7. IsFiniteSet(N) /\ (\A m \in N : ps[m].amount \in Nat) /\ N \subseteq DOMAIN ps
  BY StandingIsFinite
<1>8. IsFiniteSet(M) /\ \A m \in M : qs[m].amount \in Nat
  BY <1>6, StandingIsFinite
<1>9. M = N \ {n}
  BY <1>1, <1>2, <1>4, <1>6 DEF StandingFor
<1>10. AmountOf(qs, M) = AmountOf(ps, M) /\ AmountOf(qs, M) \in Nat
  <2>1. \A m \in M : qs[m].amount = ps[m].amount
    BY <1>4, <1>6, <1>7, <1>9
  <2>2. AmountOf(qs, M) \in Nat
    BY <1>6, StandingIsAtLeast
  <2> QED
    BY <1>8, <2>1, <2>2, AmountOfSame
<1>11. n \in N <=> ps[n].reverses = 0 /\ ps[n].source = x
  BY DEF StandingFor
<1> HIDE DEF M, N
<1>12. ASSUME n \in N PROVE AmountOf(ps, N) = AmountOf(qs, M) + ps[n].amount
  <2>1. AmountOf(ps, N) = ps[n].amount + AmountOf(ps, N \ {n})
    BY <1>7, <1>12, AmountWithout
  <2>2. ps[n].amount \in Nat
    BY <1>7, <1>12
  <2> QED
    BY <1>9, <1>10, <2>1, <2>2
<1>13. ASSUME n \notin N PROVE AmountOf(ps, N) = AmountOf(qs, M) + 0
  <2>1. M = N
    BY <1>9, <1>13
  <2> QED
    BY <1>10, <2>1
<1> QED
  BY <1>11, <1>12, <1>13 DEF M, N, qs

-----------------------------------------------------------------------------
(* A source and its account under the operators that write them.           *)

\* A payment that applyBalance lets through leaves a well-formed source and
\* account that agree (finance.service.ts registerPayment).
LEMMA SettlingAgrees ==
  ASSUME NEW x \in Sources, NEW h \in Header, NEW a \in Account, NEW amount \in Nat,
         Agrees(x, h, a), Payable(a), Appliable(a, amount)
  PROVE  LET b == ApplyBalance(a, amount)
             g == HeaderAfterPayment(x, h, b)
         IN  /\ b \in Account
             /\ g \in Header
             /\ Agrees(x, g, b)
             /\ b.applied = a.applied + amount
             /\ {h.status, g.status} \subseteq Sold
<1> DEFINE rest == a.principal - (a.applied + amount)
           b == ApplyBalance(a, amount)
           g == HeaderAfterPayment(x, h, b)
<1>1. /\ a.applied + amount \in Nat \ {0}
      /\ rest \in Nat
      /\ a.applied + amount + rest = a.principal
  BY DEF Account, Appliable
<1>2. b = [status |-> IF rest = 0 THEN "PAID" ELSE "PARTIALLY_PAID",
           principal |-> a.principal, applied |-> a.applied + amount, outstanding |-> rest]
  BY DEF Account, ApplyBalance
<1>3. b \in Account
  BY <1>1, <1>2 DEF Account, AccountStatus
<1>4. g.status = b.status /\ g.paid = IF KeepsPaid(x) THEN b.applied ELSE h.paid
  BY <1>2 DEF HeaderAfterPayment
<1>5. h.paid = IF KeepsPaid(x) THEN a.applied ELSE 0
  BY DEF Agrees
<1>6. g \in Header
  BY <1>2, <1>3 DEF Header, HeaderStatus, HeaderAfterPayment, Account
<1>7. Agrees(x, g, b)
  BY <1>1, <1>2, <1>4, <1>5 DEF Agrees, StatusUnder, Balanced
<1>8. {h.status, g.status} \subseteq Sold
  BY <1>2, <1>4 DEF Agrees, Payable, StatusUnder, Sold
<1> QED
  BY <1>2, <1>3, <1>6, <1>7, <1>8

\* A draft has no account that anything was applied to, and keeps agreeing when
\* it is confirmed, with an account of its whole total or with none.
LEMMA ConfirmingAgrees ==
  ASSUME NEW x \in Sources, NEW h \in Header, NEW a \in Account, NEW total \in Nat,
         Agrees(x, h, a), h.status = "DRAFT"
  PROVE  LET g == [h EXCEPT !.status = "CONFIRMED"]
         IN  /\ g \in Header
             /\ OpenedAccount(total) \in Account
             /\ Agrees(x, g, a)
             /\ Agrees(x, g, OpenedAccount(total))
             /\ a.status = "NONE"
             /\ a.applied = 0
             /\ OpenedAccount(total).applied = 0
  BY DEF Header, HeaderStatus, Account, AccountStatus, Agrees, OpenedAccount,
         StatusUnder, Balanced

\* What a reversal gives back was applied before, so the account and its source
\* agree again after it (finance.service.ts reversePayment).
LEMMA ReversingAgrees ==
  ASSUME NEW x \in Sources, NEW h \in Header, NEW a \in Account, NEW amount \in Nat \ {0},
         Agrees(x, h, a), a.applied >= amount
  PROVE  LET b == UnapplyBalance(a, amount)
             g == HeaderAfterReversal(x, h, b, amount)
         IN  /\ b \in Account
             /\ g \in Header
             /\ Agrees(x, g, b)
             /\ b.applied = a.applied - amount
             /\ {h.status, g.status} \subseteq Sold
<1> DEFINE b == UnapplyBalance(a, amount)
           g == HeaderAfterReversal(x, h, b, amount)
           rest == a.applied - amount
<1>1. /\ rest \in Nat /\ a.applied \in Nat \ {0}
      /\ a.outstanding \in Nat /\ a.principal \in Nat
  BY DEF Account
<1>2. a.applied + a.outstanding = a.principal /\ a.status \in {"PARTIALLY_PAID", "PAID"}
  BY <1>1 DEF Agrees, Balanced, Account, AccountStatus
<1>3. /\ b.status = IF rest = 0 THEN "OPEN" ELSE "PARTIALLY_PAID"
      /\ b.principal = a.principal
      /\ b.applied = rest
      /\ b.outstanding = a.outstanding + amount
      /\ b \in Account
  <2>1. b.status = IF rest = 0 THEN "OPEN" ELSE "PARTIALLY_PAID"
    BY DEF UnapplyBalance, Account
  <2>2. b.principal = a.principal
    BY DEF UnapplyBalance, Account
  <2>3. b.applied = rest
    BY DEF UnapplyBalance, Account
  <2>4. b.outstanding = a.outstanding + amount
    BY DEF UnapplyBalance, Account
  <2>5. b \in Account
    <3> DEFINE status == IF a.applied - amount = 0 THEN "OPEN" ELSE "PARTIALLY_PAID"
    <3>1. status \in AccountStatus /\ a.outstanding + amount \in Nat /\ a.applied - amount \in Nat
      BY <1>1 DEF AccountStatus
    <3>2. b = [a EXCEPT !.applied = a.applied - amount, !.outstanding = a.outstanding + amount,
                        !.status = status]
      BY DEF UnapplyBalance
    <3> HIDE DEF status, b
    <3> QED
      BY <3>1, <3>2 DEF Account
  <2> QED
    BY <2>1, <2>2, <2>3, <2>4, <2>5
<1>4. h.paid = (IF KeepsPaid(x) THEN a.applied ELSE 0) /\ h.status = a.status
  BY <1>2 DEF Agrees, StatusUnder
<1>5. Max({0, rest}) = rest
  BY <1>1 DEF Max
<1>6. /\ g.status = IF rest = 0 THEN "CONFIRMED" ELSE "PARTIALLY_PAID"
      /\ g.paid = IF KeepsPaid(x) THEN rest ELSE 0
      /\ g \in Header
  <2>1. CASE KeepsPaid(x)
    BY <1>1, <1>4, <1>5, <2>1 DEF HeaderAfterReversal, Header, HeaderStatus
  <2>2. CASE ~KeepsPaid(x)
    BY <1>1, <1>3, <1>4, <2>2 DEF HeaderAfterReversal, Header, HeaderStatus
  <2> QED
    BY <2>1, <2>2
<1> HIDE DEF b, g
<1>7. b.outstanding > 0 /\ b.applied + b.outstanding = b.principal
  BY <1>1, <1>2, <1>3
<1>8. Agrees(x, g, b)
  <2>1. CASE rest = 0
    BY <1>1, <1>3, <1>6, <1>7, <2>1 DEF Agrees, StatusUnder, Balanced
  <2>2. CASE rest # 0
    BY <1>1, <1>3, <1>6, <1>7, <2>2 DEF Agrees, StatusUnder, Balanced
  <2> QED
    BY <2>1, <2>2
<1>9. {h.status, g.status} \subseteq Sold
  BY <1>2, <1>4, <1>6 DEF Sold
<1> QED
  BY <1>3, <1>6, <1>8, <1>9 DEF b, g

\* A source that is cancelled with nothing applied agrees with its account, which
\* is cancelled with it, or with the one it never had.
LEMMA CancellingAgrees ==
  ASSUME NEW x \in Sources, NEW h \in Header, NEW a \in Account,
         Agrees(x, h, a), h.status \in {"DRAFT", "CONFIRMED"}, a.applied = 0
  PROVE  LET g == [h EXCEPT !.status = "CANCELLED"]
         IN  /\ g \in Header
             /\ CancelledAccount(a) \in Account
             /\ a.status = "NONE" => Agrees(x, g, a)
             /\ a.status # "NONE" => Agrees(x, g, CancelledAccount(a))
             /\ a.status \in {"NONE", "OPEN"}
             /\ CancelledAccount(a).applied = 0
<1> DEFINE g == [h EXCEPT !.status = "CANCELLED"]
<1>1. g = [status |-> "CANCELLED", paid |-> h.paid] /\ h.paid = 0 /\ g \in Header
  BY DEF Header, HeaderStatus, Agrees
<1>2. CancelledAccount(a) = [status |-> "CANCELLED", principal |-> a.principal,
                             applied |-> 0, outstanding |-> 0]
  BY DEF Account, CancelledAccount
<1>3. CancelledAccount(a) \in Account
  BY <1>2 DEF Account, AccountStatus
<1>4. a.status \in {"NONE", "OPEN"}
  BY DEF Account, AccountStatus, Agrees, StatusUnder
<1>5. a.status = "NONE" => Agrees(x, g, a)
  BY <1>1 DEF Agrees, Account
<1>6. Agrees(x, g, CancelledAccount(a))
  BY <1>1, <1>2 DEF Agrees, StatusUnder, Balanced
<1> QED
  BY <1>1, <1>2, <1>3, <1>4, <1>5, <1>6

\* A sale that is created has no account yet, and agrees as a draft.
LEMMA CreatingAgrees ==
  ASSUME NEW x \in Sources, NEW h \in Header, NEW a \in Account,
         Agrees(x, h, a), h.status = "NONE"
  PROVE  LET g == [h EXCEPT !.status = "DRAFT"]
         IN  g \in Header /\ Agrees(x, g, a)
  BY DEF Header, HeaderStatus, Account, AccountStatus, Agrees, StatusUnder, Balanced

-----------------------------------------------------------------------------
(* The inductive invariant: a source never falls back to a status that lets *)
(* its handler run twice because its account agrees with it; a source that  *)
(* was paid cannot be cancelled, and a payment cannot be given back twice,  *)
(* because what is applied is the sum of the payments that stand.           *)

\* Every payment is of something, and what is applied is the sum of those that
\* stand.
MoneyStands ==
  /\ \A n \in DOMAIN payments : payments[n].amount > 0
  /\ \A x \in Sources : account[x].applied = AmountOf(payments, StandingFor(payments, x))

LedgerInv == TypeOK /\ AccountAgreesWithSource /\ MoneyStands /\ StockLedger

LEMMA StandingMoney ==
  ASSUME LedgerInv
  PROVE  /\ AppliedIsWhatStands
         /\ \A n \in DOMAIN payments : Standing(n) /\ payments[n].source \in Sources =>
              account[payments[n].source].applied >= payments[n].amount
<1>1. payments \in Seq(Payment)
  BY DEF LedgerInv, TypeOK, FinanceTypeOK
<1>2. \A x : StandingFor(payments, x) = {n \in DOMAIN payments : payments[n].source = x /\ Standing(n)}
  BY DEF StandingFor, Standing
<1>3. AppliedIsWhatStands
  BY <1>2 DEF LedgerInv, MoneyStands, AppliedIsWhatStands
<1>4. ASSUME NEW n \in DOMAIN payments, Standing(n), payments[n].source \in Sources
      PROVE  account[payments[n].source].applied >= payments[n].amount
  <2>1. n \in StandingFor(payments, payments[n].source)
    BY <1>2, <1>4
  <2>2. AmountOf(payments, StandingFor(payments, payments[n].source)) >= payments[n].amount
    BY <1>1, <2>1, StandingIsAtLeast
  <2> QED
    BY <1>4, <2>2 DEF LedgerInv, MoneyStands
<1> QED
  BY <1>3, <1>4

\* No payment stands for a source to which nothing is applied.
LEMMA NothingStands ==
  ASSUME LedgerInv, NEW x \in Sources, account[x].applied = 0
  PROVE  \A n \in DOMAIN payments : ~(payments[n].source = x /\ Standing(n))
<1>1. payments \in Seq(Payment) /\ DOMAIN payments = 1 .. Len(payments)
  BY LenProperties DEF LedgerInv, TypeOK, FinanceTypeOK
<1> SUFFICES ASSUME NEW n \in DOMAIN payments, payments[n].source = x, Standing(n) PROVE FALSE
  OBVIOUS
<1>2. payments[n].amount \in Nat /\ payments[n].amount > 0
  <2>1. payments[n] \in Payment
    BY <1>1, ElementOfSeq
  <2> QED
    BY <2>1 DEF LedgerInv, MoneyStands, Payment
<1>3. account[x].applied >= payments[n].amount
  BY StandingMoney
<1> QED
  BY <1>2, <1>3

\* A step that posts no payment and applies nothing.
LEMMA MoneyKept ==
  ASSUME LedgerInv, UNCHANGED payments,
         \A y \in Sources : account'[y].applied = account[y].applied
  PROVE  MoneyStands'
  BY DEF LedgerInv, MoneyStands

\* A step that posts no movement.
LEMMA LedgerKept ==
  ASSUME LedgerInv, UNCHANGED stockVars
  PROVE  StockLedger' /\ balance' \in [Warehouses -> [Items -> Int]]
  BY DEF LedgerInv, StockLedger, BalanceIsLedgerSum, stockVars

\* A movement whose lines are lines (inventory.service.ts postMovement and the
\* handlers that do the same).
LEMMA PostingMoves ==
  ASSUME LedgerInv,
         NEW key, NEW w \in Warehouses, NEW direction \in {Receipt, Issue},
         NEW lines \in Lines, PostMovement(key, w, direction, lines)
  PROVE  StockLedger' /\ balance' \in [Warehouses -> [Items -> Int]]
<1>1. StockLedger'
  BY PostingKeepsLedger DEF LedgerInv
<1> QED
  BY <1>1 DEF StockLedger

\* One source and its account replaced by two that agree.
LEMMA ReplacingOne ==
  ASSUME LedgerInv, NEW x \in Sources, NEW g \in Header, NEW b \in Account, Agrees(x, g, b),
         header' = [header EXCEPT ![x] = g], account' = [account EXCEPT ![x] = b]
  PROVE  /\ header' \in [Sources -> Header]
         /\ account' \in [Sources -> Account]
         /\ AccountAgreesWithSource'
<1>1. header \in [Sources -> Header] /\ account \in [Sources -> Account]
  BY DEF LedgerInv, TypeOK, FinanceTypeOK
<1>2. \A y \in Sources : Agrees(y, header'[y], account'[y])
  BY <1>1 DEF LedgerInv, AccountAgreesWithSource
<1>3. AccountAgreesWithSource'
  BY <1>2 DEF AccountAgreesWithSource
<1> QED
  BY <1>1, <1>3

-----------------------------------------------------------------------------
(* The handlers of sales.service.ts keep the invariant.                    *)

\* Money is owed for every sale.
LEMMA SalesAreSources == Sales \subseteq Sources
  BY DEF Sources

\* createDirectSale inserts a draft.
LEMMA CreatingKeeps ==
  ASSUME LedgerInv, NEW s \in Sales, NEW d \in Drafts, CreateSale(s, d)
  PROVE  LedgerInv'
<1> DEFINE g == [header[s] EXCEPT !.status = "DRAFT"]
<1> s \in Sources
  BY SalesAreSources
<1>1. /\ header \in [Sources -> Header]
      /\ account \in [Sources -> Account]
      /\ draft \in [Sales -> Drafts \cup {NoDraft}]
  BY DEF LedgerInv, TypeOK, FinanceTypeOK
<1>2. g \in Header /\ Agrees(s, g, account[s])
  BY <1>1, CreatingAgrees DEF LedgerInv, AccountAgreesWithSource, CreateSale
<1>3. /\ header' = [header EXCEPT ![s] = g]
      /\ account' = [account EXCEPT ![s] = account[s]]
  BY <1>1 DEF CreateSale
<1>4. /\ header' \in [Sources -> Header]
      /\ account' \in [Sources -> Account]
      /\ AccountAgreesWithSource'
  BY <1>1, <1>2, <1>3, ReplacingOne
<1>5. \A x \in Sales : header'[x].status = "NONE" <=> draft'[x] = NoDraft
  <2>1. g.status = "DRAFT"
    BY <1>1 DEF Header
  <2>2. draft' = [draft EXCEPT ![s] = d] /\ d # NoDraft
    BY SalesAssumption DEF CreateSale
  <2> QED
    BY <1>1, <1>3, <2>1, <2>2, SalesAreSources DEF LedgerInv, TypeOK
<1>6. TypeOK'
  BY <1>1, <1>4, <1>5 DEF LedgerInv, TypeOK, FinanceTypeOK, DocumentsTypeOK, CreateSale,
     stockVars, documentVars
<1>7. MoneyStands'
  BY MoneyKept DEF CreateSale
<1>8. StockLedger'
  BY LedgerKept DEF CreateSale
<1> QED
  BY <1>4, <1>6, <1>7, <1>8 DEF LedgerInv

\* confirmSale opens the account and moves the stock of a draft.
LEMMA ConfirmingKeeps ==
  ASSUME LedgerInv, NEW s \in Sales, ConfirmSale(s)
  PROVE  LedgerInv'
<1> DEFINE d == draft[s]
           g == [header[s] EXCEPT !.status = "CONFIRMED"]
           b == IF d.condition = "CREDIT" THEN OpenedAccount(d.total) ELSE account[s]
<1> s \in Sources
  BY SalesAreSources
<1>1. /\ header \in [Sources -> Header]
      /\ account \in [Sources -> Account]
      /\ draft \in [Sales -> Drafts \cup {NoDraft}]
  BY DEF LedgerInv, TypeOK, FinanceTypeOK
<1>2. header[s].status = "DRAFT"
  BY DEF ConfirmSale, Confirmable
<1>3. d \in Draft /\ d.lines \in Lines
  BY <1>1, <1>2, SalesAssumption DEF LedgerInv, TypeOK, Draft
<1>4. /\ g \in Header
      /\ b \in Account
      /\ Agrees(s, g, b)
      /\ account[s].status = "NONE"
      /\ b.applied = account[s].applied
  BY <1>1, <1>2, <1>3, ConfirmingAgrees DEF LedgerInv, AccountAgreesWithSource, Draft
<1>5. /\ header' = [header EXCEPT ![s] = g]
      /\ account' = [account EXCEPT ![s] = b]
  BY <1>1 DEF ConfirmSale, WriteConfirmation
<1>6. /\ header' \in [Sources -> Header]
      /\ account' \in [Sources -> Account]
      /\ AccountAgreesWithSource'
  BY <1>4, <1>5, ReplacingOne
<1>7. StockLedger' /\ balance' \in [Warehouses -> [Items -> Int]]
  <2>1. CASE MovesStock(d)
    <3>1. PostMovement(<<"sale", s>>, d.warehouse, Issue, d.lines) /\ d.warehouse # NoWarehouse
      BY <2>1 DEF ConfirmSale, Deliverable, WriteConfirmation, IssueStock
    <3>2. d.warehouse \in Warehouses
      BY <1>3, <3>1 DEF Draft
    <3> QED
      BY <1>3, <3>1, <3>2, PostingMoves
  <2>2. CASE ~MovesStock(d)
    BY <2>2, LedgerKept DEF ConfirmSale, WriteConfirmation, IssueStock
  <2> QED
    BY <2>1, <2>2
<1>8. saleNumber' \in [Sales -> Nat] /\ lastNumber' \in [DocumentTypes -> Nat]
  BY DocumentsAssumption DEF LedgerInv, TypeOK, DocumentsTypeOK, ConfirmSale, WriteConfirmation,
     TakeNumber, NextNumber
<1>9. \A x \in Sales : header'[x].status = "NONE" <=> draft'[x] = NoDraft
  <2>1. g.status = "CONFIRMED"
    BY <1>1 DEF Header
  <2> QED
    BY <1>1, <1>2, <1>5, <2>1, SalesAreSources
    DEF LedgerInv, TypeOK, ConfirmSale, WriteConfirmation
<1>10. TypeOK'
  BY <1>1, <1>6, <1>7, <1>8, <1>9
  DEF LedgerInv, TypeOK, FinanceTypeOK, DocumentsTypeOK, ConfirmSale, WriteConfirmation
<1>11. MoneyStands'
  <2>1. \A y \in Sources : account'[y].applied = account[y].applied
    BY <1>1, <1>4, <1>5
  <2> QED
    BY <2>1, MoneyKept DEF ConfirmSale, WriteConfirmation
<1> QED
  BY <1>6, <1>7, <1>10, <1>11 DEF LedgerInv

\* cancelSale closes the account and returns the stock of a sale nobody paid.
LEMMA CancellingKeeps ==
  ASSUME LedgerInv, NEW s \in Sales, CancelSale(s)
  PROVE  LedgerInv'
<1> DEFINE d == draft[s]
           g == [header[s] EXCEPT !.status = "CANCELLED"]
           b == IF HasAccount(s) THEN CancelledAccount(account[s]) ELSE account[s]
<1> s \in Sources
  BY SalesAreSources
<1>1. /\ header \in [Sources -> Header]
      /\ account \in [Sources -> Account]
      /\ draft \in [Sales -> Drafts \cup {NoDraft}]
  BY DEF LedgerInv, TypeOK, FinanceTypeOK
<1>2. header[s].status \in {"DRAFT", "CONFIRMED"} /\ account[s].applied = 0
  BY DEF CancelSale, Cancellable
<1>3. d \in Draft /\ d.lines \in Lines
  BY <1>1, <1>2, SalesAssumption DEF LedgerInv, TypeOK, Draft
<1>4. /\ g \in Header
      /\ b \in Account
      /\ Agrees(s, g, b)
      /\ account[s].status \in {"NONE", "OPEN"}
      /\ b.applied = account[s].applied
  BY <1>1, <1>2, CancellingAgrees DEF LedgerInv, AccountAgreesWithSource, HasAccount
<1>5. /\ header' = [header EXCEPT ![s] = g]
      /\ account' = [account EXCEPT ![s] = b]
  BY <1>1 DEF CancelSale, WriteCancellation
<1>6. /\ header' \in [Sources -> Header]
      /\ account' \in [Sources -> Account]
      /\ AccountAgreesWithSource'
  BY <1>4, <1>5, ReplacingOne
<1>7. StockLedger' /\ balance' \in [Warehouses -> [Items -> Int]]
  <2>1. CASE Returns(s, d)
    <3>1. PostMovement(<<"sale-cancel", s>>, d.warehouse, Receipt, d.lines)
      BY <2>1 DEF CancelSale, WriteCancellation, ReturnStock
    <3>2. d.warehouse \in Warehouses
      BY <1>3, <2>1 DEF Draft, Returns
    <3> QED
      BY <1>3, <3>1, <3>2, PostingMoves
  <2>2. CASE ~Returns(s, d)
    BY <2>2, LedgerKept DEF CancelSale, WriteCancellation, ReturnStock
  <2> QED
    BY <2>1, <2>2
<1>8. \A x \in Sales : header'[x].status = "NONE" <=> draft'[x] = NoDraft
  <2>1. g.status = "CANCELLED"
    BY <1>1 DEF Header
  <2> QED
    BY <1>1, <1>2, <1>5, <2>1, SalesAreSources
    DEF LedgerInv, TypeOK, CancelSale, WriteCancellation, salesVars
<1>9. TypeOK'
  BY <1>1, <1>6, <1>7, <1>8
  DEF LedgerInv, TypeOK, FinanceTypeOK, DocumentsTypeOK, CancelSale, WriteCancellation,
      salesVars, documentVars
<1>10. MoneyStands'
  <2>1. \A y \in Sources : account'[y].applied = account[y].applied
    BY <1>1, <1>4, <1>5
  <2> QED
    BY <2>1, MoneyKept DEF CancelSale, WriteCancellation
<1> QED
  BY <1>6, <1>7, <1>9, <1>10 DEF LedgerInv

\* issueDocument adds a document and touches nothing else but its series.
LEMMA DocumentingKeeps ==
  ASSUME LedgerInv, NEW s \in Sales, NEW t \in DocumentTypes, IssueDocument(s, t)
  PROVE  LedgerInv'
<1> DEFINE e == [sale |-> s, type |-> t, number |-> NextNumber(t), status |-> "ISSUED",
                 attempts |-> 0]
<1>1. documents \in Seq(Document) /\ lastNumber \in [DocumentTypes -> Nat]
  BY DEF LedgerInv, TypeOK, DocumentsTypeOK
<1>2. e \in Document
  BY <1>1 DEF Document, DocumentStatus, NextNumber
<1>3. documents' = Append(documents, e)
  BY DEF IssueDocument, WriteDocument, AppendDocument
<1>4. documents' \in Seq(Document)
  BY <1>1, <1>2, <1>3, AppendProperties
<1>5. lastNumber' \in [DocumentTypes -> Nat]
  BY <1>1 DEF IssueDocument, WriteDocument, TakeNumber
<1>6. UNCHANGED <<balance, header, account, payments, sessions, draft, saleNumber>>
  BY DEF IssueDocument, WriteDocument, stockVars, financeVars, salesVars
<1>7. MoneyStands' /\ StockLedger'
  BY <1>6, MoneyKept, LedgerKept DEF IssueDocument, WriteDocument
<1> QED
  BY <1>4, <1>5, <1>6, <1>7 DEF LedgerInv, TypeOK, FinanceTypeOK, DocumentsTypeOK,
     AccountAgreesWithSource

-----------------------------------------------------------------------------
(* The movements users enter, the money and the life of the documents.     *)

\* createMovement changes balances only.
LEMMA StockKeeps ==
  ASSUME LedgerInv, StockNext, UNCHANGED <<financeVars, documentVars, salesVars>>
  PROVE  LedgerInv'
<1>1. PICK k \in ManualKeys, w \in Warehouses, direction \in {Receipt, Issue},
           lines \in ManualLines : PostMovement(<<"manual", k>>, w, direction, lines)
  BY DEF StockNext, CreateMovement
<1>2. lines \in Lines
  BY StockAssumption
<1>3. StockLedger' /\ balance' \in [Warehouses -> [Items -> Int]]
  BY <1>1, <1>2, PostingMoves
<1>4. MoneyStands'
  BY MoneyKept DEF financeVars
<1> QED
  BY <1>3, <1>4 DEF LedgerInv, TypeOK, FinanceTypeOK, DocumentsTypeOK, AccountAgreesWithSource,
     financeVars, documentVars, salesVars

\* manualTransition and submitMock change the status of one document.
LEMMA DocumentsKeep ==
  ASSUME LedgerInv, DocumentsNext, UNCHANGED <<stockVars, financeVars, salesVars>>
  PROVE  LedgerInv'
<1>1. documents \in Seq(Document) /\ lastNumber \in [DocumentTypes -> Nat]
  BY DEF LedgerInv, TypeOK, DocumentsTypeOK
<1>2. PICK n \in DOMAIN documents :
        \/ \E target \in DocumentStatus : ManualTransition(n, target)
        \/ \E result \in MockResults : SubmitMock(n, result)
  BY DEF DocumentsNext
<1>3. n \in 1 .. Len(documents) /\ documents[n] \in Document
  BY <1>1, LenProperties, ElementOfSeq
<1>4. documents' \in Seq(Document)
  <2>1. CASE \E target \in DocumentStatus : ManualTransition(n, target)
    <3>1. PICK target \in DocumentStatus : ManualTransition(n, target)
      BY <2>1
    <3>2. [documents[n] EXCEPT !.status = target] \in Document
      BY <1>3 DEF Document
    <3>3. documents' = [documents EXCEPT ![n] = [documents[n] EXCEPT !.status = target]]
      BY <3>1 DEF ManualTransition
    <3> QED
      BY <1>1, <1>3, <3>2, <3>3, ExceptSeq
  <2>2. CASE \E result \in MockResults : SubmitMock(n, result)
    <3>1. PICK result \in MockResults : SubmitMock(n, result)
      BY <2>2
    <3> DEFINE e == [[documents[n] EXCEPT !.status = result] EXCEPT !.attempts = @ + 1]
    <3>2. [documents[n] EXCEPT !.status = result] \in Document
      BY <1>3 DEF Document, DocumentStatus, MockResults
    <3>3. e \in Document
      <4>1. \A m \in Document : [m EXCEPT !.attempts = @ + 1] \in Document
        BY DEF Document
      <4> QED
        BY <3>2, <4>1
    <3>4. documents' = [documents EXCEPT ![n] = e]
      BY <1>1, <1>3, <3>1 DEF SubmitMock
    <3> QED
      BY <1>1, <1>3, <3>3, <3>4, ExceptSeq
  <2> QED
    BY <1>2, <2>1, <2>2
<1>5. lastNumber' = lastNumber
  BY <1>2 DEF ManualTransition, SubmitMock
<1>6. MoneyStands' /\ StockLedger'
  BY MoneyKept, LedgerKept DEF financeVars
<1> QED
  BY <1>1, <1>4, <1>5, <1>6 DEF LedgerInv, TypeOK, FinanceTypeOK, DocumentsTypeOK,
     AccountAgreesWithSource, stockVars, financeVars, salesVars

\* registerPayment settles one account and posts one payment.
LEMMA PayingKeeps ==
  ASSUME LedgerInv,
         NEW x \in Sources \cup {NoSource}, NEW direction \in {"INBOUND", "OUTBOUND"},
         NEW method \in {"CASH", "OTHER"}, NEW amount \in Amounts,
         NEW c \in {0} \cup DOMAIN sessions, NEW booked \in BOOLEAN,
         RegisterPayment(x, direction, method, amount, c, booked),
         UNCHANGED <<stockVars, documentVars, salesVars>>
  PROVE  LedgerInv'
<1> DEFINE p == [source |-> x, direction |-> direction, method |-> method, amount |-> amount,
                 session |-> c, booked |-> booked, status |-> "POSTED", reverses |-> 0]
<1>1. /\ header \in [Sources -> Header]
      /\ account \in [Sources -> Account]
      /\ payments \in Seq(Payment)
      /\ sessions \in Seq(Session)
  BY DEF LedgerInv, TypeOK, FinanceTypeOK
<1>2. amount \in Nat /\ c \in Nat
  BY <1>1, LenProperties, FinanceAssumption
<1>3. p \in Payment
  BY <1>2 DEF Payment
<1>4. payments' = Append(payments, p)
  BY DEF RegisterPayment, PostPayment
<1>5. /\ payments' \in Seq(Payment)
      /\ \A n \in DOMAIN payments' : payments'[n].amount > 0
  <2>1. /\ payments' \in Seq(Payment)
        /\ DOMAIN payments' = 1 .. Len(payments) + 1
        /\ DOMAIN payments = 1 .. Len(payments) /\ Len(payments) \in Nat
        /\ \A n \in DOMAIN payments : payments'[n] = payments[n]
        /\ payments'[Len(payments) + 1] = p
    BY <1>1, <1>3, <1>4, AppendProperties, LenProperties
  <2>2. p.amount > 0
    BY DEF RegisterPayment
  <2> HIDE DEF p
  <2> QED
    BY <2>1, <2>2 DEF LedgerInv, MoneyStands
<1>6. \A y \in Sources :
        AmountOf(payments', StandingFor(payments', y)) =
          AmountOf(payments, StandingFor(payments, y)) + IF x = y THEN amount ELSE 0
  <2>1. p.status = "POSTED" /\ p.reverses = 0 /\ p.source = x /\ p.amount = amount
    OBVIOUS
  <2> HIDE DEF p
  <2> QED
    BY <1>1, <1>3, <1>4, <2>1, PayingAdds
<1> HIDE DEF p
<1>7. sessions' \in Seq(Session) /\ StockLedger'
  BY <1>1, LedgerKept DEF RegisterPayment
<1>8. \A y \in Sources : account[y].applied = AmountOf(payments, StandingFor(payments, y))
                         /\ account[y].applied \in Nat
  BY <1>1 DEF LedgerInv, MoneyStands, Account
<1>9. CASE x = NoSource
  <2>1. UNCHANGED <<header, account>> /\ x \notin Sources
    BY <1>9, SourcesAssumption DEF RegisterPayment
  <2>2. MoneyStands'
    BY <1>5, <1>6, <1>8, <2>1 DEF MoneyStands
  <2> QED
    BY <1>5, <1>7, <2>1, <2>2 DEF LedgerInv, TypeOK, FinanceTypeOK, DocumentsTypeOK,
       AccountAgreesWithSource, stockVars, documentVars, salesVars
<1>10. CASE x # NoSource
  <2> DEFINE b == ApplyBalance(account[x], amount)
             g == HeaderAfterPayment(x, header[x], b)
  <2> x \in Sources
    BY <1>10
  <2>1. /\ Payable(account[x])
        /\ Appliable(account[x], amount)
        /\ Settle(x, account[x], amount)
    BY <1>10 DEF RegisterPayment
  <2>2. Agrees(x, header[x], account[x])
    BY DEF LedgerInv, AccountAgreesWithSource
  <2>3. /\ b \in Account
        /\ g \in Header
        /\ Agrees(x, g, b)
        /\ b.applied = account[x].applied + amount
        /\ {header[x].status, g.status} \subseteq Sold
    BY <1>1, <1>2, <2>1, <2>2, SettlingAgrees
  <2>4. /\ header' = [header EXCEPT ![x] = g]
        /\ account' = [account EXCEPT ![x] = b]
    BY <2>1 DEF Settle
  <2> HIDE DEF b, g
  <2>5. /\ header' \in [Sources -> Header]
        /\ account' \in [Sources -> Account]
        /\ AccountAgreesWithSource'
    BY <2>3, <2>4, ReplacingOne
  <2>6. MoneyStands'
    <3>1. \A y \in Sources : account'[y].applied = AmountOf(payments', StandingFor(payments', y))
      BY <1>1, <1>6, <1>8, <2>3, <2>4
    <3> QED
      BY <1>5, <3>1 DEF MoneyStands
  <2>7. \A s \in Sales : header'[s].status = "NONE" <=> draft'[s] = NoDraft
    BY <1>1, <2>3, <2>4, SalesAreSources DEF LedgerInv, TypeOK, salesVars, Sold
  <2> QED
    BY <1>5, <1>7, <2>5, <2>6, <2>7 DEF LedgerInv, TypeOK, FinanceTypeOK, DocumentsTypeOK,
       stockVars, documentVars, salesVars
<1> QED
  BY <1>9, <1>10

\* reversePayment gives back one payment, which stood until then, and posts its
\* opposite, which never counts.
LEMMA ReversingKeeps ==
  ASSUME LedgerInv, NEW n \in DOMAIN payments, ReversePayment(n),
         UNCHANGED <<stockVars, documentVars, salesVars>>
  PROVE  LedgerInv'
<1> DEFINE p == payments[n]
           x == IF p.reverses = 0 THEN p.source ELSE NoSource
           r == [p EXCEPT !.source = x, !.direction = Opposite(@), !.reverses = n]
           us == [payments EXCEPT ![n].status = "REVERSED"]
<1>1. /\ header \in [Sources -> Header]
      /\ account \in [Sources -> Account]
      /\ payments \in Seq(Payment)
      /\ sessions \in Seq(Session)
  BY DEF LedgerInv, TypeOK, FinanceTypeOK
<1>2. DOMAIN payments = 1 .. Len(payments) /\ Len(payments) \in Nat /\ n \in Nat \ {0}
  BY <1>1, LenProperties
<1>3. p \in Payment
  BY <1>1, <1>2, ElementOfSeq
<1>4. p.amount \in Nat \ {0} /\ p.status = "POSTED" /\ x \in Sources \cup {NoSource}
  BY <1>3 DEF Payment, LedgerInv, MoneyStands, ReversePayment
<1>5. r \in Payment /\ r.reverses = n /\ r.amount = p.amount
  BY <1>2, <1>3, <1>4 DEF Payment, Opposite
<1>6. payments' = Append(us, r)
  BY DEF ReversePayment
<1>7. \A y \in Sources :
        AmountOf(payments, StandingFor(payments, y)) =
          AmountOf(payments', StandingFor(payments', y)) + IF x = y THEN p.amount ELSE 0
  <2> SUFFICES ASSUME NEW y \in Sources
               PROVE  AmountOf(payments, StandingFor(payments, y)) =
                        AmountOf(payments', StandingFor(payments', y))
                          + IF x = y THEN p.amount ELSE 0
    OBVIOUS
  <2> HIDE DEF r
  <2>1. AmountOf(payments, StandingFor(payments, y)) =
          AmountOf(payments', StandingFor(payments', y))
            + IF p.reverses = 0 /\ p.source = y THEN p.amount ELSE 0
    <3>1. r.reverses # 0 /\ payments[n].status = "POSTED"
      BY <1>2, <1>4, <1>5
    <3>2. payments' = Reversed(payments, n, r)
      BY <1>6 DEF Reversed
    <3> QED
      BY <1>1, <1>5, <3>1, <3>2, ReversingTakes
  <2>2. x = y <=> p.reverses = 0 /\ p.source = y
    BY SourcesAssumption
  <2> QED
    BY <2>1, <2>2
<1>8. /\ payments' \in Seq(Payment)
      /\ \A m \in DOMAIN payments' : payments'[m].amount > 0
  <2>1. [p EXCEPT !.status = "REVERSED"] \in Payment
        /\ [p EXCEPT !.status = "REVERSED"].amount = p.amount
    BY <1>3 DEF Payment
  <2>2. us = [payments EXCEPT ![n] = [p EXCEPT !.status = "REVERSED"]]
    OBVIOUS
  <2> HIDE DEF us, r
  <2>3. us \in Seq(Payment) /\ Len(us) = Len(payments)
    BY <1>1, <1>2, <2>1, <2>2, ExceptSeq
  <2>4. \A m \in DOMAIN payments : us[m].amount = payments[m].amount
    BY <1>1, <1>2, <2>1, <2>2
  <2>5. /\ payments' \in Seq(Payment)
        /\ DOMAIN payments' = 1 .. Len(payments) + 1
        /\ \A m \in DOMAIN payments : payments'[m] = us[m]
        /\ payments'[Len(payments) + 1] = r
    BY <1>2, <1>5, <1>6, <2>3, AppendProperties, LenProperties
  <2> HIDE DEF p
  <2> QED
    BY <1>2, <1>4, <1>5, <2>4, <2>5 DEF LedgerInv, MoneyStands
<1>9. sessions' \in Seq(Session) /\ StockLedger'
  BY <1>1, LedgerKept DEF ReversePayment
<1>10. \A y \in Sources : account[y].applied = AmountOf(payments, StandingFor(payments, y))
                          /\ account[y].applied \in Nat
                          /\ AmountOf(payments', StandingFor(payments', y)) \in Nat
  BY <1>1, <1>8, StandingIsAtLeast DEF LedgerInv, MoneyStands, Account
<1> HIDE DEF r, us
<1>11. CASE x = NoSource
  <2>1. UNCHANGED <<header, account>> /\ x \notin Sources
    BY <1>11, SourcesAssumption DEF ReversePayment
  <2>2. MoneyStands'
    BY <1>7, <1>8, <1>10, <2>1 DEF MoneyStands
  <2> QED
    BY <1>8, <1>9, <2>1, <2>2 DEF LedgerInv, TypeOK, FinanceTypeOK, DocumentsTypeOK,
       AccountAgreesWithSource, stockVars, documentVars, salesVars
<1>12. CASE x # NoSource
  <2> DEFINE b == UnapplyBalance(account[x], p.amount)
             g == HeaderAfterReversal(x, header[x], b, p.amount)
  <2>1. x \in Sources /\ x = p.source /\ p.reverses = 0
    BY <1>4, <1>12
  <2>2. account[x].applied >= p.amount
    BY <1>4, <2>1, StandingMoney DEF Standing
  <2>3. Agrees(x, header[x], account[x]) /\ header[x] \in Header /\ account[x] \in Account
    BY <1>1, <2>1 DEF LedgerInv, AccountAgreesWithSource
  <2>4. account' = [account EXCEPT ![x] = b]
    BY <1>12 DEF ReversePayment
  <2>5. header' = [header EXCEPT ![x] = g]
    <3>1. header' = [header EXCEPT ![x] = HeaderAfterReversal(x, header[x], account'[x], p.amount)]
      BY <1>12 DEF ReversePayment
    <3>2. account'[x] = b
      BY <1>1, <2>1, <2>4
    <3> QED
      BY <3>1, <3>2
  <2>6. /\ b \in Account
        /\ g \in Header
        /\ Agrees(x, g, b)
        /\ b.applied = account[x].applied - p.amount
        /\ {header[x].status, g.status} \subseteq Sold
    <3> HIDE DEF p, x
    <3> QED
      BY <1>4, <2>1, <2>2, <2>3, ReversingAgrees
  <2> HIDE DEF b, g, x, p
  <2>7. /\ header' \in [Sources -> Header]
        /\ account' \in [Sources -> Account]
        /\ AccountAgreesWithSource'
    BY <2>1, <2>4, <2>5, <2>6, ReplacingOne
  <2>8. MoneyStands'
    <3>1. \A y \in Sources : account'[y].applied = AmountOf(payments', StandingFor(payments', y))
      BY <1>1, <1>4, <1>7, <1>10, <2>1, <2>4, <2>6
    <3> QED
      BY <1>8, <3>1 DEF MoneyStands
  <2>9. \A s \in Sales : header'[s].status = "NONE" <=> draft'[s] = NoDraft
    BY <1>1, <2>1, <2>5, <2>6, SalesAreSources DEF LedgerInv, TypeOK, salesVars, Sold
  <2> QED
    BY <1>8, <1>9, <2>7, <2>8, <2>9 DEF LedgerInv, TypeOK, FinanceTypeOK, DocumentsTypeOK,
       stockVars, documentVars, salesVars
<1> QED
  BY <1>11, <1>12

\* openCashSession adds a session and closeCashSession closes one.
LEMMA SessionsKeep ==
  ASSUME LedgerInv,
         \/ \E till \in Tills : OpenCashSession(till)
         \/ \E c \in DOMAIN sessions : CloseCashSession(c),
         UNCHANGED <<stockVars, documentVars, salesVars>>
  PROVE  LedgerInv'
<1>1. sessions \in Seq(Session) /\ payments \in Seq(Payment)
  BY DEF LedgerInv, TypeOK, FinanceTypeOK
<1>2. sessions' \in Seq(Session)
  <2>1. ASSUME NEW till \in Tills, OpenCashSession(till)
        PROVE  sessions' \in Seq(Session)
    <3>1. [till |-> till, status |-> "OPEN", counted |-> {}] \in Session
      BY DEF Session
    <3> QED
      BY <1>1, <2>1, <3>1, AppendProperties DEF OpenCashSession, AppendSession
  <2>2. ASSUME NEW c \in DOMAIN sessions, CloseCashSession(c)
        PROVE  sessions' \in Seq(Session)
    <3> DEFINE e == [[sessions[c] EXCEPT !.status = "CLOSED"] EXCEPT !.counted = MovementsOf(c)]
    <3>1. c \in 1 .. Len(sessions) /\ sessions[c] \in Session
      BY <1>1, LenProperties, ElementOfSeq
    <3>2. MovementsOf(c) \subseteq Nat
      BY <1>1, LenProperties DEF MovementsOf
    <3>3. e \in Session
      <4>1. [sessions[c] EXCEPT !.status = "CLOSED"] \in Session
        BY <3>1 DEF Session
      <4> QED
        BY <3>2, <4>1 DEF Session
    <3>4. sessions' = [sessions EXCEPT ![c] = e]
      BY <1>1, <2>2, <3>1 DEF CloseCashSession, CloseSession
    <3> QED
      BY <1>1, <3>1, <3>3, <3>4, ExceptSeq
  <2> QED
    BY <2>1, <2>2
<1>3. UNCHANGED <<header, account, payments>>
  BY DEF OpenCashSession, CloseCashSession
<1>4. MoneyStands' /\ StockLedger'
  BY <1>3, MoneyKept, LedgerKept
<1> QED
  BY <1>2, <1>3, <1>4 DEF LedgerInv, TypeOK, FinanceTypeOK, DocumentsTypeOK,
     AccountAgreesWithSource, stockVars, documentVars, salesVars

\* Nothing has happened in a new company.
LEMMA InitLedgerInv == Init => LedgerInv
<1> SUFFICES ASSUME Init PROVE LedgerInv
  OBVIOUS
<1>1. /\ header = [x \in Sources |-> [status |-> "NONE", paid |-> 0]]
      /\ account = [x \in Sources |-> NoAccount]
      /\ payments = <<>> /\ sessions = <<>> /\ documents = <<>>
  BY DEF Init, FinanceInit, DocumentsInit
<1>2. payments \in Seq(Payment) /\ sessions \in Seq(Session) /\ documents \in Seq(Document)
  BY <1>1, EmptySeq
<1>3. header \in [Sources -> Header] /\ account \in [Sources -> Account]
  BY <1>1 DEF Header, HeaderStatus, Account, AccountStatus, NoAccount
<1>4. TypeOK
  BY <1>1, <1>2, <1>3, SalesAreSources DEF Init, StockInit, DocumentsInit, TypeOK,
     FinanceTypeOK, DocumentsTypeOK
<1>5. AccountAgreesWithSource
  BY <1>1 DEF AccountAgreesWithSource, Agrees, NoAccount, Balanced
<1>6. MoneyStands
  <2>1. DOMAIN payments = {}
    BY <1>1
  <2>2. \A x : StandingFor(payments, x) = {}
    BY <2>1 DEF StandingFor
  <2>3. AmountOf(payments, {}) = 0
    BY AmountIsSum, SumOfNone, FS_EmptySet
  <2> QED
    BY <1>1, <2>1, <2>2, <2>3 DEF MoneyStands, NoAccount
<1>7. StockLedger
  BY InitStockLedger DEF Init
<1> QED
  BY <1>4, <1>5, <1>6, <1>7 DEF LedgerInv

\* One step, whoever takes it.
LEMMA StepKeepsLedgerInv ==
  ASSUME LedgerInv, [Next]_vars
  PROVE  LedgerInv'
<1>1. CASE SalesNext
  BY <1>1, CreatingKeeps, ConfirmingKeeps, DocumentingKeeps, CancellingKeeps DEF SalesNext
<1>2. CASE StockNext /\ UNCHANGED <<financeVars, documentVars, salesVars>>
  BY <1>2, StockKeeps
<1>3. CASE FinanceNext /\ UNCHANGED <<stockVars, documentVars, salesVars>>
  <2>1. CASE \E x \in Sources \cup {NoSource}, direction \in {"INBOUND", "OUTBOUND"},
                method \in {"CASH", "OTHER"}, amount \in Amounts,
                c \in {0} \cup DOMAIN sessions, booked \in BOOLEAN :
               RegisterPayment(x, direction, method, amount, c, booked)
    BY <1>3, <2>1, PayingKeeps
  <2>2. CASE \E n \in DOMAIN payments : ReversePayment(n)
    BY <1>3, <2>2, ReversingKeeps
  <2>3. CASE \/ \E till \in Tills : OpenCashSession(till)
             \/ \E c \in DOMAIN sessions : CloseCashSession(c)
    BY <1>3, <2>3, SessionsKeep
  <2> QED
    BY <1>3, <2>1, <2>2, <2>3 DEF FinanceNext
<1>4. CASE DocumentsNext /\ UNCHANGED <<stockVars, financeVars, salesVars>>
  BY <1>4, DocumentsKeep
<1>5. CASE UNCHANGED vars
  <2>1. MoneyStands' /\ StockLedger'
    BY <1>5, MoneyKept, LedgerKept DEF vars, financeVars
  <2> QED
    BY <1>5, <2>1 DEF LedgerInv, TypeOK, FinanceTypeOK, DocumentsTypeOK,
       AccountAgreesWithSource, vars, stockVars, financeVars, documentVars, salesVars
<1> QED
  BY <1>1, <1>2, <1>3, <1>4, <1>5 DEF Next

\* In every state the code reaches, the invariant holds.
LEMMA LedgerInvariance == Spec => []LedgerInv
<1>1. LedgerInv /\ [Next]_vars => LedgerInv'
  BY StepKeepsLedgerInv
<1> QED
  BY <1>1, InitLedgerInv, PTL DEF Spec

\* Every variable of the ledger keeps its type: no balance of an account goes
\* below zero, whatever is paid and reversed, and a sale that exists has what it
\* was made of.
THEOREM TypeCorrect == Spec => []TypeOK
<1>1. LedgerInv => TypeOK
  BY DEF LedgerInv
<1> QED
  BY <1>1, LedgerInvariance, PTL

\* Sales, purchases and expenses agree with their accounts, as confirmSale,
\* cancelSale, registerPayment and reversePayment write the two.
THEOREM AccountsAgree == Spec => []AccountAgreesWithSource
<1>1. LedgerInv => AccountAgreesWithSource
  BY DEF LedgerInv
<1> QED
  BY <1>1, LedgerInvariance, PTL

\* What an account counts as applied is what the payments of its source that stand
\* sum up to, however many registerPayment and reversePayment have posted.
THEOREM AppliedIsTheSum == Spec => []AppliedIsWhatStands
<1>1. LedgerInv => AppliedIsWhatStands
  BY StandingMoney
<1> QED
  BY <1>1, LedgerInvariance, PTL

\* Every stock balance is what the lines of the movements ever posted sum up to,
\* whether a user, a sale or its cancellation posted them.
THEOREM BalancesAreTheSum == Spec => []BalanceIsLedgerSum
<1>1. LedgerInv => BalanceIsLedgerSum
  BY DEF LedgerInv, StockLedger
<1> QED
  BY <1>1, LedgerInvariance, PTL

-----------------------------------------------------------------------------
(* What the steps do to the sales, the movements and the documents.        *)

\* A step of the money leaves a source in its status or takes it from one of the
\* statuses of a confirmed one to another (registerPayment, reversePayment).
LEMMA MoneyKeepsSold ==
  ASSUME LedgerInv, FinanceNext, NEW s \in Sources
  PROVE  \/ header'[s].status = header[s].status
         \/ {header[s].status, header'[s].status} \subseteq Sold
<1>1. header \in [Sources -> Header] /\ account \in [Sources -> Account]
  BY DEF LedgerInv, TypeOK, FinanceTypeOK
<1>2. ASSUME NEW x \in Sources \cup {NoSource}, NEW direction \in {"INBOUND", "OUTBOUND"},
             NEW method \in {"CASH", "OTHER"}, NEW amount \in Amounts,
             NEW c \in {0} \cup DOMAIN sessions, NEW booked \in BOOLEAN,
             RegisterPayment(x, direction, method, amount, c, booked)
      PROVE  \/ header'[s].status = header[s].status
             \/ {header[s].status, header'[s].status} \subseteq Sold
  <2>1. CASE x = NoSource
    BY <1>2, <2>1 DEF RegisterPayment
  <2>2. CASE x # NoSource
    <3> DEFINE g == HeaderAfterPayment(x, header[x], ApplyBalance(account[x], amount))
    <3>1. Payable(account[x]) /\ Appliable(account[x], amount)
          /\ Settle(x, account[x], amount) /\ x \in Sources
      BY <1>2, <2>2 DEF RegisterPayment
    <3>2. Agrees(x, header[x], account[x]) /\ amount \in Nat
      BY <3>1, FinanceAssumption DEF LedgerInv, AccountAgreesWithSource
    <3>3. {header[x].status, g.status} \subseteq Sold
      BY <1>1, <3>1, <3>2, SettlingAgrees DEF Sold
    <3>4. header' = [header EXCEPT ![x] = g]
      BY <3>1 DEF Settle
    <3> QED
      BY <1>1, <3>3, <3>4
  <2> QED
    BY <2>1, <2>2
<1>3. ASSUME NEW n \in DOMAIN payments, ReversePayment(n)
      PROVE  \/ header'[s].status = header[s].status
             \/ {header[s].status, header'[s].status} \subseteq Sold
  <2> DEFINE p == payments[n]
             x == IF p.reverses = 0 THEN p.source ELSE NoSource
  <2>1. CASE x = NoSource
    BY <1>3, <2>1 DEF ReversePayment
  <2>2. CASE x # NoSource
    <3> DEFINE b == UnapplyBalance(account[x], p.amount)
               g == HeaderAfterReversal(x, header[x], b, p.amount)
    <3>1. p \in Payment /\ p.amount > 0 /\ p.status = "POSTED"
      <4>1. payments \in Seq(Payment) /\ DOMAIN payments = 1 .. Len(payments)
        BY LenProperties DEF LedgerInv, TypeOK, FinanceTypeOK
      <4>2. payments[n] \in Payment
        BY <4>1, ElementOfSeq
      <4> QED
        BY <1>3, <4>2 DEF LedgerInv, MoneyStands, ReversePayment
    <3>2. x \in Sources /\ x = p.source /\ p.reverses = 0 /\ p.amount \in Nat \ {0}
      BY <2>2, <3>1 DEF Payment
    <3>3. account[x].applied >= p.amount
      BY <3>1, <3>2, StandingMoney DEF Standing
    <3>4. /\ account' = [account EXCEPT ![x] = b]
          /\ header' = [header EXCEPT ![x] = HeaderAfterReversal(x, header[x], account'[x], p.amount)]
      BY <1>3, <2>2 DEF ReversePayment
    <3>5. header' = [header EXCEPT ![x] = g]
      BY <1>1, <3>2, <3>4
    <3>6. Agrees(x, header[x], account[x]) /\ header[x] \in Header /\ account[x] \in Account
      BY <1>1, <3>2 DEF LedgerInv, AccountAgreesWithSource
    <3>7. {header[x].status, g.status} \subseteq Sold
      <4> HIDE DEF p, x
      <4> QED
        BY <3>2, <3>3, <3>6, ReversingAgrees
    <3> HIDE DEF g, x
    <3> QED
      BY <1>1, <3>2, <3>5, <3>7
  <2> QED
    BY <2>1, <2>2
<1>4. CASE \/ \E till \in Tills : OpenCashSession(till)
           \/ \E c \in DOMAIN sessions : CloseCashSession(c)
  BY <1>4 DEF OpenCashSession, CloseCashSession
<1> QED
  BY <1>2, <1>3, <1>4 DEF FinanceNext

\* Posting a movement posts its key and no other.
LEMMA PostingOne ==
  ASSUME NEW key, NEW w, NEW direction, NEW lines, PostMovement(key, w, direction, lines),
         NEW k
  PROVE  Posted(k)' <=> Posted(k) \/ k = key
<1> DEFINE e == [key |-> key, warehouse |-> w, direction |-> direction, lines |-> lines]
<1>1. movements' = movements \cup {e}
  BY DEF PostMovement
<1>2. e.key = key
  OBVIOUS
<1> HIDE DEF e
<1> QED
  BY <1>1, <1>2 DEF Posted

-----------------------------------------------------------------------------
(* The stock of a sale.                                                    *)

\* A sale that issued stock has a warehouse to return it to.
IssuedFromWarehouse ==
  \A s \in Sales : Posted(<<"sale", s>>) => draft[s].warehouse # NoWarehouse

StockInv == SaleMovesItsStockOnce /\ IssuedFromWarehouse

\* Confirming a sale issues its stock, and nobody else's.
LEMMA ConfirmingMovesOnce ==
  ASSUME LedgerInv, StockInv, NEW s \in Sales, ConfirmSale(s)
  PROVE  StockInv'
<1>1. header \in [Sources -> Header] /\ s \in Sources
  BY SalesAreSources DEF LedgerInv, TypeOK, FinanceTypeOK
<1>2. header[s].status = "DRAFT" /\ ~Posted(<<"sale", s>>) /\ ~Posted(<<"sale-cancel", s>>)
  BY DEF ConfirmSale, Confirmable, StockInv, SaleMovesItsStockOnce
<1>3. header'[s].status = "CONFIRMED"
  BY <1>1 DEF ConfirmSale, WriteConfirmation, Header
<1>4. \A x \in Sales \ {s} : header'[x] = header[x]
  BY <1>1, SalesAreSources DEF ConfirmSale, WriteConfirmation
<1>5. draft' = draft
  BY DEF ConfirmSale, WriteConfirmation
<1>6. \A k : Posted(k)' <=> Posted(k) \/ (MovesStock(draft[s]) /\ k = <<"sale", s>>)
  <2>1. CASE MovesStock(draft[s])
    BY <2>1, PostingOne DEF ConfirmSale, WriteConfirmation, IssueStock
  <2>2. CASE ~MovesStock(draft[s])
    BY <2>2 DEF ConfirmSale, WriteConfirmation, IssueStock, stockVars, Posted
  <2> QED
    BY <2>1, <2>2
<1>7. MovesStock(draft[s]) => draft[s].warehouse # NoWarehouse
  BY DEF ConfirmSale, Deliverable
<1>8. \A x \in Sales :
        /\ Posted(<<"sale", x>>)' <=>
             Posted(<<"sale", x>>) \/ (MovesStock(draft[s]) /\ x = s)
        /\ Posted(<<"sale-cancel", x>>)' <=> Posted(<<"sale-cancel", x>>)
  BY <1>6
<1>9. IssuedFromWarehouse'
  BY <1>5, <1>7, <1>8 DEF StockInv, IssuedFromWarehouse
<1>10. SaleMovesItsStockOnce'
  <2> SUFFICES ASSUME NEW x \in Sales
               PROVE  LET issued   == Posted(<<"sale", x>>)'
                          returned == Posted(<<"sale-cancel", x>>)'
                      IN  /\ header'[x].status \in {"NONE", "DRAFT"} => ~issued /\ ~returned
                          /\ header'[x].status \in Sold =>
                               (issued <=> MovesStock(draft'[x])) /\ ~returned
                          /\ header'[x].status = "CANCELLED" => (issued <=> returned)
    BY DEF SaleMovesItsStockOnce, Sold
  <2>1. CASE x = s
    BY <1>2, <1>3, <1>5, <1>8, <2>1 DEF MovesStock
  <2>2. CASE x # s
    BY <1>4, <1>5, <1>8, <2>2 DEF StockInv, SaleMovesItsStockOnce, MovesStock
  <2> QED
    BY <2>1, <2>2
<1> QED
  BY <1>9, <1>10 DEF StockInv

\* Cancelling a confirmed sale returns its stock; cancelling a draft, none.
LEMMA CancellingMovesOnce ==
  ASSUME LedgerInv, StockInv, NEW s \in Sales, CancelSale(s)
  PROVE  StockInv'
<1>1. header \in [Sources -> Header] /\ s \in Sources
  BY SalesAreSources DEF LedgerInv, TypeOK, FinanceTypeOK
<1>2. /\ header[s].status \in {"DRAFT", "CONFIRMED"}
      /\ ~Posted(<<"sale-cancel", s>>)
      /\ Posted(<<"sale", s>>) <=> header[s].status = "CONFIRMED" /\ MovesStock(draft[s])
      /\ Posted(<<"sale", s>>) => draft[s].warehouse # NoWarehouse
  <2>1. header[s].status \in {"DRAFT", "CONFIRMED"}
    BY DEF CancelSale, Cancellable
  <2> QED
    BY <2>1 DEF StockInv, SaleMovesItsStockOnce, IssuedFromWarehouse, Sold
<1>3. header'[s].status = "CANCELLED"
  BY <1>1 DEF CancelSale, WriteCancellation, Header
<1>4. \A x \in Sales \ {s} : header'[x] = header[x]
  BY <1>1, SalesAreSources DEF CancelSale, WriteCancellation
<1>5. draft' = draft
  BY DEF CancelSale, WriteCancellation, salesVars
<1>6. Returns(s, draft[s]) <=> Posted(<<"sale", s>>)
  BY <1>2 DEF Returns
<1>7. \A k : Posted(k)' <=> Posted(k) \/ (Posted(<<"sale", s>>) /\ k = <<"sale-cancel", s>>)
  <2>1. CASE Returns(s, draft[s])
    BY <1>6, <2>1, PostingOne DEF CancelSale, WriteCancellation, ReturnStock
  <2>2. CASE ~Returns(s, draft[s])
    <3>1. UNCHANGED movements
      BY <2>2 DEF CancelSale, WriteCancellation, ReturnStock, stockVars
    <3> QED
      BY <1>6, <2>2, <3>1 DEF Posted
  <2> QED
    BY <2>1, <2>2
<1>8. \A x \in Sales :
        /\ Posted(<<"sale", x>>)' <=> Posted(<<"sale", x>>)
        /\ Posted(<<"sale-cancel", x>>)' <=>
             Posted(<<"sale-cancel", x>>) \/ (Posted(<<"sale", s>>) /\ x = s)
  BY <1>7
<1>9. IssuedFromWarehouse'
  BY <1>5, <1>8 DEF StockInv, IssuedFromWarehouse
<1>10. SaleMovesItsStockOnce'
  <2> SUFFICES ASSUME NEW x \in Sales
               PROVE  LET issued   == Posted(<<"sale", x>>)'
                          returned == Posted(<<"sale-cancel", x>>)'
                      IN  /\ header'[x].status \in {"NONE", "DRAFT"} => ~issued /\ ~returned
                          /\ header'[x].status \in Sold =>
                               (issued <=> MovesStock(draft'[x])) /\ ~returned
                          /\ header'[x].status = "CANCELLED" => (issued <=> returned)
    BY DEF SaleMovesItsStockOnce, Sold
  <2>1. CASE x = s
    BY <1>2, <1>3, <1>8, <2>1 DEF Sold
  <2>2. CASE x # s
    BY <1>4, <1>5, <1>8, <2>2 DEF StockInv, SaleMovesItsStockOnce, MovesStock
  <2> QED
    BY <2>1, <2>2
<1> QED
  BY <1>9, <1>10 DEF StockInv

\* A new sale has moved nothing: its number was not in use.
LEMMA CreatingMovesNothing ==
  ASSUME LedgerInv, StockInv, NEW s \in Sales, NEW d \in Drafts, CreateSale(s, d)
  PROVE  StockInv'
<1>1. header \in [Sources -> Header] /\ draft \in [Sales -> Drafts \cup {NoDraft}] /\ s \in Sources
  BY SalesAreSources DEF LedgerInv, TypeOK, FinanceTypeOK
<1>2. header[s].status = "NONE" /\ ~Posted(<<"sale", s>>) /\ ~Posted(<<"sale-cancel", s>>)
  BY DEF CreateSale, StockInv, SaleMovesItsStockOnce
<1>3. header'[s].status = "DRAFT"
  BY <1>1 DEF CreateSale, Header
<1>4. \A x \in Sales \ {s} : header'[x] = header[x] /\ draft'[x] = draft[x]
  BY <1>1, SalesAreSources DEF CreateSale
<1>5. \A k : Posted(k)' <=> Posted(k)
  BY DEF CreateSale, stockVars, Posted
<1>6. IssuedFromWarehouse'
  BY <1>2, <1>4, <1>5 DEF StockInv, IssuedFromWarehouse
<1>7. SaleMovesItsStockOnce'
  <2> SUFFICES ASSUME NEW x \in Sales
               PROVE  LET issued   == Posted(<<"sale", x>>)'
                          returned == Posted(<<"sale-cancel", x>>)'
                      IN  /\ header'[x].status \in {"NONE", "DRAFT"} => ~issued /\ ~returned
                          /\ header'[x].status \in Sold =>
                               (issued <=> MovesStock(draft'[x])) /\ ~returned
                          /\ header'[x].status = "CANCELLED" => (issued <=> returned)
    BY DEF SaleMovesItsStockOnce, Sold
  <2>1. CASE x = s
    BY <1>2, <1>3, <1>5, <2>1 DEF Sold
  <2>2. CASE x # s
    BY <1>4, <1>5, <2>2 DEF StockInv, SaleMovesItsStockOnce, MovesStock
  <2> QED
    BY <2>1, <2>2
<1> QED
  BY <1>6, <1>7 DEF StockInv

\* A step that posts nothing for a sale, and leaves the sales as they are but for
\* the statuses of the confirmed ones, keeps what was moved for them.
LEMMA OthersMoveNothing ==
  ASSUME StockInv, draft' = draft,
         \A x \in Sales : /\ Posted(<<"sale", x>>)' <=> Posted(<<"sale", x>>)
                          /\ Posted(<<"sale-cancel", x>>)' <=> Posted(<<"sale-cancel", x>>),
         \A x \in Sales : \/ header'[x].status = header[x].status
                          \/ {header[x].status, header'[x].status} \subseteq Sold
  PROVE  StockInv'
<1>1. IssuedFromWarehouse'
  BY DEF StockInv, IssuedFromWarehouse
<1>2. SaleMovesItsStockOnce'
  <2> SUFFICES ASSUME NEW x \in Sales
               PROVE  LET issued   == Posted(<<"sale", x>>)'
                          returned == Posted(<<"sale-cancel", x>>)'
                      IN  /\ header'[x].status \in {"NONE", "DRAFT"} => ~issued /\ ~returned
                          /\ header'[x].status \in Sold =>
                               (issued <=> MovesStock(draft'[x])) /\ ~returned
                          /\ header'[x].status = "CANCELLED" => (issued <=> returned)
    BY DEF SaleMovesItsStockOnce, Sold
  <2>1. CASE header'[x].status = header[x].status
    BY <2>1 DEF StockInv, SaleMovesItsStockOnce, MovesStock
  <2>2. CASE {header[x].status, header'[x].status} \subseteq Sold
    BY <2>2 DEF StockInv, SaleMovesItsStockOnce, MovesStock, Sold
  <2> QED
    BY <2>1, <2>2
<1> QED
  BY <1>1, <1>2 DEF StockInv

\* One step, whoever takes it.
LEMMA StepKeepsStockInv ==
  ASSUME LedgerInv, StockInv, [Next]_vars
  PROVE  StockInv'
<1>1. ASSUME NEW s \in Sales, NEW t \in DocumentTypes, IssueDocument(s, t) PROVE StockInv'
  <2>1. UNCHANGED <<movements, header, draft>>
    BY <1>1 DEF IssueDocument, WriteDocument, stockVars, financeVars, salesVars
  <2> QED
    BY <2>1, OthersMoveNothing DEF Posted
<1>2. CASE SalesNext
  BY <1>1, <1>2, CreatingMovesNothing, ConfirmingMovesOnce, CancellingMovesOnce DEF SalesNext
<1>3. CASE StockNext /\ UNCHANGED <<financeVars, documentVars, salesVars>>
  <2>1. PICK k \in ManualKeys, w \in Warehouses, direction \in {Receipt, Issue},
             lines \in ManualLines : PostMovement(<<"manual", k>>, w, direction, lines)
    BY <1>3 DEF StockNext, CreateMovement
  <2>2. \A j : Posted(j)' <=> Posted(j) \/ j = <<"manual", k>>
    BY <2>1, PostingOne
  <2>3. UNCHANGED <<header, draft>>
    BY <1>3 DEF financeVars, salesVars
  <2> QED
    BY <2>2, <2>3, OthersMoveNothing
<1>4. CASE FinanceNext /\ UNCHANGED <<stockVars, documentVars, salesVars>>
  <2>1. UNCHANGED <<movements, draft>>
    BY <1>4 DEF stockVars, salesVars
  <2> QED
    BY <1>4, <2>1, MoneyKeepsSold, OthersMoveNothing, SalesAreSources DEF Posted
<1>5. CASE DocumentsNext /\ UNCHANGED <<stockVars, financeVars, salesVars>>
  BY <1>5, OthersMoveNothing DEF Posted, stockVars, financeVars, salesVars
<1>6. CASE UNCHANGED vars
  BY <1>6, OthersMoveNothing DEF Posted, vars, stockVars, financeVars, salesVars
<1> QED
  BY <1>2, <1>3, <1>4, <1>5, <1>6 DEF Next

\* The stock of a sale is issued once, by its confirmation, and returned once, by
\* its cancellation, as confirmSale and cancelSale post it.
THEOREM StockMovesOnce == Spec => []SaleMovesItsStockOnce
<1>1. Init => StockInv
  <2> SUFFICES ASSUME Init PROVE StockInv
    OBVIOUS
  <2>1. \A k : ~Posted(k)
    BY DEF Init, StockInit, Posted
  <2>2. \A s \in Sales : header[s].status = "NONE"
    BY SalesAreSources DEF Init, FinanceInit
  <2> QED
    BY <2>1, <2>2 DEF StockInv, SaleMovesItsStockOnce, IssuedFromWarehouse, Sold
<1>2. LedgerInv /\ StockInv /\ [Next]_vars => StockInv'
  BY StepKeepsStockInv
<1>3. StockInv => SaleMovesItsStockOnce
  BY DEF StockInv
<1> QED
  BY <1>1, <1>2, <1>3, LedgerInvariance, PTL DEF Spec

-----------------------------------------------------------------------------
(* The documents of a sale.                                                *)

\* What a step makes of the documents: it keeps each of them the document of its
\* sale, and in the statuses nothing leads out of, or adds one.
DocumentsStep ==
  /\ DOMAIN documents \subseteq DOMAIN documents'
  /\ \A n \in DOMAIN documents :
       /\ documents'[n].sale = documents[n].sale
       /\ documents[n].status \in Dead => documents'[n].status = documents[n].status
  /\ \A n \in DOMAIN documents' \ DOMAIN documents :
       /\ documents'[n].sale \in Sales
       /\ Documentable(documents'[n].sale)
       /\ \A m \in DOMAIN documents' \ DOMAIN documents : m = n

\* issueDocument adds one document, of a sale that has none that stands;
\* manualTransition and submitMock leave what is voided or cancelled.
LEMMA DocumentsSteps ==
  ASSUME LedgerInv, [Next]_vars
  PROVE  DocumentsStep
<1>1. documents \in Seq(Document) /\ Len(documents) \in Nat /\ DOMAIN documents = 1 .. Len(documents)
  BY LenProperties DEF LedgerInv, TypeOK, DocumentsTypeOK
<1>2. CASE documents' = documents
  BY <1>2 DEF DocumentsStep
<1>3. ASSUME NEW s \in Sales, NEW t \in DocumentTypes, IssueDocument(s, t)
      PROVE  DocumentsStep
  <2> DEFINE e == [sale |-> s, type |-> t, number |-> NextNumber(t), status |-> "ISSUED",
                   attempts |-> 0]
  <2>1. documents' = Append(documents, e) /\ Documentable(s)
    BY <1>3 DEF IssueDocument, WriteDocument, AppendDocument
  <2>2. e \in Document
    BY DEF LedgerInv, TypeOK, DocumentsTypeOK, Document, DocumentStatus, NextNumber
  <2>3. e.sale = s
    OBVIOUS
  <2> HIDE DEF e
  <2>4. /\ documents' \in Seq(Document) /\ Len(documents') = Len(documents) + 1
        /\ \A n \in 1 .. Len(documents) : documents'[n] = documents[n]
        /\ documents'[Len(documents) + 1] = e
    BY <1>1, <2>1, <2>2, AppendProperties
  <2>5. DOMAIN documents' = 1 .. Len(documents) + 1
    BY <2>4, LenProperties
  <2>6. DOMAIN documents' \ DOMAIN documents = {Len(documents) + 1}
    BY <1>1, <2>5
  <2> QED
    BY <1>1, <2>1, <2>3, <2>4, <2>5, <2>6 DEF DocumentsStep
<1>4. CASE DocumentsNext
  <2>1. PICK n \in DOMAIN documents :
          \/ \E target \in DocumentStatus : ManualTransition(n, target)
          \/ \E result \in MockResults : SubmitMock(n, result)
    BY <1>4 DEF DocumentsNext
  <2>2. documents[n] \in Document
    BY <1>1, ElementOfSeq
  <2>3. /\ documents[n].status \notin Dead
        /\ DOMAIN documents' = DOMAIN documents
        /\ \A m \in DOMAIN documents : m # n => documents'[m] = documents[m]
        /\ documents'[n].sale = documents[n].sale
    <3>1. ASSUME NEW target \in DocumentStatus, ManualTransition(n, target)
          PROVE  /\ documents[n].status \notin Dead
                 /\ DOMAIN documents' = DOMAIN documents
                 /\ \A m \in DOMAIN documents : m # n => documents'[m] = documents[m]
                 /\ documents'[n].sale = documents[n].sale
      <4>1. documents[n].status \notin Dead
        BY <3>1 DEF ManualTransition, Transitions, Dead
      <4>2. documents' = [documents EXCEPT ![n] = [documents[n] EXCEPT !.status = target]]
        BY <3>1 DEF ManualTransition
      <4>3. [documents[n] EXCEPT !.status = target].sale = documents[n].sale
        BY <2>2 DEF Document
      <4> QED
        BY <1>1, <4>1, <4>2, <4>3
    <3>2. ASSUME NEW result \in MockResults, SubmitMock(n, result)
          PROVE  /\ documents[n].status \notin Dead
                 /\ DOMAIN documents' = DOMAIN documents
                 /\ \A m \in DOMAIN documents : m # n => documents'[m] = documents[m]
                 /\ documents'[n].sale = documents[n].sale
      <4> DEFINE one == [documents[n] EXCEPT !.status = result]
                 two == [one EXCEPT !.attempts = @ + 1]
      <4>1. documents[n].status \notin Dead
        BY <3>2 DEF SubmitMock, Dead
      <4>2. documents' = [documents EXCEPT ![n] = two]
        BY <1>1, <3>2 DEF SubmitMock
      <4>3. one \in Document /\ one.sale = documents[n].sale
        BY <2>2 DEF Document, DocumentStatus, MockResults
      <4>4. \A m \in Document : [m EXCEPT !.attempts = @ + 1].sale = m.sale
        BY DEF Document
      <4>5. two.sale = documents[n].sale
        BY <4>3, <4>4
      <4> QED
        BY <1>1, <4>1, <4>2, <4>5
    <3> QED
      BY <2>1, <3>1, <3>2
  <2> QED
    BY <2>3 DEF DocumentsStep
<1>5. CASE SalesNext
  <2>1. ASSUME NEW s \in Sales, NEW d \in Drafts, CreateSale(s, d) PROVE documents' = documents
    BY <2>1 DEF CreateSale, documentVars
  <2>2. ASSUME NEW s \in Sales, ConfirmSale(s) PROVE documents' = documents
    BY <2>2 DEF ConfirmSale, WriteConfirmation
  <2>3. ASSUME NEW s \in Sales, CancelSale(s) PROVE documents' = documents
    BY <2>3 DEF CancelSale, WriteCancellation, documentVars
  <2> QED
    BY <1>2, <1>3, <1>5, <2>1, <2>2, <2>3 DEF SalesNext
<1> QED
  BY <1>2, <1>4, <1>5 DEF Next, vars, documentVars

\* A sale never has two documents that stand: issueDocument looks for one, and
\* nothing brings one back that was cancelled.
THEOREM DocumentStandsAlone == Spec => []OneStandingDocument
<1>1. Init => OneStandingDocument
  BY DEF Init, DocumentsInit, OneStandingDocument
<1>2. ASSUME LedgerInv, OneStandingDocument, [Next]_vars
      PROVE  OneStandingDocument'
  <2>1. DocumentsStep
    BY <1>2, DocumentsSteps
  <2> SUFFICES ASSUME NEW m \in DOMAIN documents', NEW n \in DOMAIN documents',
                      m # n, documents'[m].sale = documents'[n].sale
               PROVE  "CANCELLED_INTERNAL" \in {documents'[m].status, documents'[n].status}
    BY DEF OneStandingDocument
  <2>2. \A i \in DOMAIN documents', j \in DOMAIN documents :
          i \notin DOMAIN documents /\ documents'[i].sale = documents'[j].sale =>
            documents'[j].status = "CANCELLED_INTERNAL"
    <3> SUFFICES ASSUME NEW i \in DOMAIN documents', NEW j \in DOMAIN documents,
                        i \notin DOMAIN documents, documents'[i].sale = documents'[j].sale
                 PROVE  documents'[j].status = "CANCELLED_INTERNAL"
      OBVIOUS
    <3>1. ~Issued(documents[j].sale)
      BY <2>1 DEF DocumentsStep, Documentable
    <3>2. documents[j].status = "CANCELLED_INTERNAL"
      BY <3>1 DEF Issued, DocumentsOf
    <3> QED
      BY <2>1, <3>2 DEF DocumentsStep, Dead
  <2>3. CASE m \in DOMAIN documents /\ n \in DOMAIN documents
    BY <1>2, <2>1, <2>3 DEF OneStandingDocument, DocumentsStep, Dead
  <2>4. CASE m \notin DOMAIN documents \/ n \notin DOMAIN documents
    BY <2>1, <2>2, <2>4 DEF DocumentsStep
  <2> QED
    BY <2>3, <2>4
<1> QED
  BY <1>1, <1>2, LedgerInvariance, PTL DEF Spec

-----------------------------------------------------------------------------
(* What a cancelled sale leaves behind.                                    *)

CancelledHasDeadDocuments ==
  \A s \in Sales : header[s].status = "CANCELLED" =>
    \A n \in DOMAIN documents : documents[n].sale = s => documents[n].status \in Dead

\* A sale is cancelled by cancelSale or was so before.
LEMMA CancelledBy ==
  ASSUME LedgerInv, [Next]_vars, NEW s \in Sales, header'[s].status = "CANCELLED"
  PROVE  header[s].status = "CANCELLED" \/ CancelSale(s)
<1>1. header \in [Sources -> Header] /\ s \in Sources
  BY SalesAreSources DEF LedgerInv, TypeOK, FinanceTypeOK
<1>2. CASE SalesNext
  <2>1. ASSUME NEW x \in Sales, NEW d \in Drafts, CreateSale(x, d)
        PROVE  header[s].status = "CANCELLED"
    <3>1. [header[x] EXCEPT !.status = "DRAFT"].status = "DRAFT"
      BY <1>1, SalesAreSources DEF Header
    <3> QED
      BY <1>1, <2>1, <3>1, SalesAreSources DEF CreateSale
  <2>2. ASSUME NEW x \in Sales, ConfirmSale(x) PROVE header[s].status = "CANCELLED"
    <3>1. [header[x] EXCEPT !.status = "CONFIRMED"].status = "CONFIRMED"
      BY <1>1, SalesAreSources DEF Header
    <3> QED
      BY <1>1, <2>2, <3>1, SalesAreSources DEF ConfirmSale, WriteConfirmation
  <2>3. ASSUME NEW x \in Sales, NEW t \in DocumentTypes, IssueDocument(x, t)
        PROVE  header[s].status = "CANCELLED"
    BY <2>3 DEF IssueDocument, WriteDocument, financeVars
  <2>4. ASSUME NEW x \in Sales, CancelSale(x), x # s PROVE header[s].status = "CANCELLED"
    BY <1>1, <2>4, SalesAreSources DEF CancelSale, WriteCancellation
  <2> QED
    BY <1>2, <2>1, <2>2, <2>3, <2>4 DEF SalesNext
<1>3. CASE FinanceNext
  BY <1>3, MoneyKeepsSold, SalesAreSources DEF Sold
<1>4. CASE UNCHANGED header
  BY <1>4
<1> QED
  BY <1>2, <1>3, <1>4 DEF Next, vars, financeVars

\* Nothing comes to a cancelled sale: its account is cancelled with it, no payment
\* of it stands, and its documents are dead before cancelSale and stay so.
THEOREM CancelledIsUnwound == Spec => []CancelledSaleIsUnwound
<1>1. Init => CancelledHasDeadDocuments
  BY SalesAreSources DEF Init, FinanceInit, CancelledHasDeadDocuments
<1>2. ASSUME LedgerInv, CancelledHasDeadDocuments, [Next]_vars
      PROVE  CancelledHasDeadDocuments'
  <2>1. DocumentsStep
    BY <1>2, DocumentsSteps
  <2> SUFFICES ASSUME NEW s \in Sales, header'[s].status = "CANCELLED",
                      NEW n \in DOMAIN documents', documents'[n].sale = s
               PROVE  documents'[n].status \in Dead
    BY DEF CancelledHasDeadDocuments, Dead
  <2>2. CASE header[s].status = "CANCELLED"
    <3>1. ~Documentable(s)
      BY <2>2 DEF Documentable, Sold
    <3>2. n \in DOMAIN documents
      BY <2>1, <3>1 DEF DocumentsStep
    <3> QED
      BY <1>2, <2>1, <2>2, <3>2 DEF DocumentsStep, CancelledHasDeadDocuments
  <2>3. CASE CancelSale(s)
    <3>1. documents' = documents /\ ~Alive(s)
      BY <2>3 DEF CancelSale, WriteCancellation, documentVars
    <3> QED
      BY <3>1 DEF Alive, DocumentsOf
  <2> QED
    BY <1>2, <2>2, <2>3, CancelledBy
<1>3. ASSUME LedgerInv, CancelledHasDeadDocuments
      PROVE  CancelledSaleIsUnwound
  <2> SUFFICES ASSUME NEW s \in Sales, header[s].status = "CANCELLED"
               PROVE  /\ \A n \in DocumentsOf(s) : documents[n].status \in Dead
                      /\ account[s].status \in {"NONE", "CANCELLED"}
                      /\ \A n \in DOMAIN payments : ~(payments[n].source = s /\ Standing(n))
    BY DEF CancelledSaleIsUnwound
  <2>1. \A n \in DocumentsOf(s) : documents[n].status \in Dead
    BY <1>3 DEF CancelledHasDeadDocuments, DocumentsOf
  <2>2. account[s].status \in {"NONE", "CANCELLED"}
    <3>1. s \in Sources /\ account[s] \in Account /\ Agrees(s, header[s], account[s])
      BY <1>3, SalesAreSources DEF LedgerInv, TypeOK, FinanceTypeOK, AccountAgreesWithSource
    <3> QED
      BY <3>1 DEF Agrees, StatusUnder, Account, AccountStatus
  <2>3. \A n \in DOMAIN payments : ~(payments[n].source = s /\ Standing(n))
    <3>1. s \in Sources /\ Agrees(s, header[s], account[s]) /\ account[s] \in Account
      BY <1>3, SalesAreSources DEF LedgerInv, TypeOK, FinanceTypeOK, AccountAgreesWithSource
    <3>2. account[s].applied = 0
      BY <2>2, <3>1 DEF Agrees, Balanced, Account
    <3> QED
      BY <1>3, <3>1, <3>2, NothingStands
  <2> QED
    BY <2>1, <2>2, <2>3
<1> QED
  BY <1>1, <1>2, <1>3, LedgerInvariance, PTL DEF Spec

-----------------------------------------------------------------------------
(* Balances below zero.                                                    *)

\* Lines that name each item once carry of an item what its line says.
LEMMA LineQtyOfDistinct ==
  ASSUME NEW lines \in Lines, NEW i,
         \A m, n \in DOMAIN lines : lines[m].item = lines[n].item => m = n
  PROVE  \/ LineQty(lines, i) = 0
         \/ \E n \in DOMAIN lines : lines[n].item = i /\ LineQty(lines, i) = lines[n].qty
<1>1. IsFiniteSet(DOMAIN lines) /\ \A n \in DOMAIN lines : lines[n].qty \in Int
  <2>1. DOMAIN lines = 1 .. Len(lines) /\ Len(lines) \in Nat
    BY LenProperties DEF Lines
  <2>2. IsFiniteSet(1 .. Len(lines))
    BY <2>1, FS_Interval
  <2>3. \A n \in 1 .. Len(lines) : lines[n] \in [item : Items, qty : Nat \ {0}]
    BY ElementOfSeq DEF Lines
  <2> QED
    BY <2>1, <2>2, <2>3
<1>2. LineQty(lines, i) = SumOver(QtyOf(lines), LinesOf(lines, i))
  BY <1>1, LineQtyIsSum
<1>3. CASE LinesOf(lines, i) = {}
  BY <1>2, <1>3, SumOfNone
<1>4. CASE LinesOf(lines, i) # {}
  <2>1. PICK n \in LinesOf(lines, i) : TRUE
    BY <1>4
  <2>2. LinesOf(lines, i) = {n} /\ n \in DOMAIN lines /\ lines[n].item = i
    BY <2>1 DEF LinesOf
  <2>3. QtyOf(lines)[n] = lines[n].qty /\ QtyOf(lines)[n] \in Int
    BY <1>1, <2>2 DEF QtyOf
  <2>4. SumOver(QtyOf(lines), {n}) = QtyOf(lines)[n]
    BY <2>3, SumOfOne
  <2> QED
    BY <1>2, <2>2, <2>3, <2>4
<1> QED
  BY <1>3, <1>4

\* A receipt makes nothing negative; an issue whose lines are each compared with
\* the balance does so only where they name an item twice.
LEMMA PostingGoesNegativeByRepetition ==
  ASSUME LedgerInv, NegativeOnlyByRepetition,
         NEW key, NEW w \in Warehouses, NEW direction \in {Receipt, Issue}, NEW lines \in Lines,
         PostMovement(key, w, direction, lines),
         \/ direction = Receipt
         \/ w \in NegativeAllowed
         \/ \A n \in DOMAIN lines : balance[w][lines[n].item] >= lines[n].qty
  PROVE  NegativeOnlyByRepetition'
<1> DEFINE p == [key |-> key, warehouse |-> w, direction |-> direction, lines |-> lines]
<1>1. /\ movements' = movements \cup {p}
      /\ balance' = [balance EXCEPT ![w] = [i \in Items |-> balance[w][i] + direction * LineQty(lines, i)]]
  BY DEF PostMovement
<1>2. balance \in [Warehouses -> [Items -> Int]] /\ \A i \in Items : LineQty(lines, i) \in Nat
  BY LineQtyIsNat DEF LedgerInv, TypeOK
<1> SUFFICES ASSUME NEW v \in Warehouses \ NegativeAllowed, NEW i \in Items, balance'[v][i] < 0
             PROVE  \E m \in movements' : m.direction = Issue /\ m.warehouse = v /\ Repeats(m)
  BY DEF NegativeOnlyByRepetition, Repeats
<1>3. CASE balance[v][i] < 0
  BY <1>1, <1>3 DEF NegativeOnlyByRepetition
<1>4. CASE ~(balance[v][i] < 0)
  <2>1. v = w
    BY <1>1, <1>2, <1>4
  <2>2. balance'[v][i] = balance[w][i] + direction * LineQty(lines, i)
    BY <1>1, <1>2, <2>1
  <2>3. balance[w][i] \in Int /\ balance[w][i] >= 0 /\ LineQty(lines, i) \in Nat
    BY <1>2, <1>4, <2>1
  <2>4. direction = Issue /\ balance[w][i] < LineQty(lines, i)
    BY <2>2, <2>3 DEF Receipt, Issue
  <2>5. \A n \in DOMAIN lines : balance[w][lines[n].item] >= lines[n].qty
    BY <2>1, <2>4 DEF Receipt, Issue
  <2>6. ~(\A m, n \in DOMAIN lines : lines[m].item = lines[n].item => m = n)
    <3> SUFFICES ASSUME \A m, n \in DOMAIN lines : lines[m].item = lines[n].item => m = n
                 PROVE  FALSE
      OBVIOUS
    <3>1. CASE LineQty(lines, i) = 0
      BY <2>3, <2>4, <3>1
    <3>2. CASE \E n \in DOMAIN lines : lines[n].item = i /\ LineQty(lines, i) = lines[n].qty
      BY <2>3, <2>4, <2>5, <3>2
    <3> QED
      BY <3>1, <3>2, LineQtyOfDistinct
  <2>7. Repeats(p) /\ p.direction = Issue /\ p.warehouse = v
    BY <2>1, <2>4, <2>6 DEF Repeats
  <2> QED
    BY <1>1, <2>7
<1> QED
  BY <1>3, <1>4

\* confirmSale and createMovement compare each line with the balance before they
\* issue it, and cancelSale only receives.
LEMMA StepKeepsNegative ==
  ASSUME LedgerInv, NegativeOnlyByRepetition, [Next]_vars
  PROVE  NegativeOnlyByRepetition'
<1>1. CASE UNCHANGED stockVars
  BY <1>1 DEF stockVars, NegativeOnlyByRepetition
<1>2. ASSUME NEW s \in Sales, ConfirmSale(s) PROVE NegativeOnlyByRepetition'
  <2>1. CASE ~MovesStock(draft[s])
    BY <1>1, <1>2, <2>1 DEF ConfirmSale, WriteConfirmation, IssueStock
  <2>2. CASE MovesStock(draft[s])
    <3>1. /\ PostMovement(<<"sale", s>>, draft[s].warehouse, Issue, draft[s].lines)
          /\ draft[s].warehouse # NoWarehouse
          /\ header[s].status = "DRAFT"
          /\ Available(draft[s])
      BY <1>2, <2>2 DEF ConfirmSale, Confirmable, Deliverable, WriteConfirmation, IssueStock
    <3>2. draft[s] \in Draft
      BY <3>1, SalesAssumption DEF LedgerInv, TypeOK
    <3>3. draft[s].warehouse \in Warehouses /\ draft[s].lines \in Lines
      BY <3>1, <3>2 DEF Draft
    <3> QED
      BY <3>1, <3>3, PostingGoesNegativeByRepetition DEF Available
  <2> QED
    BY <2>1, <2>2
<1>3. ASSUME NEW s \in Sales, CancelSale(s) PROVE NegativeOnlyByRepetition'
  <2>1. CASE ~Returns(s, draft[s])
    BY <1>1, <1>3, <2>1 DEF CancelSale, WriteCancellation, ReturnStock
  <2>2. CASE Returns(s, draft[s])
    <3>1. /\ PostMovement(<<"sale-cancel", s>>, draft[s].warehouse, Receipt, draft[s].lines)
          /\ draft[s].warehouse # NoWarehouse
          /\ header[s].status # "NONE"
      BY <1>3, <2>2 DEF CancelSale, WriteCancellation, ReturnStock, Returns
    <3>2. draft[s] \in Draft
      BY <3>1, SalesAssumption DEF LedgerInv, TypeOK
    <3>3. draft[s].warehouse \in Warehouses /\ draft[s].lines \in Lines
      BY <3>1, <3>2 DEF Draft
    <3> QED
      BY <3>1, <3>3, PostingGoesNegativeByRepetition
  <2> QED
    BY <2>1, <2>2
<1>4. CASE StockNext
  <2>1. PICK k \in ManualKeys, w \in Warehouses, direction \in {Receipt, Issue},
             lines \in ManualLines, permitted \in BOOLEAN :
          CreateMovement(k, w, direction, lines, permitted)
    BY <1>4 DEF StockNext
  <2>2. lines \in Lines /\ PostMovement(<<"manual", k>>, w, direction, lines)
    BY <2>1, StockAssumption DEF CreateMovement
  <2>3. \/ direction = Receipt
        \/ w \in NegativeAllowed
        \/ \A n \in DOMAIN lines : balance[w][lines[n].item] >= lines[n].qty
    <3> SUFFICES ASSUME direction = Issue, w \notin NegativeAllowed, NEW n \in DOMAIN lines
                 PROVE  balance[w][lines[n].item] >= lines[n].qty
      OBVIOUS
    <3>1. balance[w][lines[n].item] + Issue * lines[n].qty >= 0
      BY <2>1 DEF CreateMovement, Calculable
    <3>2. lines[n].item \in Items /\ lines[n].qty \in Nat
      <4>1. n \in 1 .. Len(lines)
        BY <2>2, LenProperties DEF Lines
      <4>2. lines[n] \in [item : Items, qty : Nat \ {0}]
        BY <2>2, <4>1, ElementOfSeq DEF Lines
      <4> QED
        BY <4>2
    <3>3. balance[w][lines[n].item] \in Int
      BY <3>2 DEF LedgerInv, TypeOK
    <3> QED
      BY <3>1, <3>2, <3>3 DEF Issue
  <2> QED
    BY <2>2, <2>3, PostingGoesNegativeByRepetition
<1>5. CASE SalesNext
  <2>1. ASSUME NEW s \in Sales, \/ \E d \in Drafts : CreateSale(s, d)
                                \/ \E t \in DocumentTypes : IssueDocument(s, t)
        PROVE  UNCHANGED stockVars
    BY <2>1 DEF CreateSale, IssueDocument, WriteDocument
  <2> QED
    BY <1>1, <1>2, <1>3, <1>5, <2>1 DEF SalesNext
<1> QED
  BY <1>1, <1>4, <1>5 DEF Next, vars

\* A warehouse that does not allow it goes below zero only where somebody issued
\* lines that name one item twice: calculateStock and confirmSale compare each line
\* with the whole balance.
THEOREM NegativeNeedsRepetition == Spec => []NegativeOnlyByRepetition
<1>1. Init => NegativeOnlyByRepetition
  BY DEF Init, StockInit, NegativeOnlyByRepetition
<1>2. LedgerInv /\ NegativeOnlyByRepetition /\ [Next]_vars => NegativeOnlyByRepetition'
  BY StepKeepsNegative
<1> QED
  BY <1>1, <1>2, LedgerInvariance, PTL DEF Spec

-----------------------------------------------------------------------------
(* The numbers of a series.                                                *)

\* A sale has no number before it is confirmed.
NumberedOnceConfirmed ==
  \A s \in Sales : header[s].status \in {"NONE", "DRAFT"} => saleNumber[s] = 0

NumbersInv ==
  /\ NumberedOnceConfirmed
  /\ \A t \in DocumentTypes : IsFiniteSet(NumbersInUse(t))
  /\ NumbersUsedOnce

\* A number is taken by one row that had none, and every other row keeps its own.
LEMMA TakingOneNumber ==
  ASSUME LedgerInv, NumbersInv, NumberedOnceConfirmed', NEW t \in DocumentTypes, TakeNumber(t),
         NEW u, u \notin NumbersInUse(t), NumberOf(u)' = lastNumber[t] + 1,
         NumbersInUse(t)' = NumbersInUse(t) \cup {u},
         \A v \in NumbersInUse(t) : NumberOf(v)' = NumberOf(v),
         \A r \in DocumentTypes \ {t} :
           /\ NumbersInUse(r)' = NumbersInUse(r)
           /\ \A v \in NumbersInUse(r) : NumberOf(v)' = NumberOf(v)
  PROVE  NumbersInv'
<1>1. lastNumber \in [DocumentTypes -> Nat]
  BY DEF LedgerInv, TypeOK, DocumentsTypeOK
<1>2. /\ IsFiniteSet(NumbersInUse(t)')
      /\ Cardinality(NumbersInUse(t)') = lastNumber'[t]
      /\ {NumberOf(v)' : v \in NumbersInUse(t)'} = 1 .. lastNumber'[t]
  <2>1. IsFiniteSet(NumbersInUse(t)) /\ Cardinality(NumbersInUse(t)) = lastNumber[t]
    BY DEF NumbersInv, NumbersUsedOnce
  <2>2. {NumberOf(v) : v \in NumbersInUse(t)} = 1 .. lastNumber[t]
    BY DEF NumbersInv, NumbersUsedOnce
  <2>3. lastNumber'[t] = lastNumber[t] + 1 /\ lastNumber[t] \in Nat
    BY <1>1 DEF TakeNumber
  <2>4. {NumberOf(v)' : v \in NumbersInUse(t)'} = (1 .. lastNumber[t]) \cup {lastNumber[t] + 1}
    BY <2>2
  <2>5. (1 .. lastNumber[t]) \cup {lastNumber[t] + 1} = 1 .. lastNumber[t] + 1
    BY <2>3
  <2> QED
    BY <2>1, <2>3, <2>4, <2>5, FS_AddElement
<1>3. ASSUME NEW r \in DocumentTypes \ {t}
      PROVE  /\ IsFiniteSet(NumbersInUse(r)')
             /\ Cardinality(NumbersInUse(r)') = lastNumber'[r]
             /\ {NumberOf(v)' : v \in NumbersInUse(r)'} = 1 .. lastNumber'[r]
  <2>1. /\ IsFiniteSet(NumbersInUse(r))
        /\ Cardinality(NumbersInUse(r)) = lastNumber[r]
        /\ {NumberOf(v) : v \in NumbersInUse(r)} = 1 .. lastNumber[r]
    BY DEF NumbersInv, NumbersUsedOnce
  <2>2. lastNumber'[r] = lastNumber[r]
    BY <1>1 DEF TakeNumber
  <2> QED
    BY <2>1, <2>2
<1> QED
  BY <1>2, <1>3 DEF NumbersInv, NumbersUsedOnce

\* A step that takes no number.
LEMMA NumbersKept ==
  ASSUME NumbersInv, UNCHANGED <<lastNumber, saleNumber>>, NumberedOnceConfirmed',
         DOMAIN documents' = DOMAIN documents,
         \A n \in DOMAIN documents :
           documents'[n].type = documents[n].type /\ documents'[n].number = documents[n].number
  PROVE  NumbersInv'
<1>1. \A t \in DocumentTypes : NumbersInUse(t)' = NumbersInUse(t)
  BY DEF NumbersInUse
<1>2. \A t \in DocumentTypes : \A v \in NumbersInUse(t) : NumberOf(v)' = NumberOf(v)
  BY DEF NumbersInUse, NumberOf
<1>3. \A t \in DocumentTypes :
        {NumberOf(v)' : v \in NumbersInUse(t)'} = {NumberOf(v) : v \in NumbersInUse(t)}
  BY <1>1, <1>2
<1> QED
  BY <1>1, <1>3 DEF NumbersInv, NumbersUsedOnce

\* confirmSale numbers the sale it confirms.
LEMMA ConfirmingNumbers ==
  ASSUME LedgerInv, NumbersInv, NEW s \in Sales, ConfirmSale(s)
  PROVE  NumbersInv'
<1> DEFINE t == "INTERNAL_SALE"
           u == [on |-> "sale", id |-> s]
<1>1. /\ header \in [Sources -> Header] /\ saleNumber \in [Sales -> Nat]
      /\ lastNumber \in [DocumentTypes -> Nat] /\ t \in DocumentTypes
  BY DocumentsAssumption DEF LedgerInv, TypeOK, FinanceTypeOK, DocumentsTypeOK
<1>2. /\ saleNumber[s] = 0 /\ documents' = documents
      /\ saleNumber' = [saleNumber EXCEPT ![s] = lastNumber[t] + 1]
      /\ TakeNumber(t)
  BY DEF ConfirmSale, Confirmable, WriteConfirmation, NextNumber, NumbersInv, NumberedOnceConfirmed
<1>3. lastNumber[t] + 1 # 0 /\ saleNumber'[s] = lastNumber[t] + 1
      /\ \A x \in Sales \ {s} : saleNumber'[x] = saleNumber[x]
  BY <1>1, <1>2
<1>4. u \notin NumbersInUse(t) /\ NumberOf(u)' = lastNumber[t] + 1
  BY <1>2, <1>3 DEF NumbersInUse, NumberOf
<1>5. NumbersInUse(t)' = NumbersInUse(t) \cup {u}
  <2>1. {x \in Sales : saleNumber'[x] # 0} = {x \in Sales : saleNumber[x] # 0} \cup {s}
    BY <1>3
  <2> QED
    BY <1>2, <2>1 DEF NumbersInUse
<1>6. \A v \in NumbersInUse(t) : NumberOf(v)' = NumberOf(v)
  BY <1>2, <1>3 DEF NumbersInUse, NumberOf
<1>7. \A r \in DocumentTypes \ {t} :
        /\ NumbersInUse(r)' = NumbersInUse(r)
        /\ \A v \in NumbersInUse(r) : NumberOf(v)' = NumberOf(v)
  BY <1>2 DEF NumbersInUse, NumberOf
<1>8. NumberedOnceConfirmed'
  <2>1. header'[s].status = "CONFIRMED" /\ \A x \in Sales \ {s} : header'[x] = header[x]
    BY <1>1, SalesAreSources DEF ConfirmSale, WriteConfirmation, Header
  <2> QED
    BY <1>3, <2>1 DEF NumbersInv, NumberedOnceConfirmed
<1> HIDE DEF u, t
<1> QED
  BY <1>1, <1>2, <1>4, <1>5, <1>6, <1>7, <1>8, TakingOneNumber

\* issueDocument numbers the document it issues.
LEMMA IssuingNumbers ==
  ASSUME LedgerInv, NumbersInv, NEW s \in Sales, NEW t \in DocumentTypes, IssueDocument(s, t)
  PROVE  NumbersInv'
<1> DEFINE e == [sale |-> s, type |-> t, number |-> NextNumber(t), status |-> "ISSUED",
                 attempts |-> 0]
<1> SUFFICES ASSUME NEW k, k = Len(documents) + 1
             PROVE  NumbersInv'
  OBVIOUS
<1> DEFINE u == [on |-> "document", id |-> k]
<1>1. /\ documents \in Seq(Document) /\ lastNumber \in [DocumentTypes -> Nat]
      /\ DOMAIN documents = 1 .. Len(documents) /\ Len(documents) \in Nat
  BY LenProperties DEF LedgerInv, TypeOK, DocumentsTypeOK
<1>2. /\ documents' = Append(documents, e) /\ TakeNumber(t)
      /\ saleNumber' = saleNumber /\ header' = header
  BY DEF IssueDocument, WriteDocument, AppendDocument, financeVars, salesVars
<1>3. e \in Document /\ e.type = t /\ e.number = lastNumber[t] + 1
  BY <1>1 DEF Document, DocumentStatus, NextNumber
<1> HIDE DEF e
<1>4. /\ DOMAIN documents' = 1 .. k
      /\ documents'[k] = e
      /\ \A n \in DOMAIN documents : documents'[n] = documents[n]
  BY <1>1, <1>2, <1>3, AppendProperties, LenProperties
<1>5. k \notin DOMAIN documents /\ DOMAIN documents' = DOMAIN documents \cup {k}
  BY <1>1, <1>4
<1>6. u \notin NumbersInUse(t)
  BY <1>5 DEF NumbersInUse
<1>7. NumberOf(u)' = lastNumber[t] + 1
  <2>1. u.on = "document" /\ u.id = k
    OBVIOUS
  <2>2. documents'[k].number = lastNumber[t] + 1
    BY <1>3, <1>4
  <2> QED
    BY <2>1, <2>2 DEF NumberOf
<1>8. \A r \in DocumentTypes :
        {n \in DOMAIN documents' : documents'[n].type = r} =
          {n \in DOMAIN documents : documents[n].type = r} \cup IF r = t THEN {k} ELSE {}
  BY <1>3, <1>4, <1>5
<1>9. NumbersInUse(t)' = NumbersInUse(t) \cup {u}
  BY <1>2, <1>8 DEF NumbersInUse
<1>10. \A r \in DocumentTypes \ {t} : NumbersInUse(r)' = NumbersInUse(r)
  BY <1>2, <1>8 DEF NumbersInUse
<1>11. \A r \in DocumentTypes : \A v \in NumbersInUse(r) : NumberOf(v)' = NumberOf(v)
  BY <1>2, <1>4 DEF NumbersInUse, NumberOf
<1>12. NumberedOnceConfirmed'
  BY <1>2 DEF NumbersInv, NumberedOnceConfirmed
<1> HIDE DEF u
<1>13. \A v \in NumbersInUse(t) : NumberOf(v)' = NumberOf(v)
  BY <1>11
<1>14. \A r \in DocumentTypes \ {t} :
         /\ NumbersInUse(r)' = NumbersInUse(r)
         /\ \A v \in NumbersInUse(r) : NumberOf(v)' = NumberOf(v)
  BY <1>10, <1>11
<1> QED
  BY <1>2, <1>6, <1>7, <1>9, <1>12, <1>13, <1>14, TakingOneNumber

\* No other handler writes a number.
LEMMA StepKeepsNumbers ==
  ASSUME LedgerInv, NumbersInv, [Next]_vars
  PROVE  NumbersInv'
<1>1. header \in [Sources -> Header]
  BY DEF LedgerInv, TypeOK, FinanceTypeOK
<1>2. ASSUME UNCHANGED <<documents, lastNumber, saleNumber>>, NumberedOnceConfirmed'
      PROVE  NumbersInv'
  BY <1>2, NumbersKept
<1>3. ASSUME NEW s \in Sales, NEW d \in Drafts, CreateSale(s, d) PROVE NumbersInv'
  <2>1. header[s].status = "NONE" /\ \A x \in Sales \ {s} : header'[x] = header[x]
    BY <1>1, <1>3, SalesAreSources DEF CreateSale
  <2>2. UNCHANGED <<documents, lastNumber, saleNumber>>
    BY <1>3 DEF CreateSale, documentVars
  <2>3. NumberedOnceConfirmed'
    BY <2>1, <2>2 DEF NumbersInv, NumberedOnceConfirmed
  <2> QED
    BY <1>2, <2>2, <2>3
<1>4. ASSUME NEW s \in Sales, CancelSale(s) PROVE NumbersInv'
  <2>1. header'[s].status = "CANCELLED" /\ \A x \in Sales \ {s} : header'[x] = header[x]
    BY <1>1, <1>4, SalesAreSources DEF CancelSale, WriteCancellation, Header
  <2>2. UNCHANGED <<documents, lastNumber, saleNumber>>
    BY <1>4 DEF CancelSale, WriteCancellation, documentVars, salesVars
  <2>3. NumberedOnceConfirmed'
    BY <2>1, <2>2 DEF NumbersInv, NumberedOnceConfirmed
  <2> QED
    BY <1>2, <2>2, <2>3
<1>5. CASE SalesNext
  BY <1>3, <1>4, <1>5, ConfirmingNumbers, IssuingNumbers DEF SalesNext
<1>6. CASE UNCHANGED <<header, documentVars, salesVars>>
  BY <1>2, <1>6 DEF documentVars, salesVars, NumbersInv, NumberedOnceConfirmed
<1>7. CASE FinanceNext /\ UNCHANGED <<documentVars, salesVars>>
  <2>1. \A s \in Sales : header'[s].status \in {"NONE", "DRAFT"} => header'[s].status = header[s].status
    BY <1>7, MoneyKeepsSold, SalesAreSources DEF Sold
  <2>2. UNCHANGED <<documents, lastNumber, saleNumber>>
    BY <1>7 DEF documentVars, salesVars
  <2>3. NumberedOnceConfirmed'
    BY <2>1, <2>2 DEF NumbersInv, NumberedOnceConfirmed
  <2> QED
    BY <1>2, <2>2, <2>3
<1>8. CASE DocumentsNext /\ UNCHANGED <<financeVars, salesVars>>
  <2>1. PICK n \in DOMAIN documents :
          \/ \E target \in DocumentStatus : ManualTransition(n, target)
          \/ \E result \in MockResults : SubmitMock(n, result)
    BY <1>8 DEF DocumentsNext
  <2>2. documents \in Seq(Document) /\ documents[n] \in Document
    <3>1. documents \in Seq(Document) /\ DOMAIN documents = 1 .. Len(documents)
      BY LenProperties DEF LedgerInv, TypeOK, DocumentsTypeOK
    <3> QED
      BY <3>1, ElementOfSeq
  <2>3. /\ DOMAIN documents' = DOMAIN documents
        /\ \A m \in DOMAIN documents :
             documents'[m].type = documents[m].type /\ documents'[m].number = documents[m].number
    <3>1. ASSUME NEW target \in DocumentStatus, ManualTransition(n, target)
          PROVE  documents' = [documents EXCEPT ![n] = [documents[n] EXCEPT !.status = target]]
      BY <3>1 DEF ManualTransition
    <3>2. ASSUME NEW result \in MockResults, SubmitMock(n, result)
          PROVE  documents' = [documents EXCEPT ![n] =
                   [[documents[n] EXCEPT !.status = result] EXCEPT !.attempts = @ + 1]]
      BY <2>2, <3>2 DEF SubmitMock
    <3>3. \A c : /\ [documents[n] EXCEPT !.status = c].type = documents[n].type
                 /\ [documents[n] EXCEPT !.status = c].number = documents[n].number
                 /\ [[documents[n] EXCEPT !.status = c] EXCEPT !.attempts = @ + 1].type
                      = documents[n].type
                 /\ [[documents[n] EXCEPT !.status = c] EXCEPT !.attempts = @ + 1].number
                      = documents[n].number
      BY <2>2 DEF Document
    <3>4. ASSUME NEW e, e.type = documents[n].type, e.number = documents[n].number,
                 documents' = [documents EXCEPT ![n] = e]
          PROVE  /\ DOMAIN documents' = DOMAIN documents
                 /\ \A m \in DOMAIN documents :
                      documents'[m].type = documents[m].type /\ documents'[m].number = documents[m].number
      BY <2>2, <3>4
    <3> QED
      BY <2>1, <3>1, <3>2, <3>3, <3>4
  <2>4. UNCHANGED <<lastNumber, saleNumber, header>>
    BY <1>8, <2>1 DEF ManualTransition, SubmitMock, financeVars, salesVars
  <2>5. NumberedOnceConfirmed'
    BY <2>4 DEF NumbersInv, NumberedOnceConfirmed
  <2> QED
    BY <2>3, <2>4, <2>5, NumbersKept
<1> QED
  BY <1>5, <1>6, <1>7, <1>8 DEF Next, vars, financeVars

\* The numbers a series has handed out are those in use, from one on, each by one
\* sale or document: confirmSale and issueDocument take them where they use them.
THEOREM NumbersStayUnique == Spec => []NumbersUsedOnce
<1>1. ASSUME Init PROVE NumbersInv
  <2>1. documents = <<>> /\ lastNumber = [t \in DocumentTypes |-> 0]
        /\ saleNumber = [s \in Sales |-> 0]
    BY <1>1 DEF Init, DocumentsInit
  <2>2. \A t \in DocumentTypes : NumbersInUse(t) = {}
    <3>1. DOMAIN documents = {}
      BY <2>1
    <3> QED
      BY <2>1, <3>1 DEF NumbersInUse
  <2>3. \A t \in DocumentTypes : 1 .. lastNumber[t] = {}
    BY <2>1
  <2> QED
    BY <2>1, <2>2, <2>3, FS_EmptySet DEF NumbersInv, NumbersUsedOnce, NumberedOnceConfirmed
<1>2. LedgerInv /\ NumbersInv /\ [Next]_vars => NumbersInv'
  BY StepKeepsNumbers
<1>3. NumbersInv => NumbersUsedOnce
  BY DEF NumbersInv
<1> QED
  BY <1>1, <1>2, <1>3, LedgerInvariance, PTL DEF Spec

-----------------------------------------------------------------------------
(* The ledger of the sales under the handlers of purchases.service.ts.     *)

Bought == Purchases \cup Expenses

\* What is bought is no sale, and money is owed for it.
LEMMA BoughtIsNoSale ==
  Bought \subseteq Sources /\ Bought \cap Sales = {} /\ Purchases \cap Expenses = {}
  BY SourcesAssumption DEF Bought, Sources

\* A handler that replaces one purchase or expense and its account by two that
\* agree, with as much applied as before, and keeps the stock, keeps the ledger.
LEMMA BuyingKeepsLedger ==
  ASSUME LedgerInv, NEW x \in Bought, NEW g \in Header, NEW b \in Account, Agrees(x, g, b),
         header' = [header EXCEPT ![x] = g], account' = [account EXCEPT ![x] = b],
         b.applied = account[x].applied,
         StockLedger', balance' \in [Warehouses -> [Items -> Int]],
         UNCHANGED <<payments, sessions, documentVars, salesVars>>
  PROVE  LedgerInv'
<1>1. x \in Sources /\ x \notin Sales
  BY BoughtIsNoSale
<1>2. header \in [Sources -> Header] /\ account \in [Sources -> Account]
  BY DEF LedgerInv, TypeOK, FinanceTypeOK
<1>3. /\ header' \in [Sources -> Header]
      /\ account' \in [Sources -> Account]
      /\ AccountAgreesWithSource'
  BY <1>1, ReplacingOne
<1>4. \A s \in Sales : header'[s].status = "NONE" <=> draft'[s] = NoDraft
  BY <1>1, <1>2, SalesAreSources DEF LedgerInv, TypeOK, salesVars
<1>5. TypeOK'
  BY <1>3, <1>4 DEF LedgerInv, TypeOK, FinanceTypeOK, DocumentsTypeOK, documentVars, salesVars
<1>6. MoneyStands'
  <2>1. \A y \in Sources : account'[y].applied = account[y].applied
    BY <1>2
  <2> QED
    BY <2>1, MoneyKept
<1> QED
  BY <1>3, <1>5, <1>6 DEF LedgerInv

BuyingInv == LedgerInv /\ BuyingTypeOK

\* What a purchase was entered with once it is one.
LEMMA BoughtDrafts ==
  ASSUME BuyingInv, NEW p \in Purchases, header[p].status # "NONE"
  PROVE  bought[p] \in Draft /\ bought[p].lines \in Lines
  BY ProcurementAssumption DEF BuyingInv, BuyingTypeOK, Draft

\* A step of the sales, the stock, the money or the documents does not touch what is
\* bought but for the payments of what is registered.
LEMMA OthersKeepBought ==
  ASSUME LedgerInv, [Next]_vars, NEW x \in Bought
  PROVE  \/ header'[x].status = header[x].status
         \/ {header[x].status, header'[x].status} \subseteq Sold
<1>1. header \in [Sources -> Header] /\ x \in Sources /\ x \notin Sales
  BY BoughtIsNoSale DEF LedgerInv, TypeOK, FinanceTypeOK
<1>2. CASE SalesNext
  BY <1>1, <1>2, SalesAreSources DEF SalesNext, CreateSale, ConfirmSale, WriteConfirmation,
     IssueDocument, WriteDocument, financeVars, CancelSale, WriteCancellation
<1>3. CASE FinanceNext
  BY <1>1, <1>3, MoneyKeepsSold
<1>4. CASE UNCHANGED financeVars
  BY <1>4 DEF financeVars
<1> QED
  BY <1>2, <1>3, <1>4 DEF Next, vars

\* A step that leaves the ledger alone keeps its invariant.
LEMMA OthersKeepVars == ASSUME LedgerInv, UNCHANGED vars PROVE LedgerInv'
  BY StepKeepsLedgerInv

\* The other handlers leave the variables of this module alone.
LEMMA OthersKeepBuying ==
  ASSUME BuyingInv, [Next]_vars, UNCHANGED buyingVars
  PROVE  BuyingInv'
<1>1. LedgerInv'
  BY StepKeepsLedgerInv DEF BuyingInv
<1>2. \A x \in Bought : header'[x].status = "NONE" <=> header[x].status = "NONE"
  BY OthersKeepBought DEF BuyingInv, Sold
<1> QED
  BY <1>1, <1>2 DEF BuyingInv, LedgerInv, BuyingTypeOK, Bought, buyingVars

\* The look at the documents of suppliers writes nothing of the ledger.
LEMMA BeginningKeeps ==
  ASSUME BuyingInv, NEW p \in Purchases, NEW d \in PurchaseDrafts,
         NEW document \in SupplierDocuments \cup {NoDocument}, NEW padded \in BOOLEAN,
         NEW reason \in BOOLEAN, NEW permitted \in BOOLEAN,
         BeginPurchase(p, d, document, padded, reason, permitted)
  PROVE  BuyingInv'
<1> DEFINE e == [draft |-> d, document |-> document, reason |-> reason]
<1>1. e \in Entry
  BY DEF Entry
<1>2. entering' = [entering EXCEPT ![p] = e] /\ UNCHANGED <<vars, bought, spent, supplierPapers>>
  BY DEF BeginPurchase
<1>3. LedgerInv'
  BY <1>2, OthersKeepVars DEF BuyingInv
<1>4. TypeOK'
  BY <1>3 DEF LedgerInv
<1>5. header' = header /\ header[p].status = "NONE"
  BY <1>2 DEF BeginPurchase, vars, financeVars
<1> QED
  BY <1>1, <1>2, <1>3, <1>4, <1>5 DEF BuyingInv, BuyingTypeOK

\* A collision rolls the entry back.
LEMMA AbandoningKeeps ==
  ASSUME BuyingInv, NEW p \in Purchases, AbandonPurchase(p)
  PROVE  BuyingInv'
<1>1. entering' = [entering EXCEPT ![p] = NoEntry] /\ UNCHANGED <<vars, bought, spent, supplierPapers>>
  BY DEF AbandonPurchase
<1>2. LedgerInv'
  BY <1>1, OthersKeepVars DEF BuyingInv
<1>3. TypeOK' /\ header' = header
  BY <1>1, <1>2 DEF LedgerInv, vars, financeVars
<1> QED
  BY <1>1, <1>2, <1>3 DEF BuyingInv, BuyingTypeOK

\* The insertion of a purchase makes a draft of it.
LEMMA InsertingKeeps ==
  ASSUME BuyingInv, NEW p \in Purchases, InsertPurchase(p)
  PROVE  BuyingInv'
<1> DEFINE g == [header[p] EXCEPT !.status = "DRAFT"]
           e == entering[p]
<1>1. /\ header \in [Sources -> Header]
      /\ account \in [Sources -> Account]
      /\ p \in Sources /\ p \in Bought
  BY BoughtIsNoSale DEF Bought, BuyingInv, LedgerInv, TypeOK, FinanceTypeOK
<1>2. e \in Entry /\ header[p].status = "NONE"
  BY DEF InsertPurchase, BuyingInv, BuyingTypeOK
<1>3. g \in Header /\ Agrees(p, g, account[p]) /\ g.status = "DRAFT"
  BY <1>1, <1>2, CreatingAgrees DEF BuyingInv, LedgerInv, AccountAgreesWithSource, Header
<1>4. /\ header' = [header EXCEPT ![p] = g]
      /\ account' = [account EXCEPT ![p] = account[p]]
      /\ UNCHANGED stockVars
      /\ UNCHANGED <<payments, sessions, documentVars, salesVars>>
  BY <1>1 DEF InsertPurchase, SetStatus
<1>5. StockLedger' /\ balance' \in [Warehouses -> [Items -> Int]]
  BY <1>4, LedgerKept DEF BuyingInv
<1>6. LedgerInv'
  BY <1>1, <1>3, <1>4, <1>5, BuyingKeepsLedger DEF BuyingInv
<1>7. e.draft \in PurchaseDrafts /\ e.draft # NoDraft
  BY <1>2, ProcurementAssumption DEF Entry
<1>8. Papers(p, e) \subseteq Paper
  BY <1>2 DEF Papers, Entry, Paper
<1>9. /\ bought' = [bought EXCEPT ![p] = e.draft]
      /\ supplierPapers' = supplierPapers \cup Papers(p, e)
      /\ entering' = [entering EXCEPT ![p] = NoEntry]
      /\ spent' = spent
  BY DEF InsertPurchase
<1>10. \A q \in Purchases : header'[q].status = "NONE" <=> bought'[q] = NoDraft
  BY <1>1, <1>3, <1>4, <1>7, <1>9, BoughtIsNoSale DEF BuyingInv, BuyingTypeOK, Bought
<1>11. \A f \in Expenses : header'[f] = header[f]
  BY <1>1, <1>4, BoughtIsNoSale DEF Bought
<1>12. \A q \in Purchases : entering'[q] # NoEntry => header'[q].status = "NONE"
  BY <1>1, <1>4, <1>9, BoughtIsNoSale DEF BuyingInv, BuyingTypeOK, Bought
<1> HIDE DEF e, g
<1> QED
  BY <1>6, <1>7, <1>8, <1>9, <1>10, <1>11, <1>12 DEF BuyingInv, BuyingTypeOK, LedgerInv

\* A handler that takes what was entered from one status to another keeps the rest.
LEMMA StatusKeepsBuying ==
  ASSUME BuyingInv, LedgerInv', NEW x \in Bought, NEW g \in Header,
         header[x].status # "NONE", g.status # "NONE", header' = [header EXCEPT ![x] = g],
         UNCHANGED buyingVars
  PROVE  BuyingInv'
<1>1. \A y \in Bought : header'[y].status = "NONE" <=> header[y].status = "NONE"
  BY BoughtIsNoSale DEF BuyingInv, LedgerInv, TypeOK, FinanceTypeOK
<1> QED
  BY <1>1 DEF BuyingInv, LedgerInv, BuyingTypeOK, Bought, buyingVars

\* confirmPurchase receives the stock and opens the account of a draft.
LEMMA ConfirmingPurchaseKeeps ==
  ASSUME BuyingInv, NEW p \in Purchases, ConfirmPurchase(p)
  PROVE  BuyingInv'
<1> DEFINE d == bought[p]
           g == [header[p] EXCEPT !.status = "CONFIRMED"]
           b == IF d.condition = "CREDIT" THEN OpenedAccount(d.total) ELSE account[p]
<1>1. /\ header \in [Sources -> Header]
      /\ account \in [Sources -> Account]
      /\ p \in Sources /\ p \in Bought
      /\ header[p].status = "DRAFT"
  BY BoughtIsNoSale DEF Bought, BuyingInv, LedgerInv, TypeOK, FinanceTypeOK, ConfirmPurchase,
     Confirmable
<1>2. d \in Draft /\ d.lines \in Lines
  BY <1>1, BoughtDrafts
<1>3. /\ g \in Header
      /\ b \in Account
      /\ Agrees(p, g, b)
      /\ b.applied = account[p].applied
  BY <1>1, <1>2, ConfirmingAgrees DEF BuyingInv, LedgerInv, AccountAgreesWithSource, Draft
<1>4. /\ header' = [header EXCEPT ![p] = g]
      /\ account' = [account EXCEPT ![p] = b]
      /\ UNCHANGED <<payments, sessions, documentVars, salesVars, buyingVars>>
  BY <1>1 DEF ConfirmPurchase, SetStatus, OpenPayable
<1>5. StockLedger' /\ balance' \in [Warehouses -> [Items -> Int]]
  <2>1. CASE MovesStock(d)
    <3>1. PostMovement(<<"purchase", p>>, d.warehouse, Receipt, d.lines) /\ d.warehouse # NoWarehouse
      BY <2>1 DEF ConfirmPurchase, Deliverable, ReceiveStock
    <3>2. d.warehouse \in Warehouses
      BY <1>2, <3>1 DEF Draft
    <3> QED
      BY <1>2, <3>1, <3>2, PostingMoves DEF BuyingInv
  <2>2. CASE ~MovesStock(d)
    BY <2>2, LedgerKept DEF ConfirmPurchase, ReceiveStock, BuyingInv
  <2> QED
    BY <2>1, <2>2
<1>6. LedgerInv'
  BY <1>1, <1>3, <1>4, <1>5, BuyingKeepsLedger DEF BuyingInv
<1>7. g.status = "CONFIRMED"
  BY <1>1 DEF Header
<1> QED
  BY <1>1, <1>3, <1>4, <1>6, <1>7, StatusKeepsBuying

\* What cancelPurchase and cancelExpense do to the source and its account.
LEMMA ClosingAgrees ==
  ASSUME BuyingInv, NEW x \in Bought, Cancellable(x), ClosePayable(x),
         SetStatus(x, "CANCELLED")
  PROVE  \E g \in Header, b \in Account :
           /\ Agrees(x, g, b)
           /\ g.status = "CANCELLED"
           /\ b.applied = account[x].applied
           /\ header' = [header EXCEPT ![x] = g]
           /\ account' = [account EXCEPT ![x] = b]
<1> DEFINE g == [header[x] EXCEPT !.status = "CANCELLED"]
           b == IF HasAccount(x) THEN CancelledAccount(account[x]) ELSE account[x]
<1>1. /\ header \in [Sources -> Header]
      /\ account \in [Sources -> Account]
      /\ x \in Sources
      /\ header[x].status \in {"DRAFT", "CONFIRMED"} /\ account[x].applied = 0
  BY BoughtIsNoSale DEF BuyingInv, LedgerInv, TypeOK, FinanceTypeOK, Cancellable, ClosePayable
<1>2. /\ g \in Header
      /\ b \in Account
      /\ Agrees(x, g, b)
      /\ b.applied = account[x].applied
  BY <1>1, CancellingAgrees DEF BuyingInv, LedgerInv, AccountAgreesWithSource, HasAccount
<1>3. /\ header' = [header EXCEPT ![x] = g]
      /\ account' = [account EXCEPT ![x] = b]
  BY <1>1 DEF ClosePayable, SetStatus
<1>4. g.status = "CANCELLED"
  BY <1>1 DEF Header
<1> HIDE DEF g, b
<1> QED
  BY <1>2, <1>3, <1>4

\* cancelPurchase closes the account and takes the stock of a purchase back.
LEMMA CancellingPurchaseKeeps ==
  ASSUME BuyingInv, NEW p \in Purchases, CancelPurchase(p)
  PROVE  BuyingInv'
<1> DEFINE d == bought[p]
<1>1. p \in Bought /\ header[p].status \in {"DRAFT", "CONFIRMED"}
  BY DEF Bought, CancelPurchase, Cancellable
<1>2. d \in Draft /\ d.lines \in Lines
  BY <1>1, BoughtDrafts
<1>3. PICK g \in Header, b \in Account :
        /\ Agrees(p, g, b)
        /\ g.status = "CANCELLED"
        /\ b.applied = account[p].applied
        /\ header' = [header EXCEPT ![p] = g]
        /\ account' = [account EXCEPT ![p] = b]
  BY <1>1, ClosingAgrees DEF CancelPurchase
<1>4. StockLedger' /\ balance' \in [Warehouses -> [Items -> Int]]
  <2>1. CASE Returns(p, d)
    <3>1. PostMovement(<<"purchase-cancel", p>>, d.warehouse, Issue, d.lines)
      BY <2>1 DEF CancelPurchase, TakeBack
    <3>2. d.warehouse \in Warehouses
      BY <1>2, <2>1 DEF Draft, Returns
    <3> QED
      BY <1>2, <3>1, <3>2, PostingMoves DEF BuyingInv
  <2>2. CASE ~Returns(p, d)
    BY <2>2, LedgerKept DEF CancelPurchase, TakeBack, BuyingInv
  <2> QED
    BY <2>1, <2>2
<1>5. LedgerInv'
  BY <1>1, <1>3, <1>4, BuyingKeepsLedger DEF BuyingInv, CancelPurchase
<1> QED
  BY <1>1, <1>3, <1>5, StatusKeepsBuying DEF CancelPurchase

\* createExpense, registerExpense and cancelExpense, which move no stock.
LEMMA ExpensesKeep ==
  ASSUME BuyingInv, ExpensesNext
  PROVE  BuyingInv'
<1>1. PICK e \in Expenses : \/ \E d \in ExpenseDrafts : CreateExpense(e, d)
                            \/ RegisterExpense(e)
                            \/ CancelExpense(e)
  BY DEF ExpensesNext
<1>2. /\ header \in [Sources -> Header]
      /\ account \in [Sources -> Account]
      /\ e \in Sources /\ e \in Bought
      /\ Agrees(e, header[e], account[e])
  BY BoughtIsNoSale DEF Bought, BuyingInv, LedgerInv, TypeOK, FinanceTypeOK, AccountAgreesWithSource
<1>3. StockLedger' /\ balance' \in [Warehouses -> [Items -> Int]]
  BY <1>1, LedgerKept DEF CreateExpense, RegisterExpense, CancelExpense, BuyingInv
<1>4. ASSUME NEW d \in ExpenseDrafts, CreateExpense(e, d) PROVE BuyingInv'
  <2> DEFINE g == [header[e] EXCEPT !.status = "DRAFT"]
  <2>1. g \in Header /\ Agrees(e, g, account[e]) /\ g.status = "DRAFT"
    BY <1>2, <1>4, CreatingAgrees DEF CreateExpense, Header
  <2>2. /\ header' = [header EXCEPT ![e] = g]
        /\ account' = [account EXCEPT ![e] = account[e]]
        /\ UNCHANGED <<payments, sessions, documentVars, salesVars, entering, bought, supplierPapers>>
        /\ spent' = [spent EXCEPT ![e] = d]
    BY <1>2, <1>4 DEF CreateExpense, SetStatus
  <2>3. LedgerInv'
    BY <1>2, <1>3, <2>1, <2>2, BuyingKeepsLedger DEF BuyingInv
  <2>4. d # NoDraft
    BY ProcurementAssumption
  <2>5. \A f \in Expenses : header'[f].status = "NONE" <=> spent'[f] = NoDraft
    BY <1>2, <2>1, <2>2, <2>4, BoughtIsNoSale DEF BuyingInv, BuyingTypeOK, Bought
  <2>6. \A p \in Purchases : header'[p] = header[p]
    BY <1>2, <2>2, BoughtIsNoSale DEF Bought
  <2> HIDE DEF g
  <2> QED
    BY <2>2, <2>3, <2>5, <2>6 DEF BuyingInv, BuyingTypeOK, LedgerInv
<1>5. CASE RegisterExpense(e)
  <2> DEFINE g == [header[e] EXCEPT !.status = "CONFIRMED"]
             b == IF spent[e].condition = "CREDIT" THEN OpenedAccount(spent[e].total) ELSE account[e]
  <2>1. header[e].status = "DRAFT"
    BY <1>5 DEF RegisterExpense
  <2>2. spent[e].total \in Nat
    BY <2>1, ProcurementAssumption DEF BuyingInv, BuyingTypeOK, ExpenseDraft
  <2>3. g \in Header /\ b \in Account /\ Agrees(e, g, b) /\ b.applied = account[e].applied
    BY <1>2, <2>1, <2>2, ConfirmingAgrees
  <2>4. g.status = "CONFIRMED"
    BY <1>2 DEF Header
  <2>5. /\ header' = [header EXCEPT ![e] = g]
        /\ account' = [account EXCEPT ![e] = b]
        /\ UNCHANGED <<payments, sessions, documentVars, salesVars, buyingVars>>
    BY <1>2, <1>5 DEF RegisterExpense, SetStatus, OpenPayable
  <2>6. LedgerInv'
    BY <1>2, <1>3, <2>3, <2>5, BuyingKeepsLedger DEF BuyingInv
  <2> QED
    BY <1>2, <2>1, <2>3, <2>4, <2>5, <2>6, StatusKeepsBuying
<1>6. CASE CancelExpense(e)
  <2>1. PICK g \in Header, b \in Account :
          /\ Agrees(e, g, b)
          /\ g.status = "CANCELLED"
          /\ b.applied = account[e].applied
          /\ header' = [header EXCEPT ![e] = g]
          /\ account' = [account EXCEPT ![e] = b]
    BY <1>2, <1>6, ClosingAgrees DEF CancelExpense
  <2>2. header[e].status \in {"DRAFT", "CONFIRMED"}
    BY <1>6 DEF CancelExpense, Cancellable
  <2>3. LedgerInv'
    BY <1>2, <1>3, <1>6, <2>1, BuyingKeepsLedger DEF BuyingInv, CancelExpense
  <2> QED
    BY <1>2, <1>6, <2>1, <2>2, <2>3, StatusKeepsBuying DEF CancelExpense
<1> QED
  BY <1>1, <1>4, <1>5, <1>6

\* Nothing has been bought in a new company.
LEMMA InitBuyingInv == ProcurementInit => BuyingInv
<1> SUFFICES ASSUME ProcurementInit PROVE BuyingInv
  OBVIOUS
<1>1. LedgerInv
  BY InitLedgerInv DEF ProcurementInit
<1>2. \A x \in Bought : header[x].status = "NONE"
  BY BoughtIsNoSale DEF ProcurementInit, Init, FinanceInit
<1> QED
  BY <1>1, <1>2 DEF BuyingInv, LedgerInv, BuyingTypeOK, ProcurementInit, Bought

\* One step, whoever takes it.
LEMMA StepKeepsBuyingInv ==
  ASSUME BuyingInv, [ProcurementNext]_companyVars
  PROVE  BuyingInv'
<1>1. CASE PurchasesNext
  BY <1>1, BeginningKeeps, InsertingKeeps, AbandoningKeeps, ConfirmingPurchaseKeeps,
     CancellingPurchaseKeeps DEF PurchasesNext
<1>2. CASE ExpensesNext
  BY <1>2, ExpensesKeep
<1>3. CASE [Next]_vars /\ UNCHANGED buyingVars
  BY <1>3, OthersKeepBuying
<1> QED
  BY <1>1, <1>2, <1>3 DEF ProcurementNext, companyVars

\* In every state the code reaches, the invariant holds.
LEMMA BuyingInvariance == ProcurementSpec => []BuyingInv
<1>1. BuyingInv /\ [ProcurementNext]_companyVars => BuyingInv'
  BY StepKeepsBuyingInv
<1> QED
  BY <1>1, InitBuyingInv, PTL DEF ProcurementSpec

\* Every variable keeps its type, and a purchase or an expense that exists has what
\* it was entered with.
THEOREM BuyingTypeCorrect == ProcurementSpec => []BuyingTypeOK
<1>1. BuyingInv => BuyingTypeOK
  BY DEF BuyingInv
<1> QED
  BY <1>1, BuyingInvariance, PTL

\* With purchases and expenses beside the sales, all of them agree with their accounts:
\* confirmPurchase, cancelPurchase, registerExpense and cancelExpense write the two
\* as the sales do.
THEOREM BuyingAccountsAgree == ProcurementSpec => []AccountAgreesWithSource
<1>1. BuyingInv => AccountAgreesWithSource
  BY DEF BuyingInv, LedgerInv
<1> QED
  BY <1>1, BuyingInvariance, PTL

\* What an account counts as applied is still what the payments that stand sum up to,
\* the payments of purchases and expenses among them.
THEOREM BuyingAppliedIsTheSum == ProcurementSpec => []AppliedIsWhatStands
<1>1. BuyingInv => AppliedIsWhatStands
  BY StandingMoney DEF BuyingInv
<1> QED
  BY <1>1, BuyingInvariance, PTL

\* Every stock balance is what the movements sum up to when purchases receive and take
\* back what the sales issue and return.
THEOREM BuyingBalancesAreTheSum == ProcurementSpec => []BalanceIsLedgerSum
<1>1. BuyingInv => BalanceIsLedgerSum
  BY DEF BuyingInv, LedgerInv, StockLedger
<1> QED
  BY <1>1, BuyingInvariance, PTL

\* Nothing is owed for a cancelled purchase or expense and no payment of it stands:
\* cancelPurchase and cancelExpense ask that nothing is applied, and what is applied
\* is the sum of the payments that stand.
THEOREM CancelledBuyingUnwinds == ProcurementSpec => []CancelledBuyingIsUnwound
<1>1. BuyingInv => CancelledBuyingIsUnwound
  <2> SUFFICES ASSUME LedgerInv, NEW x \in Purchases \cup Expenses, header[x].status = "CANCELLED"
               PROVE  /\ account[x].status \in {"NONE", "CANCELLED"}
                      /\ \A n \in DOMAIN payments : ~(payments[n].source = x /\ Standing(n))
    BY DEF BuyingInv, CancelledBuyingIsUnwound
  <2>1. x \in Sources /\ Agrees(x, header[x], account[x]) /\ account[x] \in Account
    BY BoughtIsNoSale DEF Bought, LedgerInv, TypeOK, FinanceTypeOK, AccountAgreesWithSource
  <2>2. account[x].status \in {"NONE", "CANCELLED"}
    BY <2>1 DEF Agrees, StatusUnder, Account, AccountStatus
  <2>3. account[x].applied = 0
    BY <2>1, <2>2 DEF Agrees, Balanced, Account
  <2> QED
    BY <2>1, <2>2, <2>3, NothingStands
<1> QED
  BY <1>1, BuyingInvariance, PTL

\* cancelPurchase compares what goes back with the balance line by line, as the sales
\* do, and in every warehouse; confirmPurchase only receives.
LEMMA BuyingKeepsNegative ==
  ASSUME BuyingInv, NegativeOnlyByRepetition, [ProcurementNext]_companyVars
  PROVE  NegativeOnlyByRepetition'
<1>1. CASE UNCHANGED stockVars
  BY <1>1 DEF stockVars, NegativeOnlyByRepetition
<1>2. ASSUME NEW p \in Purchases, ConfirmPurchase(p) PROVE NegativeOnlyByRepetition'
  <2>1. CASE ~MovesStock(bought[p])
    BY <1>1, <1>2, <2>1 DEF ConfirmPurchase, ReceiveStock
  <2>2. CASE MovesStock(bought[p])
    <3>1. /\ PostMovement(<<"purchase", p>>, bought[p].warehouse, Receipt, bought[p].lines)
          /\ bought[p].warehouse # NoWarehouse
          /\ header[p].status # "NONE"
      BY <1>2, <2>2 DEF ConfirmPurchase, Confirmable, Deliverable, ReceiveStock
    <3>2. bought[p].warehouse \in Warehouses /\ bought[p].lines \in Lines
      BY <3>1, BoughtDrafts DEF Draft
    <3> QED
      BY <3>1, <3>2, PostingGoesNegativeByRepetition DEF BuyingInv
  <2> QED
    BY <2>1, <2>2
<1>3. ASSUME NEW p \in Purchases, CancelPurchase(p) PROVE NegativeOnlyByRepetition'
  <2>1. CASE ~Returns(p, bought[p])
    BY <1>1, <1>3, <2>1 DEF CancelPurchase, TakeBack
  <2>2. CASE Returns(p, bought[p])
    <3>1. /\ PostMovement(<<"purchase-cancel", p>>, bought[p].warehouse, Issue, bought[p].lines)
          /\ bought[p].warehouse # NoWarehouse
          /\ header[p].status # "NONE"
          /\ Returnable(bought[p])
      BY <1>3, <2>2 DEF CancelPurchase, TakeBack, Returns
    <3>2. bought[p].warehouse \in Warehouses /\ bought[p].lines \in Lines
      BY <3>1, BoughtDrafts DEF Draft
    <3> QED
      BY <3>1, <3>2, PostingGoesNegativeByRepetition DEF BuyingInv, Returnable
  <2> QED
    BY <2>1, <2>2
<1>4. CASE PurchasesNext
  BY <1>1, <1>2, <1>3, <1>4 DEF PurchasesNext, BeginPurchase, InsertPurchase, AbandonPurchase, vars
<1>5. CASE ExpensesNext
  BY <1>1, <1>5 DEF ExpensesNext, CreateExpense, RegisterExpense, CancelExpense
<1>6. CASE [Next]_vars
  BY <1>6, StepKeepsNegative DEF BuyingInv
<1> QED
  BY <1>4, <1>5, <1>6 DEF ProcurementNext, companyVars

\* With purchases going back as well, a warehouse that does not allow it goes below
\* zero only where somebody issued lines that name one item twice.
THEOREM BuyingNegativeNeedsRepetition == ProcurementSpec => []NegativeOnlyByRepetition
<1>1. ProcurementInit => NegativeOnlyByRepetition
  BY DEF ProcurementInit, Init, StockInit, NegativeOnlyByRepetition
<1>2. BuyingInv /\ NegativeOnlyByRepetition /\ [ProcurementNext]_companyVars
        => NegativeOnlyByRepetition'
  BY BuyingKeepsNegative
<1> QED
  BY <1>1, <1>2, BuyingInvariance, PTL DEF ProcurementSpec

-----------------------------------------------------------------------------
(* The documents of suppliers.                                             *)

\* The look of create and the insertion are two statements, and any number of
\* requests may be between them: the unique key of supplier_documents alone keeps
\* a document from being entered twice without a reason.
THEOREM DuplicatesAreExplained == ProcurementSpec => []DuplicatesHaveReason
<1>1. ProcurementInit => DuplicatesHaveReason
  BY DEF ProcurementInit, DuplicatesHaveReason
<1>2. DuplicatesHaveReason /\ [ProcurementNext]_companyVars => DuplicatesHaveReason'
  <2> SUFFICES ASSUME DuplicatesHaveReason, [ProcurementNext]_companyVars
               PROVE  DuplicatesHaveReason'
    OBVIOUS
  <2>1. CASE supplierPapers' = supplierPapers
    BY <2>1 DEF DuplicatesHaveReason
  <2>2. ASSUME NEW p \in Purchases, InsertPurchase(p) PROVE DuplicatesHaveReason'
    <3> DEFINE e == entering[p]
    <3>1. /\ supplierPapers' = supplierPapers \cup Papers(p, e)
          /\ ~\E q \in supplierPapers : q.document = e.document /\ ~q.reason /\ ~e.reason
      BY <2>2 DEF InsertPurchase, Collides
    <3>2. \A q \in Papers(p, e) : q.document = e.document /\ q.reason = e.reason
      BY DEF Papers
    <3>3. \A q, r \in Papers(p, e) : q = r
      BY DEF Papers
    <3> HIDE DEF e
    <3> QED
      BY <3>1, <3>2, <3>3 DEF DuplicatesHaveReason
  <2>3. CASE PurchasesNext
    BY <2>1, <2>2, <2>3 DEF PurchasesNext, BeginPurchase, AbandonPurchase, ConfirmPurchase,
       CancelPurchase, buyingVars
  <2>4. CASE ExpensesNext
    BY <2>1, <2>4 DEF ExpensesNext, CreateExpense, RegisterExpense, CancelExpense, buyingVars
  <2> QED
    BY <2>1, <2>3, <2>4 DEF ProcurementNext, companyVars, buyingVars
<1> QED
  BY <1>1, <1>2, PTL DEF ProcurementSpec

-----------------------------------------------------------------------------
(* The stock of a purchase.                                                *)

\* A purchase that received stock has a warehouse to take it back from.
ReceivedInWarehouse ==
  \A p \in Purchases : Posted(<<"purchase", p>>) => bought[p].warehouse # NoWarehouse

ReceiptInv == PurchaseMovesItsStockOnce /\ ReceivedInWarehouse

\* A step that posts nothing for a purchase, and leaves the purchases as they are but
\* for the statuses of the confirmed ones, keeps what was moved for them.
LEMMA OthersReceiveNothing ==
  ASSUME ReceiptInv,
         \A p \in Purchases :
           /\ Posted(<<"purchase", p>>)' <=> Posted(<<"purchase", p>>)
           /\ Posted(<<"purchase-cancel", p>>)' <=> Posted(<<"purchase-cancel", p>>)
           /\ \/ header'[p].status = header[p].status /\ bought'[p] = bought[p]
              \/ /\ {header[p].status, header'[p].status} \subseteq Sold
                 /\ bought'[p] = bought[p]
              \/ header[p].status = "NONE" /\ header'[p].status = "DRAFT"
  PROVE  ReceiptInv'
<1>1. \A p \in Purchases : Posted(<<"purchase", p>>) =>
        header[p].status # "NONE"
  BY DEF ReceiptInv, PurchaseMovesItsStockOnce
<1>2. ReceivedInWarehouse'
  BY <1>1 DEF ReceiptInv, ReceivedInWarehouse
<1>3. PurchaseMovesItsStockOnce'
  <2> SUFFICES ASSUME NEW p \in Purchases
               PROVE  LET received == Posted(<<"purchase", p>>)'
                          returned == Posted(<<"purchase-cancel", p>>)'
                      IN  /\ header'[p].status \in {"NONE", "DRAFT"} => ~received /\ ~returned
                          /\ header'[p].status \in Sold =>
                               (received <=> MovesStock(bought'[p])) /\ ~returned
                          /\ header'[p].status = "CANCELLED" => (received <=> returned)
    BY DEF PurchaseMovesItsStockOnce, Sold
  <2>1. CASE header'[p].status = header[p].status /\ bought'[p] = bought[p]
    BY <2>1 DEF ReceiptInv, PurchaseMovesItsStockOnce, MovesStock
  <2>2. CASE {header[p].status, header'[p].status} \subseteq Sold /\ bought'[p] = bought[p]
    BY <2>2 DEF ReceiptInv, PurchaseMovesItsStockOnce, MovesStock, Sold
  <2>3. CASE header[p].status = "NONE" /\ header'[p].status = "DRAFT"
    BY <2>3 DEF ReceiptInv, PurchaseMovesItsStockOnce, Sold
  <2> QED
    BY <2>1, <2>2, <2>3
<1> QED
  BY <1>2, <1>3 DEF ReceiptInv

\* The other handlers post nothing under the keys of a purchase.
LEMMA OthersPostNoPurchase ==
  ASSUME [Next]_vars, NEW p
  PROVE  /\ Posted(<<"purchase", p>>)' <=> Posted(<<"purchase", p>>)
         /\ Posted(<<"purchase-cancel", p>>)' <=> Posted(<<"purchase-cancel", p>>)
<1>1. ASSUME NEW key, NEW w, NEW direction, NEW lines, PostMovement(key, w, direction, lines),
             key # <<"purchase", p>>, key # <<"purchase-cancel", p>>
      PROVE  /\ Posted(<<"purchase", p>>)' <=> Posted(<<"purchase", p>>)
             /\ Posted(<<"purchase-cancel", p>>)' <=> Posted(<<"purchase-cancel", p>>)
  BY <1>1, PostingOne
<1>2. CASE movements' = movements
  BY <1>2 DEF Posted
<1>3. CASE SalesNext
  <2>1. PICK s \in Sales : \/ \E d \in Drafts : CreateSale(s, d)
                           \/ ConfirmSale(s)
                           \/ \E t \in DocumentTypes : IssueDocument(s, t)
                           \/ CancelSale(s)
    BY <1>3 DEF SalesNext
  <2>2. CASE ConfirmSale(s)
    <3>1. <<"sale", s>> # <<"purchase", p>> /\ <<"sale", s>> # <<"purchase-cancel", p>>
      OBVIOUS
    <3> QED
      BY <1>1, <1>2, <2>2, <3>1 DEF ConfirmSale, WriteConfirmation, IssueStock, stockVars
  <2>3. CASE CancelSale(s)
    <3>1. <<"sale-cancel", s>> # <<"purchase", p>> /\ <<"sale-cancel", s>> # <<"purchase-cancel", p>>
      OBVIOUS
    <3> QED
      BY <1>1, <1>2, <2>3, <3>1 DEF CancelSale, WriteCancellation, ReturnStock, stockVars
  <2> QED
    BY <1>2, <2>1, <2>2, <2>3 DEF CreateSale, IssueDocument, WriteDocument, stockVars
<1>4. CASE StockNext
  <2>1. PICK k \in ManualKeys, w \in Warehouses, direction \in {Receipt, Issue},
             lines \in ManualLines : PostMovement(<<"manual", k>>, w, direction, lines)
    BY <1>4 DEF StockNext, CreateMovement
  <2>2. <<"manual", k>> # <<"purchase", p>> /\ <<"manual", k>> # <<"purchase-cancel", p>>
    OBVIOUS
  <2> QED
    BY <1>1, <2>1, <2>2
<1> QED
  BY <1>2, <1>3, <1>4 DEF Next, vars, stockVars

\* The stock of purchase p once it is confirmed.
LEMMA ConfirmingReceivesOnce ==
  ASSUME BuyingInv, ReceiptInv, NEW p \in Purchases, ConfirmPurchase(p)
  PROVE  ReceiptInv'
<1>1. header \in [Sources -> Header] /\ Purchases \subseteq Sources
  BY BoughtIsNoSale DEF Bought, BuyingInv, LedgerInv, TypeOK, FinanceTypeOK
<1>2. header[p].status = "DRAFT" /\ ~Posted(<<"purchase", p>>) /\ ~Posted(<<"purchase-cancel", p>>)
  BY DEF ConfirmPurchase, Confirmable, ReceiptInv, PurchaseMovesItsStockOnce
<1>3. header'[p].status = "CONFIRMED"
  BY <1>1 DEF ConfirmPurchase, SetStatus, Header
<1>4. \A x \in Purchases \ {p} : header'[x] = header[x]
  BY <1>1 DEF ConfirmPurchase, SetStatus
<1>5. bought' = bought
  BY DEF ConfirmPurchase, buyingVars
<1>6. \A k : Posted(k)' <=> Posted(k) \/ (MovesStock(bought[p]) /\ k = <<"purchase", p>>)
  <2>1. CASE MovesStock(bought[p])
    BY <2>1, PostingOne DEF ConfirmPurchase, ReceiveStock
  <2>2. CASE ~MovesStock(bought[p])
    BY <2>2 DEF ConfirmPurchase, ReceiveStock, stockVars, Posted
  <2> QED
    BY <2>1, <2>2
<1>7. MovesStock(bought[p]) => bought[p].warehouse # NoWarehouse
  BY DEF ConfirmPurchase, Deliverable
<1>8. \A x \in Purchases :
        /\ Posted(<<"purchase", x>>)' <=>
             Posted(<<"purchase", x>>) \/ (MovesStock(bought[p]) /\ x = p)
        /\ Posted(<<"purchase-cancel", x>>)' <=> Posted(<<"purchase-cancel", x>>)
  BY <1>6
<1>9. ReceivedInWarehouse'
  BY <1>5, <1>7, <1>8 DEF ReceiptInv, ReceivedInWarehouse
<1>10. PurchaseMovesItsStockOnce'
  <2> SUFFICES ASSUME NEW x \in Purchases
               PROVE  LET received == Posted(<<"purchase", x>>)'
                          returned == Posted(<<"purchase-cancel", x>>)'
                      IN  /\ header'[x].status \in {"NONE", "DRAFT"} => ~received /\ ~returned
                          /\ header'[x].status \in Sold =>
                               (received <=> MovesStock(bought'[x])) /\ ~returned
                          /\ header'[x].status = "CANCELLED" => (received <=> returned)
    BY DEF PurchaseMovesItsStockOnce, Sold
  <2>1. CASE x = p
    BY <1>2, <1>3, <1>5, <1>8, <2>1 DEF MovesStock
  <2>2. CASE x # p
    BY <1>4, <1>5, <1>8, <2>2 DEF ReceiptInv, PurchaseMovesItsStockOnce, MovesStock
  <2> QED
    BY <2>1, <2>2
<1> QED
  BY <1>9, <1>10 DEF ReceiptInv

\* The stock of purchase p once it is cancelled.
LEMMA CancellingTakesBackOnce ==
  ASSUME BuyingInv, ReceiptInv, NEW p \in Purchases, CancelPurchase(p)
  PROVE  ReceiptInv'
<1>1. header \in [Sources -> Header] /\ Purchases \subseteq Sources
  BY BoughtIsNoSale DEF Bought, BuyingInv, LedgerInv, TypeOK, FinanceTypeOK
<1>2. /\ header[p].status \in {"DRAFT", "CONFIRMED"}
      /\ ~Posted(<<"purchase-cancel", p>>)
      /\ Posted(<<"purchase", p>>) <=> header[p].status = "CONFIRMED" /\ MovesStock(bought[p])
      /\ Posted(<<"purchase", p>>) => bought[p].warehouse # NoWarehouse
  <2>1. header[p].status \in {"DRAFT", "CONFIRMED"}
    BY DEF CancelPurchase, Cancellable
  <2> QED
    BY <2>1 DEF ReceiptInv, PurchaseMovesItsStockOnce, ReceivedInWarehouse, Sold
<1>3. header'[p].status = "CANCELLED"
  BY <1>1 DEF CancelPurchase, SetStatus, Header
<1>4. \A x \in Purchases \ {p} : header'[x] = header[x]
  BY <1>1 DEF CancelPurchase, SetStatus
<1>5. bought' = bought
  BY DEF CancelPurchase, buyingVars
<1>6. Returns(p, bought[p]) <=> Posted(<<"purchase", p>>)
  BY <1>2 DEF Returns
<1>7. \A k : Posted(k)' <=> Posted(k) \/ (Posted(<<"purchase", p>>) /\ k = <<"purchase-cancel", p>>)
  <2>1. CASE Returns(p, bought[p])
    BY <1>6, <2>1, PostingOne DEF CancelPurchase, TakeBack
  <2>2. CASE ~Returns(p, bought[p])
    <3>1. UNCHANGED movements
      BY <2>2 DEF CancelPurchase, TakeBack, stockVars
    <3> QED
      BY <1>6, <2>2, <3>1 DEF Posted
  <2> QED
    BY <2>1, <2>2
<1>8. \A x \in Purchases :
        /\ Posted(<<"purchase", x>>)' <=> Posted(<<"purchase", x>>)
        /\ Posted(<<"purchase-cancel", x>>)' <=>
             Posted(<<"purchase-cancel", x>>) \/ (Posted(<<"purchase", p>>) /\ x = p)
  BY <1>7
<1>9. ReceivedInWarehouse'
  BY <1>5, <1>8 DEF ReceiptInv, ReceivedInWarehouse
<1>10. PurchaseMovesItsStockOnce'
  <2> SUFFICES ASSUME NEW x \in Purchases
               PROVE  LET received == Posted(<<"purchase", x>>)'
                          returned == Posted(<<"purchase-cancel", x>>)'
                      IN  /\ header'[x].status \in {"NONE", "DRAFT"} => ~received /\ ~returned
                          /\ header'[x].status \in Sold =>
                               (received <=> MovesStock(bought'[x])) /\ ~returned
                          /\ header'[x].status = "CANCELLED" => (received <=> returned)
    BY DEF PurchaseMovesItsStockOnce, Sold
  <2>1. CASE x = p
    BY <1>2, <1>3, <1>8, <2>1 DEF Sold
  <2>2. CASE x # p
    BY <1>4, <1>5, <1>8, <2>2 DEF ReceiptInv, PurchaseMovesItsStockOnce, MovesStock
  <2> QED
    BY <2>1, <2>2
<1> QED
  BY <1>9, <1>10 DEF ReceiptInv

\* One step, whoever takes it.
LEMMA StepKeepsReceiptInv ==
  ASSUME BuyingInv, ReceiptInv, [ProcurementNext]_companyVars
  PROVE  ReceiptInv'
<1>1. header \in [Sources -> Header] /\ Purchases \subseteq Bought /\ Bought \subseteq Sources
  BY BoughtIsNoSale DEF Bought, BuyingInv, LedgerInv, TypeOK, FinanceTypeOK
<1>2. CASE PurchasesNext
  <2>1. PICK p \in Purchases :
          \/ \E d \in PurchaseDrafts, document \in SupplierDocuments \cup {NoDocument},
                padded \in BOOLEAN, reason \in BOOLEAN, permitted \in BOOLEAN :
               BeginPurchase(p, d, document, padded, reason, permitted)
          \/ InsertPurchase(p)
          \/ AbandonPurchase(p)
          \/ ConfirmPurchase(p)
          \/ CancelPurchase(p)
    BY <1>2 DEF PurchasesNext
  <2>2. CASE UNCHANGED <<vars, bought>>
    BY <2>2, OthersReceiveNothing DEF vars, stockVars, financeVars, Posted
  <2>3. CASE InsertPurchase(p)
    <3>1. header[p].status = "NONE" /\ movements' = movements
      BY <2>3 DEF InsertPurchase, BuyingInv, BuyingTypeOK, stockVars
    <3>2. header'[p].status = "DRAFT"
      BY <1>1, <2>3 DEF InsertPurchase, SetStatus, Header
    <3>3. bought \in [Purchases -> PurchaseDrafts \cup {NoDraft}]
      BY DEF BuyingInv, BuyingTypeOK
    <3>4. \A x \in Purchases \ {p} : header'[x] = header[x] /\ bought'[x] = bought[x]
      BY <1>1, <2>3, <3>3 DEF InsertPurchase, SetStatus
    <3> QED
      BY <3>1, <3>2, <3>4, OthersReceiveNothing DEF Posted
  <2> QED
    BY <2>1, <2>2, <2>3, ConfirmingReceivesOnce, CancellingTakesBackOnce
    DEF BeginPurchase, AbandonPurchase
<1>3. CASE ExpensesNext
  <2>1. UNCHANGED <<movements, bought>>
    BY <1>3 DEF ExpensesNext, CreateExpense, RegisterExpense, CancelExpense, buyingVars, stockVars
  <2>2. \A x \in Purchases : header'[x] = header[x]
    BY <1>1, <1>3, BoughtIsNoSale
    DEF ExpensesNext, CreateExpense, RegisterExpense, CancelExpense, SetStatus
  <2> QED
    BY <2>1, <2>2, OthersReceiveNothing DEF Posted
<1>4. CASE [Next]_vars /\ UNCHANGED buyingVars
  <2>1. bought' = bought
    BY <1>4 DEF buyingVars
  <2> QED
    BY <1>1, <1>4, <2>1, OthersPostNoPurchase, OthersKeepBought, OthersReceiveNothing
    DEF BuyingInv
<1> QED
  BY <1>2, <1>3, <1>4 DEF ProcurementNext, companyVars

\* The stock of a purchase is received once, by its confirmation, and taken back once,
\* by its cancellation, as confirmPurchase and cancelPurchase post it.
THEOREM ReceivedOnce == ProcurementSpec => []PurchaseMovesItsStockOnce
<1>1. ProcurementInit => ReceiptInv
  <2> SUFFICES ASSUME ProcurementInit PROVE ReceiptInv
    OBVIOUS
  <2>1. \A k : ~Posted(k)
    BY DEF ProcurementInit, Init, StockInit, Posted
  <2>2. \A p \in Purchases : header[p].status = "NONE"
    BY BoughtIsNoSale DEF Bought, ProcurementInit, Init, FinanceInit
  <2> QED
    BY <2>1, <2>2 DEF ReceiptInv, PurchaseMovesItsStockOnce, ReceivedInWarehouse, Sold
<1>2. BuyingInv /\ ReceiptInv /\ [ProcurementNext]_companyVars => ReceiptInv'
  BY StepKeepsReceiptInv
<1>3. ReceiptInv => PurchaseMovesItsStockOnce
  BY DEF ReceiptInv
<1> QED
  BY <1>1, <1>2, <1>3, BuyingInvariance, PTL DEF ProcurementSpec
=============================================================================
