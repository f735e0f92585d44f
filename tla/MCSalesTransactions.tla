------------------------ MODULE MCSalesTransactions ------------------------
(***************************************************************************)
(* SalesTransactions on a small instance: three requests, each any of the  *)
(* asks below, over two sales of the same warehouse.                       *)
(***************************************************************************)
EXTENDS SalesTransactions, TLC

CONSTANTS a, b, strict, s1, s2, s3

Line(i, q) == [item |-> i, qty |-> q]

InCash   == [condition |-> "CASH", total |-> 2, warehouse |-> strict,
             lines |-> <<Line(a, 1), Line(b, 1)>>]
OnCredit == [condition |-> "CREDIT", total |-> 2, warehouse |-> strict, lines |-> <<Line(b, 1)>>]
MCDrafts == {OnCredit, InCash}

MCManualLines == {<<Line(a, 1), Line(b, 1)>>}
MCItemOrder == <<a, b>>

Confirm(s, k)  == [op |-> "ConfirmSale", key |-> k, sale |-> s]
Cancel(s, k)   == [op |-> "CancelSale", key |-> k, sale |-> s]
Documented(s, k) == [op |-> "IssueDocument", key |-> k, sale |-> s, type |-> "INTERNAL_SALE"]
Pay(s, k, m)   == [op |-> "RegisterPayment", key |-> k, sale |-> s, amount |-> 1,
                   method |-> m, session |-> 1, booked |-> TRUE]
Open(k)        == [op |-> "OpenCashSession", key |-> k, till |-> "till"]
Close(c, k)    == [op |-> "CloseCashSession", key |-> k, session |-> c]

MCAsks ==
  {Confirm(s1, "c1"), Confirm(s1, "c2"), Confirm(s2, "c2"), Cancel(s1, "x1"), Cancel(s3, "x3"),
   Pay(s3, "p1", "CASH"), Pay(s3, "p2", "OTHER"), Close(1, "z"), Open("o1"), Open("o2"), Documented(s3, "d"),
   [op |-> "ManualTransition", document |-> 1, target |-> "CANCELLED_INTERNAL"]}

MCKeys == {"c1", "c2", "x1", "x3", "p1", "p2", "z", "o1", "o2", "d"}

-----------------------------------------------------------------------------
\* The states requests are sent in, after one unit of each item was received.
Received == [key |-> <<"manual", "k">>, warehouse |-> strict, direction |-> Receipt,
             lines |-> <<Line(a, 1), Line(b, 1)>>]
Delivered == [key |-> <<"sale", s3>>, warehouse |-> strict, direction |-> Issue,
              lines |-> draft[s3].lines]

Stocked(ledger) ==
  /\ movements = ledger
  /\ balance = (strict :> [i \in {a, b} |->
       MapThenSumSet(LAMBDA m : Moved(m, strict, i), ledger)])

\* s1 is a draft in cash, s2 one on credit, and there is stock for either.
Drafted ==
  /\ draft = (s1 :> InCash @@ s2 :> OnCredit @@ s3 :> NoDraft)
  /\ account = [s \in Sales |-> NoAccount]
  /\ saleNumber = [s \in Sales |-> 0]
  /\ lastNumber = ("INTERNAL_SALE" :> 0)
  /\ sessions = <<>>
  /\ Stocked({Received})

\* s3 is confirmed on credit and delivered, and a session is open.
Confirmed ==
  /\ draft = (s1 :> NoDraft @@ s2 :> NoDraft @@ s3 :> OnCredit)
  /\ account = (s1 :> NoAccount @@ s2 :> NoAccount @@ s3 :> OpenedAccount(OnCredit.total))
  /\ saleNumber = (s1 :> 0 @@ s2 :> 0 @@ s3 :> 1)
  /\ lastNumber = ("INTERNAL_SALE" :> 1)
  /\ sessions = <<[till |-> "till", status |-> "OPEN", counted |-> {}]>>
  /\ Stocked({Received, Delivered})

MCInit ==
  /\ RequestsInit
  /\ Drafted \/ Confirmed
  /\ header = [s \in Sales |->
       [status |-> CASE draft[s] = NoDraft -> "NONE"
                     [] saleNumber[s] = 0  -> "DRAFT"
                     [] OTHER              -> "CONFIRMED",
        paid   |-> 0]]
  /\ payments = <<>>
  /\ documents = <<>>

MCSpec == MCInit /\ Behaviour
=============================================================================
