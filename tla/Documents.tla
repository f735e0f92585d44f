----------------------------- MODULE Documents -----------------------------
(***************************************************************************)
(* The commercial documents of the sales (invoices, receipts and internal  *)
(* notes), the numbering series they share with the sales, and the life    *)
(* of a document towards SUNAT (apps/api/src/sunat.service.ts): a person   *)
(* records what SUNAT answered, or the demonstration provider answers.     *)
(***************************************************************************)
EXTENDS Integers, Sequences, FiniteSets, Sources

CONSTANTS
  DocumentTypes,   \* the types a document may be issued as
  MaxDocuments,    \* bound: the documents a behaviour issues
  MaxAttempts,     \* bound: the submissions of one document
  MockAllowed      \* FALSE when NODE_ENV is production

ASSUME DocumentsAssumption ==
  /\ "INTERNAL_SALE" \in DocumentTypes
  /\ MaxDocuments \in Nat
  /\ MaxAttempts \in Nat
  /\ MockAllowed \in BOOLEAN

VARIABLES
  documents,   \* the documents in the order they were issued
  lastNumber   \* current_number of the active series of each type

documentVars == <<documents, lastNumber>>

DocumentStatus ==
  {"ISSUED", "PENDING_SUBMISSION", "ACCEPTED", "ACCEPTED_WITH_OBSERVATIONS",
   "REJECTED", "FAILED", "VOID_PENDING", "VOIDED", "CANCELLED_INTERNAL"}

Document == [sale : Sales, type : DocumentTypes, number : Nat \ {0},
             status : DocumentStatus, attempts : Nat]

DocumentsInit ==
  /\ documents = <<>>
  /\ lastNumber = [t \in DocumentTypes |-> 0]

\* What a person may record for a document, by its current status.
Transitions ==
  [ISSUED |-> {"PENDING_SUBMISSION", "CANCELLED_INTERNAL"},
   PENDING_SUBMISSION |->
     {"ACCEPTED", "ACCEPTED_WITH_OBSERVATIONS", "REJECTED", "FAILED", "VOID_PENDING"},
   ACCEPTED |-> {"VOID_PENDING"},
   ACCEPTED_WITH_OBSERVATIONS |-> {"VOID_PENDING"},
   REJECTED |-> {},
   FAILED |-> {"PENDING_SUBMISSION", "REJECTED"},
   VOID_PENDING |-> {"VOIDED", "FAILED"},
   VOIDED |-> {},
   CANCELLED_INTERNAL |-> {}]

\* What the demonstration provider answers, a timeout counting as FAILED.
MockResults == {"ACCEPTED", "ACCEPTED_WITH_OBSERVATIONS", "REJECTED", "FAILED"}

\* Mutant: the number the series had before it was updated.
NumberBefore(t) == lastNumber[t]

\* The series row is updated in the transaction that uses the number.
NextNumber(t) == lastNumber[t] + 1

TakeNumber(t) == lastNumber' = [lastNumber EXCEPT ![t] = @ + 1]

DocumentsOf(s) == {n \in DOMAIN documents : documents[n].sale = s}

\* Mutant: a voided document makes room for another one.
IssuedUnlessVoided(s) ==
  \E n \in DocumentsOf(s) : documents[n].status \notin {"VOIDED", "CANCELLED_INTERNAL"}

\* A document that still stands in the way of another one.
Issued(s) == \E n \in DocumentsOf(s) : documents[n].status # "CANCELLED_INTERNAL"

\* Mutant: a rejected document does not stand in the way.
AliveUnlessRejected(s) ==
  \E n \in DocumentsOf(s) :
    documents[n].status \notin {"REJECTED", "VOIDED", "CANCELLED_INTERNAL"}

\* A document that stands in the way of cancelling its sale.
Dead == {"VOIDED", "CANCELLED_INTERNAL"}
Alive(s) == \E n \in DocumentsOf(s) : documents[n].status \notin Dead

AppendDocument(s, t) ==
  /\ Len(documents) < MaxDocuments
  /\ documents' = Append(documents,
       [sale |-> s, type |-> t, number |-> NextNumber(t), status |-> "ISSUED", attempts |-> 0])

ManualTransition(n, target) ==
  /\ target \in Transitions[documents[n].status]
  /\ documents' = [documents EXCEPT ![n].status = target]
  /\ UNCHANGED lastNumber

SubmitMock(n, result) ==
  /\ MockAllowed
  /\ documents[n].status \in {"ISSUED", "FAILED", "PENDING_SUBMISSION"}
  /\ documents[n].attempts < MaxAttempts
  /\ documents' = [documents EXCEPT ![n].status = result, ![n].attempts = @ + 1]
  /\ UNCHANGED lastNumber

DocumentsNext ==
  \E n \in DOMAIN documents :
    \/ \E target \in DocumentStatus : ManualTransition(n, target)
    \/ \E result \in MockResults : SubmitMock(n, result)

-----------------------------------------------------------------------------
DocumentsTypeOK ==
  /\ documents \in Seq(Document)
  /\ lastNumber \in [DocumentTypes -> Nat]

\* The refusal of a second document reads the documents of the sale without
\* locking them; a sale must not end up with two that stand all the same.
OneStandingDocument ==
  \A m, n \in DOMAIN documents :
    m # n /\ documents[m].sale = documents[n].sale =>
      "CANCELLED_INTERNAL" \in {documents[m].status, documents[n].status}
=============================================================================
