-------------------------------- MODULE Ocr --------------------------------
(***************************************************************************)
(* Assisted reading of documents (apps/api/src/phase3/ocr/ocr.service.ts). *)
(* A job is looked up by its idempotency key before the provider is called *)
(* and stored when the provider has answered; jobs and keys are in the     *)
(* memory of one process, and gone with it.                                *)
(***************************************************************************)
EXTENDS Providers, Sequences, FiniteSets

CONSTANTS
  Stored,       \* the documents of the table documents: company, content, kind
  Keys,         \* idempotency keys
  Readers,      \* sessions
  CompanyOf,    \* the company of each
  MayReadIdentities,  \* the readers with the permission ocr.identity.process
  MaxJobs,      \* bound: jobs in the memory of a process
  MaxCalls      \* bound: calls to providers in flight

ASSUME OcrAssumption ==
  /\ "OCR" \in Categories
  /\ \A r \in Readers : CompanyOf[r] \in Companies

VARIABLES
  jobs,      \* in the order they were stored: what was read, for whom, and its review
  jobByKey,  \* the last job stored with a company and key
  calls,     \* the extractions in flight
  answers    \* what requests were answered since the process started: company, key,
             \* document and job of each

ocrVars == <<jobs, jobByKey, calls, answers>>

NoJob == 0

OcrInit ==
  /\ jobs = <<>>
  /\ jobByKey = [c \in Companies |-> [k \in Keys |-> NoJob]]
  /\ calls = {}
  /\ answers = {}

Documents == DOMAIN Stored

\* The content sent is that of the document, which is in the company and of a kind the
\* server knows; identities need a permission.
MayRead(r, d, content) ==
  /\ Stored[d].company = CompanyOf[r]
  /\ Stored[d].content = content
  /\ Stored[d].kind # "UNKNOWN"
  /\ Stored[d].kind = "IDENTITY" => r \in MayReadIdentities

Answers(r, k, d, n) ==
  answers' = answers \cup {[company |-> CompanyOf[r], key |-> k, document |-> d, job |-> n]}

\* Mutant: the job of a key is the answer, whatever it was asked for.
SameAny(n, d, content) == n # NoJob

\* The job of a key is of the document and the content asked for.
Same(n, d, content) == n # NoJob /\ jobs[n].document = d /\ jobs[n].content = content

\* A key that was used gives its job back, or nothing for another document.
Repeat(r, k, d, content) ==
  /\ MayRead(r, d, content)
  /\ LET n == jobByKey[CompanyOf[r]][k]
     IN  Same(n, d, content) /\ Answers(r, k, d, n)
  /\ UNCHANGED <<jobs, jobByKey, calls, providerVars>>

\* Otherwise the active provider is called, if its breaker admits it.
Extract(r, k, d, content) ==
  LET i == ActiveOf(CompanyOf[r], "OCR") IN
  /\ MayRead(r, d, content)
  /\ jobByKey[CompanyOf[r]][k] = NoJob
  /\ Cardinality(calls) < MaxCalls
  /\ Providers[i].mode # "DISABLED" /\ Admits(i)
  /\ calls' = calls \cup {[reader |-> r, key |-> k, document |-> d, content |-> content, provider |-> i]}
  /\ Calls(i)
  /\ UNCHANGED <<jobs, jobByKey, answers, active, state>>

\* The job is stored and takes the key, whatever was stored under it meanwhile.
Extracted(call) ==
  /\ call \in calls
  /\ Len(jobs) < MaxJobs
  /\ LET c == CompanyOf[call.reader]
         n == Len(jobs) + 1
     IN  /\ jobs' = Append(jobs, [company |-> c, key |-> call.key, document |-> call.document,
                                  content |-> call.content, provider |-> call.provider,
                                  review |-> "PENDING"])
         /\ jobByKey' = [jobByKey EXCEPT ![c][call.key] = n]
         /\ Answers(call.reader, call.key, call.document, n)
  /\ calls' = calls \ {call}
  /\ CallSucceeds(call.provider)
  /\ UNCHANGED <<active, state>>

\* An error, or a timeout: nothing is stored.
NotExtracted(call) ==
  /\ call \in calls
  /\ calls' = calls \ {call}
  /\ CallFails(call.provider)
  /\ UNCHANGED <<jobs, jobByKey, answers, active, state>>

\* A job is reviewed if it is of the company, and no one did before.
Confirm(r, n, outcome) ==
  /\ jobs[n].company = CompanyOf[r]
  /\ jobs[n].review = "PENDING"
  /\ jobs' = [jobs EXCEPT ![n].review = outcome]
  /\ UNCHANGED <<jobByKey, calls, answers, providerVars>>

\* The process starts anew.
Restart ==
  /\ jobs # <<>>
  /\ jobs' = <<>>
  /\ jobByKey' = [c \in Companies |-> [k \in Keys |-> NoJob]]
  /\ calls' = {}
  /\ answers' = {}
  /\ Forget

OcrNext ==
  \/ \E r \in Readers :
       \/ \E k \in Keys, d \in Documents :
            Repeat(r, k, d, Stored[d].content) \/ Extract(r, k, d, Stored[d].content)
       \/ \E n \in DOMAIN jobs, outcome \in {"DRAFT_APPROVED", "REJECTED"} : Confirm(r, n, outcome)
  \/ \E call \in calls : Extracted(call) \/ NotExtracted(call)
  \/ Restart

-----------------------------------------------------------------------------
\* While a process runs, whoever asks with a key is answered with a reading of the
\* document it asked for, made in its company by a provider of that company, although
\* two requests with one key were both looked up before either was stored, and a key
\* always leads to a job that was stored with it.
AnswersAreOfTheirDocument ==
  /\ \A a \in answers :
       /\ jobs[a.job].document = a.document
       /\ jobs[a.job].company = a.company
       /\ jobs[a.job].content = Stored[a.document].content
       /\ Visible(a.company, jobs[a.job].provider)
  /\ \A c \in Companies, k \in Keys :
       jobByKey[c][k] # NoJob =>
         jobs[jobByKey[c][k]].company = c /\ jobs[jobByKey[c][k]].key = k
=============================================================================
