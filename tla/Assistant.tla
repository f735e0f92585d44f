----------------------------- MODULE Assistant -----------------------------
(***************************************************************************)
(* Questions to an artificial intelligence (apps/api/src/phase3/ai/        *)
(* ai.service.ts, tool-registry.ts).  A question is checked against the    *)
(* policy and the budget of the day, may first wait for a tool, then waits *)
(* for the provider, and is counted when that has answered.  Policy and    *)
(* counts are in the memory of one process, the policy for all companies.  *)
(***************************************************************************)
EXTENDS Providers, FiniteSets

CONSTANTS
  Policies,    \* the policies it may be given: enabled, categories, limit
  Sources,     \* documents, each with the categories of its data
  Tool,        \* the registered tool: categories of its output, who may use it
  Questions,   \* bound: questions that are worked on at once
  Askers,
  AskerCompany

\* A limit is a number of questions, and one of them the greatest.
ASSUME AssistantAssumption ==
  /\ IsFiniteSet(Questions) /\ Questions # {}
  /\ \A p \in Policies : p.limit \in Nat
  /\ \E n \in {p.limit : p \in Policies} : \A p \in Policies : p.limit <= n

VARIABLES
  policy,
  questions,  \* how far each question is
  usage       \* questions of each company answered today

assistantVars == <<policy, questions, usage>>

NoQuestion == [step |-> "free"]
NoPolicy == [enabled |-> FALSE, categories |-> {"PUBLIC", "INTERNAL"}, limit |-> 100]
NoUsage == [c \in Companies |-> 0]

AssistantInit ==
  /\ policy = NoPolicy
  /\ questions = [q \in Questions |-> NoQuestion]
  /\ usage = NoUsage

AlwaysProhibited == {"MEDICAL", "CREDENTIAL", "PROVIDER_SECRET"}

ConfigurePolicy(new) ==
  /\ new.categories \cap AlwaysProhibited = {}
  /\ policy' = new
  /\ UNCHANGED <<questions, usage, providerVars>>

\* Mutant: the budget is exceeded only above the limit.
UpToBudget(c) == usage[c] <= policy.limit

WithinBudget(c) == usage[c] < policy.limit

\* The sources with a category the policy does not allow are left out.
Accepted(sources) == {s \in sources : Sources[s] \subseteq policy.categories \ AlwaysProhibited}

\* complete of the active provider, if its breaker admits it.
CallProvider(q, u, sources) ==
  LET i == ActiveOf(AskerCompany[u], "AI") IN
  /\ Providers[i].mode # "DISABLED" /\ Admits(i)
  /\ questions' = [questions EXCEPT ![q] =
       [step |-> "calling", asker |-> u, sources |-> sources, provider |-> i,
        allowed |-> policy.categories]]
  /\ Calls(i)

MayAsk(u) == policy.enabled /\ WithinBudget(AskerCompany[u])

Ask(q, u, sources) ==
  /\ questions[q] = NoQuestion
  /\ MayAsk(u)
  /\ CallProvider(q, u, Accepted(sources))
  /\ UNCHANGED <<policy, usage, active, state>>

\* The tool needs a permission, and a policy that allows what it says.
AskWithTool(q, u, sources) ==
  /\ questions[q] = NoQuestion
  /\ MayAsk(u)
  /\ Tool.categories \subseteq policy.categories
  /\ u \in Tool.users
  /\ questions' = [questions EXCEPT ![q] = [step |-> "tool", asker |-> u, sources |-> Accepted(sources)]]
  /\ UNCHANGED <<policy, usage, providerVars>>

\* The provider is that of now, and the categories it is told the ones allowed now.
AfterTool(q) ==
  /\ questions[q].step = "tool"
  /\ CallProvider(q, questions[q].asker, questions[q].sources)
  /\ UNCHANGED <<policy, usage, active, state>>

\* The tool fails, or the provider is disabled or not admitted.
ToolFails(q) ==
  /\ questions[q].step = "tool"
  /\ questions' = [questions EXCEPT ![q] = NoQuestion]
  /\ UNCHANGED <<policy, usage, providerVars>>

Answered(q) ==
  /\ questions[q].step = "calling"
  /\ usage' = [usage EXCEPT ![AskerCompany[questions[q].asker]] = @ + 1]
  /\ CallSucceeds(questions[q].provider)
  /\ questions' = [questions EXCEPT ![q] = NoQuestion]
  /\ UNCHANGED <<policy, active, state>>

\* An error, or withTimeout aborted it: it counts for the breaker only.
NotAnswered(q) ==
  /\ questions[q].step = "calling"
  /\ CallFails(questions[q].provider)
  /\ questions' = [questions EXCEPT ![q] = NoQuestion]
  /\ UNCHANGED <<policy, usage, active, state>>

\* An answer counts for the day it came in.
Midnight ==
  /\ usage' = NoUsage
  /\ UNCHANGED <<policy, questions, providerVars>>

RestartAssistant ==
  /\ policy' = NoPolicy
  /\ questions' = [q \in Questions |-> NoQuestion]
  /\ usage' = NoUsage
  /\ Forget

AssistantNext ==
  \/ \E new \in Policies : ConfigurePolicy(new)
  \/ \E q \in Questions :
       \/ \E u \in Askers, sources \in SUBSET DOMAIN Sources : Ask(q, u, sources) \/ AskWithTool(q, u, sources)
       \/ AfterTool(q) \/ ToolFails(q)
       \/ Answered(q) \/ NotAnswered(q)
  \/ Midnight
  \/ RestartAssistant

-----------------------------------------------------------------------------
MaxLimit == CHOOSE n \in {p.limit : p \in Policies} : \A p \in Policies : p.limit <= n

\* The budget of a day is exceeded only by the questions that were asked before the last
\* one within it was answered, as many as are worked on at once less one.
BudgetIsKept == \A c \in Companies : usage[c] <= MaxLimit + Cardinality(Questions) - 1

\* The sources a provider gets are of no prohibited category, whatever the policy was
\* when they were chosen and is when they are sent.
NothingProhibitedIsSent ==
  \A q \in Questions :
    questions[q].step = "calling" =>
      \A s \in questions[q].sources : Sources[s] \cap AlwaysProhibited = {}

\* What leaves the company is bounded: its questions by the budget, its data by the
\* categories, and the calls to a provider that fails by the breaker.
AssistantIsBounded == BudgetIsKept /\ NothingProhibitedIsSent /\ BreakerOpens
=============================================================================
