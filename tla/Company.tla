------------------------------ MODULE Company ------------------------------
(***************************************************************************)
(* The data of a company (apps/api/src/organization.service.ts) and the    *)
(* page they are edited on (apps/web/src/pages/CompanyPage.tsx, with the   *)
(* drafts of apps/web/src/drafts.ts).  Whoever saves tells the version     *)
(* that was read; a browser keeps what was typed and not saved in a draft, *)
(* one for all its users and companies, and gives it back when the page is *)
(* opened again.                                                           *)
(***************************************************************************)
EXTENDS Integers, Sequences

CONSTANTS
  Browsers,      \* each with one page, open or not
  Firms,         \* the companies
  CompanyFields,
  CompanyValues,
  Founded,       \* the values each company begins with
  NoForm,
  MaxUpdates,    \* bound: updates of a company
  MaxKeystrokes  \* bound: fields changed in each browser

ASSUME CompanyAssumption ==
  /\ \A c \in Firms : Founded[c] \in CompanyValues
  /\ MaxUpdates \in Nat
  /\ MaxKeystrokes \in [Browsers -> Nat]

VARIABLES
  firm,       \* values and version of each company
  changes,    \* the audit of each company
  form,       \* the page of each browser
  draft,      \* the draft of each browser, or NoForm
  saving,     \* the request of each browser, or NoForm
  keystrokes

companyVars == <<firm, changes, form, draft, saving, keystrokes>>

CompanyInit ==
  /\ firm = [c \in Firms |-> [values |-> [f \in CompanyFields |-> Founded[c]], version |-> 1]]
  /\ changes = [c \in Firms |-> <<>>]
  /\ form = [b \in Browsers |-> NoForm]
  /\ draft = [b \in Browsers |-> NoForm]
  /\ saving = [b \in Browsers |-> NoForm]
  /\ keystrokes = [b \in Browsers |-> 0]

-----------------------------------------------------------------------------
\* getCompany, and getDraft when it has answered: the draft wins over the values read,
\* and the version read over the draft.  `kept` are the fields that show what was read.
\* Bounds: nothing is typed before the draft is there, which takes
\* no request; the page of another company is opened when no request is under way, and
\* not with what the browser read of the last one within half a minute.
OpenForm(b, c) ==
  /\ form[b] = NoForm
  /\ saving[b] # NoForm => saving[b].form.company = c
  /\ LET recovered == draft[b] # NoForm
         values    == IF recovered THEN draft[b] ELSE firm[c].values
     IN  form' = [form EXCEPT ![b] =
           [company |-> c, values |-> values, defaults |-> values, version |-> firm[c].version,
            kept |-> IF recovered THEN {} ELSE CompanyFields]]
  /\ UNCHANGED <<firm, changes, draft, saving, keystrokes>>

\* The page is left, or another user or company comes to it.  Its request goes on.
LeaveForm(b) ==
  /\ form[b] # NoForm
  /\ form' = [form EXCEPT ![b] = NoForm]
  /\ UNCHANGED <<firm, changes, draft, saving, keystrokes>>

\* watch: a change is saved in the draft if the form was dirty before it, so that the
\* first one is not.  The form can be changed while it is being saved.
Type(b, f, x) ==
  /\ form[b] # NoForm
  /\ x # form[b].values[f]
  /\ keystrokes[b] < MaxKeystrokes[b]
  /\ keystrokes' = [keystrokes EXCEPT ![b] = @ + 1]
  /\ form' = [form EXCEPT ![b].values[f] = x, ![b].kept = @ \ {f}]
  /\ draft' = IF form[b].values # form[b].defaults
              THEN [draft EXCEPT ![b] = form'[b].values]
              ELSE draft
  /\ UNCHANGED <<firm, changes, saving>>

\* What is saved becomes the form's defaults when it is.
Save(b) ==
  /\ form[b] # NoForm /\ saving[b] = NoForm
  /\ saving' = [saving EXCEPT ![b] =
       [step |-> "sent", form |-> [form[b] EXCEPT !.defaults = form[b].values]]]
  /\ UNCHANGED <<firm, changes, form, draft, keystrokes>>

-----------------------------------------------------------------------------
\* updateCompany.  What the company was is read first, and nothing locked.
ReadBefore(b) ==
  /\ saving[b] # NoForm /\ saving[b].step = "sent"
  /\ saving' = [saving EXCEPT ![b] =
       [step |-> "read", form |-> saving[b].form, before |-> firm[saving[b].form.company].values]]
  /\ UNCHANGED <<firm, changes, form, draft, keystrokes>>

\* Mutant: the version is not compared.
AnyVersion(c, version) == TRUE

SameVersion(c, version) == firm[c].version = version

\* update ... where version = $15, its audit, and the commit.
WriteCompany(b) ==
  /\ saving[b] # NoForm /\ saving[b].step = "read"
  /\ LET sent == saving[b].form
         c    == sent.company
     IN  /\ SameVersion(c, sent.version)
         /\ firm[c].version <= MaxUpdates
         /\ firm' = [firm EXCEPT ![c] = [values |-> sent.values, version |-> @.version + 1]]
         /\ changes' = [changes EXCEPT ![c] =
              Append(@, [before |-> saving[b].before, after |-> sent.values, version |-> firm[c].version + 1,
                         kept |-> sent.kept])]
  /\ saving' = [saving EXCEPT ![b] = [step |-> "done", form |-> [saving[b].form EXCEPT !.version = @ + 1]]]
  /\ UNCHANGED <<form, draft, keystrokes>>

\* onSuccess: the page, if it is open, shows what was saved, and no draft is left, not
\* even of what was typed in the meantime.
Saved(b) ==
  /\ saving[b] # NoForm /\ saving[b].step = "done"
  /\ saving' = [saving EXCEPT ![b] = NoForm]
  /\ draft' = [draft EXCEPT ![b] = NoForm]
  /\ LET saved == saving[b].form IN
     form' = IF form[b] = NoForm THEN form
             ELSE [form EXCEPT ![b] = [saved EXCEPT !.kept = CompanyFields]]
  /\ UNCHANGED <<firm, changes, keystrokes>>

\* OPTIMISTIC_CONCURRENCY_CONFLICT or any other error, the transaction is rolled back; or
\* its answer never comes.  Form, version and draft stay.
NotSaved(b) ==
  /\ saving[b] # NoForm /\ saving[b].step \in {"read", "done"}
  /\ saving' = [saving EXCEPT ![b] = NoForm]
  /\ UNCHANGED <<firm, changes, form, draft, keystrokes>>

CompanyNext ==
  \E b \in Browsers :
    \/ \E c \in Firms : OpenForm(b, c)
    \/ LeaveForm(b)
    \/ \E f \in CompanyFields, x \in CompanyValues : Type(b, f, x)
    \/ Save(b)
    \/ ReadBefore(b) \/ WriteCompany(b)
    \/ Saved(b) \/ NotSaved(b)

-----------------------------------------------------------------------------
\* Whoever edits a company at once, its audit tells of one update after the other, each
\* from where the last one ended, though what the company was is read before anything is
\* locked.  And nobody writes back an old value that somebody else has changed since,
\* unless the page gave a draft back: only that shows old values with a new version.
CompanyIsNotOverwritten ==
  \A c \in Firms :
    LET n == Len(changes[c]) IN
    /\ firm[c].version = n + 1
    /\ n > 0 => firm[c].values = changes[c][n].after
    /\ \A i \in 1..n :
         LET change == changes[c][i] IN
         /\ change.version = i + 1
         /\ i > 1 => change.before = changes[c][i - 1].after
         /\ \A f \in change.kept : change.after[f] = change.before[f]
=============================================================================
