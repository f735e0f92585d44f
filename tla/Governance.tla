----------------------------- MODULE Governance -----------------------------
(***************************************************************************)
(* Legal documents and privacy (apps/api/src/phase3/governance/            *)
(* governance.service.ts): the users of a company accept published         *)
(* versions of documents, give consents, take both back and ask for their  *)
(* data.  The tables only grow: what was given is never changed, and what  *)
(* was taken back is a row of another table.  Requests run side by side,   *)
(* each in one transaction that commits or does not.                       *)
(***************************************************************************)
EXTENDS Integers, Sequences, FiniteSets

CONSTANTS
  Sessions,        \* open sessions
  UserOf,          \* the user of each; one user may have several
  LegalCodes,      \* a document is known by its code and has a single version
  PublishedCodes,  \* documents whose version was published outside of the API
  Consents,        \* versions of consents in effect
  Numbers,         \* numbers of privacy requests
  MaxGiven         \* bound: acceptances, and consents, that are recorded

ASSUME GovernanceAssumption ==
  /\ PublishedCodes \subseteq LegalCodes
  /\ MaxGiven \in Nat

VARIABLES
  documents,    \* status and publication of each document that was drafted
  acceptances,  \* who accepted which document, in the order of the commits
  revocations,  \* the acceptances that were revoked
  consents,     \* who granted or refused which consent
  withdrawals,
  asked,        \* the numbers of the privacy requests
  writing       \* what the transaction of each session has written

governanceVars == <<documents, acceptances, revocations, consents, withdrawals, asked, writing>>

Nothing == [kind |-> "NOTHING"]
NoDocument == [status |-> "none", published |-> FALSE]

GovernanceInit ==
  /\ documents = [c \in LegalCodes |->
       IF c \in PublishedCodes THEN [status |-> "published", published |-> TRUE] ELSE NoDocument]
  /\ acceptances = <<>> /\ revocations = {}
  /\ consents = <<>> /\ withdrawals = {}
  /\ asked = {}
  /\ writing = [s \in Sessions |-> Nothing]

\* acceptanceHistory and consents show a user what is its own.
AcceptanceHistory(u) == {n \in DOMAIN acceptances : acceptances[n].user = u}
ConsentHistory(u) == {n \in DOMAIN consents : consents[n].user = u}

\* legal_acceptance_effective_status
ActiveAcceptances == {n \in DOMAIN acceptances : n \notin revocations}

-----------------------------------------------------------------------------
\* The unique keys.

\* Mutant: the index looks at what is in effect.
TakenInEffect(row) ==
  CASE row.kind = "DOCUMENT" -> documents[row.code] # NoDocument
    [] row.kind = "ACCEPTANCE" ->
         \E n \in ActiveAcceptances : acceptances[n] = [code |-> row.code, user |-> row.user]
    [] row.kind = "REVOCATION" -> row.of \in revocations
    [] row.kind = "WITHDRAWAL" -> row.of \in withdrawals
    [] row.kind = "REQUEST"    -> row.number \in asked
    [] OTHER -> FALSE

\* legal_acceptances_user_unique is on revoked_at is null, a column nothing ever sets.
Taken(row) ==
  CASE row.kind = "DOCUMENT" -> documents[row.code] # NoDocument
    [] row.kind = "ACCEPTANCE" ->
         \E n \in DOMAIN acceptances : acceptances[n] = [code |-> row.code, user |-> row.user]
    [] row.kind = "REVOCATION" -> row.of \in revocations
    [] row.kind = "WITHDRAWAL" -> row.of \in withdrawals
    [] row.kind = "REQUEST"    -> row.number \in asked
    [] OTHER -> FALSE

\* A row waits for an equal one that is not committed; publication locks the version,
\* which acceptances refer to.  Consents have no key.
Conflict(row, other) ==
  \/ row = other /\ row.kind # "CONSENT"
  \/ /\ {row.kind, other.kind} = {"PUBLICATION", "ACCEPTANCE"}
     /\ row.code = other.code

\* The statements of a transaction, up to the audit.
Write(s, row) ==
  /\ writing[s] = Nothing
  /\ ~Taken(row)
  /\ \A t \in Sessions : ~Conflict(row, writing[t])
  /\ writing' = [writing EXCEPT ![s] = row]
  /\ UNCHANGED <<documents, acceptances, revocations, consents, withdrawals, asked>>

CreateLegalDocument(s, c) == Write(s, [kind |-> "DOCUMENT", code |-> c])

PublishLegalVersion(s, c) ==
  /\ documents[c] # NoDocument /\ ~documents[c].published
  /\ Write(s, [kind |-> "PUBLICATION", code |-> c])

RecordAcceptance(s, c) ==
  /\ documents[c].published
  /\ Write(s, [kind |-> "ACCEPTANCE", code |-> c, user |-> UserOf[s]])

RevokeAcceptance(s, n) ==
  /\ n \in AcceptanceHistory(UserOf[s])
  /\ Write(s, [kind |-> "REVOCATION", of |-> n])

RecordConsent(s, c, granted) ==
  Write(s, [kind |-> "CONSENT", consent |-> c, user |-> UserOf[s], granted |-> granted])

WithdrawConsent(s, n) ==
  /\ n \in ConsentHistory(UserOf[s])
  /\ Write(s, [kind |-> "WITHDRAWAL", of |-> n])

CreatePrivacyRequest(s, number) == Write(s, [kind |-> "REQUEST", number |-> number])

-----------------------------------------------------------------------------
DocumentStatuses == {"draft", "under_review", "approved", "published", "superseded", "retired"}

\* The status publishLegalVersion gives to the document is none of those the table takes,
\* so that a publication fails whatever it publishes.
Fits(row) == row.kind = "PUBLICATION" => "active" \in DocumentStatuses

Ends(s) ==
  /\ writing[s] # Nothing
  /\ writing' = [writing EXCEPT ![s] = Nothing]

CommitRow(s) ==
  LET row == writing[s]
      Only(kind) == row.kind = kind
  IN  /\ Ends(s)
      /\ Fits(row)
      /\ Only("ACCEPTANCE") => Len(acceptances) < MaxGiven
      /\ Only("CONSENT") => Len(consents) < MaxGiven
      /\ documents' =
           CASE Only("DOCUMENT") ->
                  [documents EXCEPT ![row.code] = [status |-> "draft", published |-> FALSE]]
             [] Only("PUBLICATION") ->
                  [documents EXCEPT ![row.code] = [status |-> "active", published |-> TRUE]]
             [] OTHER -> documents
      /\ acceptances' = IF Only("ACCEPTANCE")
                        THEN Append(acceptances, [code |-> row.code, user |-> row.user])
                        ELSE acceptances
      /\ revocations' = revocations \cup (IF Only("REVOCATION") THEN {row.of} ELSE {})
      /\ consents' = IF Only("CONSENT")
                     THEN Append(consents,
                            [consent |-> row.consent, user |-> row.user, granted |-> row.granted])
                     ELSE consents
      /\ withdrawals' = withdrawals \cup (IF Only("WITHDRAWAL") THEN {row.of} ELSE {})
      /\ asked' = asked \cup (IF Only("REQUEST") THEN {row.number} ELSE {})

RollBackRow(s) ==
  /\ Ends(s)
  /\ UNCHANGED <<documents, acceptances, revocations, consents, withdrawals, asked>>

GovernanceNext ==
  \E s \in Sessions :
    \/ \E c \in LegalCodes :
         CreateLegalDocument(s, c) \/ PublishLegalVersion(s, c) \/ RecordAcceptance(s, c)
    \/ \E n \in DOMAIN acceptances : RevokeAcceptance(s, n)
    \/ \E c \in Consents, granted \in BOOLEAN : RecordConsent(s, c, granted)
    \/ \E n \in DOMAIN consents : WithdrawConsent(s, n)
    \/ \E number \in Numbers : CreatePrivacyRequest(s, number)
    \/ CommitRow(s) \/ RollBackRow(s)

GovernanceSpec == GovernanceInit /\ [][GovernanceNext]_governanceVars

-----------------------------------------------------------------------------
\* A user accepts a document once, from however many sessions at once, and only one that
\* is published; an acceptance that was revoked is not given again, so that whoever
\* revoked has nothing in effect.
AcceptancesAreFinal ==
  /\ \A n \in DOMAIN acceptances : documents[acceptances[n].code].published
  /\ \A m, n \in DOMAIN acceptances : acceptances[m] = acceptances[n] => m = n
  /\ \A n \in ActiveAcceptances, m \in revocations : acceptances[m] # acceptances[n]
=============================================================================
