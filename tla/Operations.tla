----------------------------- MODULE Operations -----------------------------
(***************************************************************************)
(* The parts of the program that work beside sales and stock: waste,       *)
(* legal documents, the assisted reading of documents, the artificial      *)
(* intelligence, the records and rules of CRM, projects, people, safety    *)
(* and assets, the data of the company, the data of a demonstration and    *)
(* the limit of requests.  They share no table and no memory but the       *)
(* providers, so that a behaviour is about one of them: its area.          *)
(***************************************************************************)
EXTENDS Waste, Governance, Ocr, Assistant, Crm, Lifecycles, Assets, Records,
        Company, Demo, RateLimit

CONSTANT Areas   \* the areas behaviours are about

VARIABLE area

sideVars == <<companyVars, demoVars, rateVars>>
businessVars == <<wasteVars, governanceVars, providerVars, ocrVars, assistantVars,
                  crmVars, record, assetsVars, recordsVars>>
operationsVars == <<area, businessVars, sideVars>>

\* What the records of an area begin with is of no interest to another.
OperationsInit ==
  /\ area \in Areas
  /\ WasteInit /\ GovernanceInit /\ ProvidersInit /\ OcrInit /\ AssistantInit
  /\ CrmInit /\ LifecyclesInit /\ AssetsInit /\ RecordsInit
  /\ CompanyInit /\ DemoInit /\ RateLimitInit
  /\ area # "lifecycles" => record.kind = "PROJECT"
  /\ area # "assets" => status = "AVAILABLE" /\ assignments[1].location = CHOOSE l \in Locations : TRUE
  /\ area # "demo" => matched = ResetGuards

OperationsNext ==
  /\ UNCHANGED area
  /\ \/ /\ area = "waste" /\ WasteNext
        /\ UNCHANGED <<governanceVars, providerVars, ocrVars, assistantVars,
                       crmVars, record, assetsVars, recordsVars, sideVars>>
     \/ /\ area = "governance" /\ GovernanceNext
        /\ UNCHANGED <<wasteVars, providerVars, ocrVars, assistantVars,
                       crmVars, record, assetsVars, recordsVars, sideVars>>
     \/ /\ area = "ocr"
        /\ OcrNext \/ (ProvidersNext({"OCR"}) /\ UNCHANGED ocrVars)
        /\ UNCHANGED <<wasteVars, governanceVars, assistantVars,
                       crmVars, record, assetsVars, recordsVars, sideVars>>
     \/ /\ area = "assistant"
        /\ \/ AssistantNext
           \/ /\ ProvidersNext({"AI"}) \/ \E i \in ProviderIds : Cool(i)
              /\ UNCHANGED assistantVars
        /\ UNCHANGED <<wasteVars, governanceVars, ocrVars,
                       crmVars, record, assetsVars, recordsVars, sideVars>>
     \/ /\ area = "crm" /\ CrmNext
        /\ UNCHANGED <<wasteVars, governanceVars, providerVars, ocrVars, assistantVars,
                       record, assetsVars, recordsVars, sideVars>>
     \/ /\ area = "lifecycles" /\ LifecyclesNext
        /\ UNCHANGED <<wasteVars, governanceVars, providerVars, ocrVars, assistantVars,
                       crmVars, assetsVars, recordsVars, sideVars>>
     \/ /\ area = "assets" /\ AssetsNext
        /\ UNCHANGED <<wasteVars, governanceVars, providerVars, ocrVars, assistantVars,
                       crmVars, record, recordsVars, sideVars>>
     \/ /\ area = "records" /\ RecordsNext
        /\ UNCHANGED <<wasteVars, governanceVars, providerVars, ocrVars, assistantVars,
                       crmVars, record, assetsVars, sideVars>>
     \/ /\ area = "company" /\ CompanyNext
        /\ UNCHANGED <<businessVars, demoVars, rateVars>>
     \/ /\ area = "demo" /\ DemoNext
        /\ UNCHANGED <<businessVars, companyVars, rateVars>>
     \/ /\ area = "requests" /\ RateLimitNext
        /\ UNCHANGED <<businessVars, companyVars, demoVars>>

OperationsSpec == OperationsInit /\ [][OperationsNext]_operationsVars

-----------------------------------------------------------------------------
\* What is used is bounded: the questions to an artificial intelligence and what it is
\* told, the calls to a provider that fails, the requests of one caller.
UseIsBounded == AssistantIsBounded /\ BurstsAreBounded

\* What is kept hangs together: the history of a record, or of the company, leads to where
\* it is, each audit to what was done, and each row of a demonstration to its parent.
HistoriesAreUnbroken ==
  /\ OpportunitiesFollowTheirEvents
  /\ ClosuresAreEarned
  /\ AssignmentsFollowEachOther
  /\ RecordsAreAudited
  /\ CompanyIsNotOverwritten
  /\ DemoIsWhole
=============================================================================
