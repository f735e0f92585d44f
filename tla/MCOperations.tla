---------------------------- MODULE MCOperations ----------------------------
(***************************************************************************)
(* A small instance of Operations.  The application registers no provider  *)
(* of its own and gives the policy no value: that is done here as its      *)
(* tests do it, with a reader of documents and a remote model on the       *)
(* company's own machine, both of the first company, and a simulated       *)
(* reader of the second.                                                   *)
(***************************************************************************)
EXTENDS Operations, TLC

CONSTANTS p1, p2, q1, q2, w1, none, all, s1, s2, s3, u, v, terms, notice, consent, number,
          bill, card, other, key, r1, r2, memo, chart, l1, here, there, c1, c2, c3, a, b

MCPermissions == (p1 :> {"CREATE", "ADVANCE", "EXCEPTION"}) @@ (p2 :> {"ADVANCE"})

MCUserOf == (s1 :> u) @@ (s2 :> u) @@ (s3 :> v)

Provider(category, mode, company, remote, health) ==
  [category |-> category, mode |-> mode, company |-> company, remote |-> remote, health |-> health]

MCProviders ==
  [ocrDisabled |-> Provider("OCR", "DISABLED", all, FALSE, {"DISABLED"}),
   ocrLocal    |-> Provider("OCR", "LOCAL", a, FALSE, {"CONFIGURED"}),
   ocrMock     |-> Provider("OCR", "MOCK", b, FALSE, {"HEALTHY"}),
   aiDisabled  |-> Provider("AI", "DISABLED", all, FALSE, {"DISABLED"}),
   aiLocal     |-> Provider("AI", "LOCAL", a, TRUE, {"HEALTHY", "UNAVAILABLE"})]
MCDefault == [OCR |-> "ocrDisabled", AI |-> "aiDisabled"]

\* The card of an identity has the content of the bill.
MCStored == (bill :> [company |-> a, content |-> 1, kind |-> "RECEIPT"])
         @@ (card :> [company |-> a, content |-> 1, kind |-> "IDENTITY"])
         @@ (other :> [company |-> b, content |-> 2, kind |-> "RECEIPT"])
MCCompanyOf == (r1 :> a) @@ (r2 :> b)

Policy(categories) == [enabled |-> TRUE, categories |-> categories, limit |-> 1]
MCPolicies == {Policy({"PUBLIC"}), Policy({"INTERNAL"})}
MCSources == (memo :> {"INTERNAL"}) @@ (chart :> {"INTERNAL", "MEDICAL"})
MCTool == [categories |-> {"INTERNAL"}, users |-> {u}]
MCAskerCompany == (u :> a)

MCStages == [contact |-> "OPEN", offer |-> "OPEN", won |-> "WON", lost |-> "LOST"]

MCCompanyAt == (c1 :> a) @@ (c2 :> a) @@ (c3 :> b)
MCKinds == {"project", "task", "asset", "workOrder"}
MCParentOf == [project |-> none, task |-> "project", asset |-> none, workOrder |-> "asset"]
MCEvidence == (bill :> a) @@ (other :> b)

MCKeystrokes == (p1 :> 2) @@ (p2 :> 1)   \* the draft needs the second
MCFounded == (a :> 1) @@ (b :> 2)

\* In the order of their names; what users accept, and which version, is preserved.
MCTables == <<"assets", "legal_acceptances", "legal_document_versions", "maintenance_work_orders",
              "opportunities", "pipelines", "stock_balances">>
MCParentTable == [assets |-> none, legal_acceptances |-> "legal_document_versions",
                  legal_document_versions |-> none, maintenance_work_orders |-> "assets",
                  opportunities |-> "pipelines", pipelines |-> none, stock_balances |-> none]
MCSeedRows == {[table |-> "assets", key |-> <<"seed", 1>>, parent |-> none],
               [table |-> "pipelines", key |-> <<"seed", 2>>, parent |-> none],
               [table |-> "legal_document_versions", key |-> <<"seed", 3>>, parent |-> none]}

MCAreas == {"waste", "governance", "ocr", "assistant", "crm", "lifecycles", "assets", "records",
            "company", "demo", "requests"}
=============================================================================
