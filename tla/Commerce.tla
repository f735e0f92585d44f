----------------------------- MODULE Commerce -----------------------------
(***************************************************************************)
(* The catalogue with all that reads and writes it at once: the requests   *)
(* of users, imports, the stock ledger and the papers priced from it.      *)
(***************************************************************************)
EXTENDS Quotations, Imports

CONSTANT Mixes  \* bound: where a behaviour starts, and which requests it has

ASSUME CommerceAssumption ==
  \A m \in Mixes :
    /\ m.requests \subseteq {"ITEMS", "PRICES", "PARTIES", "DAYS", "STOCK", "QUOTATIONS", "IMPORTS"}
    /\ m.items \in [Items -> Item({User}) \cup {NoItem}]
    /\ m.lists \in [PriceLists -> ListStatus]
    /\ m.entries \subseteq Entry({User})
    /\ m.parties \in [Parties -> Party({User})]

VARIABLE mix

commerceVars == <<stockVars, catalogueVars, quotationVars, jobs, mix>>

CommerceInit ==
  /\ mix \in Mixes
  /\ StockInit
  /\ items = mix.items
  /\ lists = mix.lists
  /\ entries = mix.entries
  /\ parties = mix.parties
  /\ today = 1
  /\ QuotationsInit
  /\ ImportsInit

\* The requests that lock nothing an import waits for.
OtherRequests ==
  /\ \/ "ITEMS" \in mix.requests /\ ItemsNext
     \/ "PRICES" \in mix.requests /\ PricesNext
     \/ "PARTIES" \in mix.requests /\ PartiesNext
     \/ "DAYS" \in mix.requests /\ NextDay
     \/ "STOCK" \in mix.requests /\ StockNext /\ UNCHANGED catalogueVars
  /\ WaitsForImports
  /\ UNCHANGED <<quotationVars, jobs, mix>>

CommerceNext ==
  \/ OtherRequests
  \/ "QUOTATIONS" \in mix.requests /\ QuotationsNext /\ UNCHANGED <<jobs, mix>>
  \/ "IMPORTS" \in mix.requests /\ ImportsNext /\ UNCHANGED <<quotationVars, mix>>

CommerceSpec == CommerceInit /\ [][CommerceNext]_commerceVars
=============================================================================
