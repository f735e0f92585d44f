----------------------------- MODULE Catalogue -----------------------------
(***************************************************************************)
(* What a company sells, to whom, and at which prices: items with their    *)
(* unique names (code and barcode), price lists and their entries          *)
(* (apps/api/src/catalog.service.ts), and parties with their roles and     *)
(* customer profile (apps/api/src/parties.service.ts).  Each action is one *)
(* committed request on the tables of migration 0002; what an item or a    *)
(* party carries beyond what prices, names and sales read is left out:     *)
(* prices are of one currency, and a list is always assigned or never.     *)
(***************************************************************************)
EXTENDS Stock, Pricing

CONSTANTS
  Names,       \* the codes and barcodes of items; a code and a barcode that read alike are two
  Offers,      \* what an item may be created or edited with
  PriceLists,  \* the codes a price list may have
  Tiers,       \* the entries a list may be created with: [item, minimum, price, limit, from, until]
  Parties,     \* the documents (RUC, DNI) a party may have
  Assigned,    \* the pairs <<party, list>> of customer_price_lists, which only a seed writes
  NoItem,
  MaxVersion,  \* bound: the edits of an item or a party
  LastDay      \* bound: the last day that comes

Offer == [names : SUBSET Names, price : Int, category : TaxCategories,
          kind : {"PRODUCT", "SERVICE"}, stock : BOOLEAN, unit : BOOLEAN]

Tier == [item : Items, minimum : Int, price : Int, limit : Int, from : Int, until : Int]

\* The rows of the tables, made by one of the origins O.
Item(O) == [status : {"active", "inactive"}, version : Int, names : SUBSET Names, price : Int,
            category : TaxCategories, stock : BOOLEAN, origin : O]
Entry(O) == [list : PriceLists, item : Items, minimum : Int, price : Int, limit : Int,
             from : Int, until : Int, origin : O]
Party(O) == [status : {"NONE", "active", "inactive"}, customer : BOOLEAN,
             profile : {"NONE", "PLAIN", "CREDIT"}, version : Int, origin : O]
ListStatus == {"NONE", "LISTED", "DEFAULT"}

ASSUME CatalogueAssumption == Offers \subseteq Offer /\ Tiers \subseteq Tier

VARIABLES
  items,    \* the row of each item, NoItem before it has one
  lists,    \* lists[l]: "NONE", "LISTED" or "DEFAULT", the one list prices fall back on
  entries,  \* the entries of all lists
  parties,  \* parties[p]: status, role CUSTOMER, customer profile, version
  today

catalogueVars == <<items, lists, entries, parties, today>>

\* Who made a row: a user by a request of its own, or a row of an import.
User == <<"user">>

NoParty == [status |-> "NONE", customer |-> FALSE, profile |-> "NONE", version |-> 0, origin |-> User]

\* The checks of assertItemInvariant on a new or edited item.
ItemOK(o) ==
  /\ o.kind = "SERVICE" => ~o.stock
  /\ o.stock => o.unit
  /\ o.price >= 0

ItemRow(o, origin) ==
  [status |-> "active", version |-> 1, names |-> o.names, price |-> o.price,
   category |-> o.category, stock |-> o.stock, origin |-> origin]

Existing == {i \in Items : items[i] # NoItem}

\* The names other items have: a code is one item's in a company, and so is a barcode.
NamesOfOthers(i) == UNION {items[j].names : j \in Existing \ {i}}

CreateItem(i, o) ==
  /\ ItemOK(o)
  /\ items[i] = NoItem
  /\ o.names \cap NamesOfOthers(i) = {}
  /\ items' = [items EXCEPT ![i] = ItemRow(o, User)]
  /\ UNCHANGED <<stockVars, lists, entries, parties, today>>

\* An edit carries the version its user read.  It replaces the barcode too.
UpdateItem(i, o, version) ==
  /\ ItemOK(o)
  /\ items[i] # NoItem
  /\ items[i].version = version
  /\ version < MaxVersion
  /\ o.names \cap NamesOfOthers(i) = {}
  /\ items' = [items EXCEPT ![i].names = o.names, ![i].price = o.price,
                 ![i].category = o.category, ![i].stock = o.stock, ![i].version = @ + 1]
  /\ UNCHANGED <<stockVars, lists, entries, parties, today>>

DeactivateItem(i) ==
  /\ items[i] # NoItem
  /\ items[i].status = "active"
  /\ items[i].version < MaxVersion
  /\ items' = [items EXCEPT ![i].status = "inactive", ![i].version = @ + 1]
  /\ UNCHANGED <<stockVars, lists, entries, parties, today>>

\* One active default list in a company (and currency: the model has one).
MayBeDefault == \A l \in PriceLists : lists[l] # "DEFAULT"

TierOf(l, t, origin) ==
  [list |-> l, item |-> t.item, minimum |-> t.minimum, price |-> t.price,
   limit |-> t.limit, from |-> t.from, until |-> t.until, origin |-> origin]

\* The entries of a request: they are valid as long as their list, and no two are for one
\* item from one quantity on.
OfOneList(T) ==
  \A t, u \in T :
    /\ t.from = u.from /\ t.until = u.until
    /\ t.item = u.item /\ t.minimum = u.minimum => t = u

\* A list is created with its entries; a company's list has no other way to get
\* one than an import.
CreatePriceList(l, default, T) ==
  /\ lists[l] = "NONE"
  /\ default => MayBeDefault
  /\ OfOneList(T)
  /\ \A t \in T : items[t.item] # NoItem
  /\ lists' = [lists EXCEPT ![l] = IF default THEN "DEFAULT" ELSE "LISTED"]
  /\ entries' = entries \cup {TierOf(l, t, User) : t \in T}
  /\ UNCHANGED <<stockVars, items, parties, today>>

\* A party created as a customer gets its profile with it.
CreateParty(p, customer) ==
  /\ parties[p].status = "NONE"
  /\ parties' = [parties EXCEPT ![p] =
       [status |-> "active", customer |-> customer, version |-> 1, origin |-> User,
        profile |-> IF customer THEN "PLAIN" ELSE "NONE"]]
  /\ UNCHANGED <<stockVars, items, lists, entries, today>>

UpdateParty(p, version) ==
  /\ parties[p].status # "NONE"
  /\ parties[p].version = version
  /\ version < MaxVersion
  /\ parties' = [parties EXCEPT ![p].version = @ + 1]
  /\ UNCHANGED <<stockVars, items, lists, entries, today>>

\* The role CUSTOMER is given or taken; giving it creates no profile.
SetRole(p, active) ==
  /\ parties[p].status # "NONE"
  /\ parties' = [parties EXCEPT ![p].customer = active]
  /\ UNCHANGED <<stockVars, items, lists, entries, today>>

\* Credit is a line of the profile: a customer without one is not found.
SetCredit(p, allow) ==
  /\ parties[p].profile # "NONE"
  /\ parties' = [parties EXCEPT ![p].profile = IF allow THEN "CREDIT" ELSE "PLAIN"]
  /\ UNCHANGED <<stockVars, items, lists, entries, today>>

DeactivateParty(p) ==
  /\ parties[p].status = "active"
  /\ parties[p].version < MaxVersion
  /\ parties' = [parties EXCEPT ![p].status = "inactive", ![p].version = @ + 1]
  /\ UNCHANGED <<stockVars, items, lists, entries, today>>

NextDay ==
  /\ today < LastDay
  /\ today' = today + 1
  /\ UNCHANGED <<stockVars, items, lists, entries, parties>>

ItemsNext ==
  \/ \E i \in Items : DeactivateItem(i)
  \/ \E i \in Items, o \in Offers : CreateItem(i, o)
  \/ \E i \in Items, o \in Offers, version \in 1 .. MaxVersion : UpdateItem(i, o, version)

PricesNext ==
  \E l \in PriceLists, default \in BOOLEAN, T \in SUBSET Tiers \ {{}} : CreatePriceList(l, default, T)

PartiesNext ==
  \/ \E p \in Parties, flag \in BOOLEAN :
       CreateParty(p, flag) \/ SetRole(p, flag) \/ SetCredit(p, flag)
  \/ \E p \in Parties, version \in 1 .. MaxVersion : UpdateParty(p, version)
  \/ \E p \in Parties : DeactivateParty(p)
=============================================================================
