---------------------------- MODULE MCCommerce ----------------------------
(***************************************************************************)
(* Commerce on small instances: two items, two lists of which one may be   *)
(* the default, one party, two imports.  A unit is 20 parts and a cent 4.  *)
(***************************************************************************)
EXTENDS Commerce

CONSTANTS i1, i2, red, blue, bar, general, special, ana, store

Goods(names, price, category) ==
  [names |-> names, price |-> price, category |-> category, kind |-> "PRODUCT",
   stock |-> TRUE, unit |-> TRUE]

\* A red item, free of charge later, a blue one with the red one's barcode.
MCOffers ==
  {Goods({red, bar}, 33, "TAXABLE"), Goods({red}, 27, "FREE"), Goods({blue, bar}, 31, "EXEMPT")}

TierFor(i, minimum, price, until) ==
  [item |-> i, minimum |-> minimum, price |-> price, limit |-> 7, from |-> 1, until |-> until]

MCTiers == {TierFor(i1, 20, 29, 2), TierFor(i1, 40, 25, 2)}

MCFiles ==
  {<<[kind |-> "PARTY", party |-> ana, customer |-> TRUE]>>,
   <<[kind |-> "ITEM", code |-> red, offer |-> Goods({red, bar}, 33, "TAXABLE")],
     [kind |-> "ITEM", code |-> blue, offer |-> Goods({blue}, 31, "EXEMPT")]>>,
   <<[kind |-> "STOCK", warehouse |-> store, code |-> red, qty |-> 2],
     [kind |-> "STOCK", warehouse |-> store, code |-> blue, qty |-> 1]>>,
   <<[kind |-> "PRICE", list |-> general, code |-> red, minimum |-> 20, price |-> 23, limit |-> 3,
      from |-> 1, until |-> 1, default |-> TRUE],
     [kind |-> "PRICE", list |-> general, code |-> red, minimum |-> 40, price |-> 19, limit |-> 3,
      from |-> 1, until |-> 2, default |-> TRUE]>>}

MCAsked ==
  {<<[item |-> i1, quantity |-> 27, discount |-> 3, manual |-> {}]>>,
   <<[item |-> i1, quantity |-> 41, discount |-> 7, manual |-> {}],
     [item |-> i2, quantity |-> 7, discount |-> 0, manual |-> {37}]>>}

NoItems == [i \in Items |-> NoItem]
TwoItems == [i \in Items |-> IF i = i1 THEN ItemRow(Goods({red, bar}, 33, "TAXABLE"), User)
                             ELSE ItemRow(Goods({blue}, 31, "EXEMPT"), User)]
Nobody == [p \in Parties |-> NoParty]
Customer == [p \in Parties |-> [NoParty EXCEPT !.status = "active", !.customer = TRUE,
                                  !.profile = "PLAIN", !.version = 1]]
NoLists == [l \in PriceLists |-> "NONE"]
SpecialList == [NoLists EXCEPT ![special] = "LISTED"]
SpecialTier == {TierOf(special, TierFor(i2, 1, 43, 1), User)}

Mix(requests, is, ls, es, ps) ==
  [requests |-> requests, items |-> is, lists |-> ls, entries |-> es, parties |-> ps]

MCMixes ==
  {Mix({"ITEMS", "IMPORTS"}, NoItems, NoLists, {}, Nobody),
   Mix({"STOCK", "IMPORTS"}, TwoItems, NoLists, {}, Nobody),
   Mix({"PRICES", "PARTIES", "IMPORTS"}, TwoItems, NoLists, {}, Nobody),
   Mix({"QUOTATIONS", "IMPORTS", "DAYS"}, TwoItems, SpecialList, SpecialTier, Customer),
   Mix({"QUOTATIONS", "ITEMS", "PRICES"}, TwoItems, SpecialList, SpecialTier, Customer)}

MCManualLines == {<<[item |-> i1, qty |-> 1]>>}
MCAssigned == {<<ana, special>>}
=============================================================================
