-------------------------- MODULE MCModuleRegistry --------------------------
(***************************************************************************)
(* ModuleRegistry on the modules of the registry between the organization  *)
(* and the payments, with the dependencies packages/domain/src/index.ts    *)
(* gives them on each other, and one module that is not implemented.       *)
(***************************************************************************)
EXTENDS ModuleRegistry, TLC

MCDependencies ==
  ("organization"    :> {})
  @@ ("parties"      :> {"organization"})
  @@ ("sales"        :> {"parties"})
  @@ ("purchases"    :> {"parties"})
  @@ ("expenses"     :> {"parties"})
  @@ ("receivables"  :> {"sales"})
  @@ ("payables"     :> {})
  @@ ("payments"     :> {"receivables", "payables"})
  @@ ("transport"    :> {"organization"})

MCModules == DOMAIN MCDependencies

MCAlternatives ==
  [m \in MCModules |-> IF m = "payables" THEN {"purchases", "expenses"} ELSE {}]

MCImplemented == MCModules \ {"transport"}

MCSymmetry == Permutations(Managers)
=============================================================================
