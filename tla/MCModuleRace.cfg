SPECIFICATION RegistrySpec
CONSTANTS
  Modules <- MCModules
  Dependencies <- MCDependencies
  Alternatives <- MCAlternatives
  Implemented <- MCImplemented
  DefaultEnabled <- MCImplemented
  Managers = {u1, u2}
  NoChange = NoChange
INVARIANTS
  DependenciesEnabled
