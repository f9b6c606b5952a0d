CONSTANTS
  Types = {"typeorm", "drizzle"}
  Names = {"default", "billing", "audit"}
  d1 = d1
  d2 = d2
  d3 = d3
  d4 = d4
  Databases = {d1, d2, d3, d4}
  None = None
  Apps = {"sync", "async", "named", "twice", "renamed", "buses"}
  Imports <- Imported
  Handlers <- Classes
  Cqrs <- Options
  Services <- Methods
  MaxApps = 2
  MaxDepth = 3
SPECIFICATION Spec
INVARIANT TypeOK
INVARIANT RegistryIsOwn
INVARIANT DefaultIsDeclared
INVARIANT HandledByOwnManager
INVARIANT StatementsFollowTransaction
INVARIANT IndependentTransactions
PROPERTY StartSettles
