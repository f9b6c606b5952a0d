CONSTANTS
  Types = {"typeorm", "drizzle"}
  Names = {"default", "billing"}
  d1 = d1
  d2 = d2
  d3 = d3
  d4 = d4
  Databases = {d1, d2}
  None = None
  Apps = {"mixed"}
  Imports <- AsyncFirst
  Handlers <- Classes
  Cqrs <- Options
  Services <- Methods
  MaxApps = 1
  MaxDepth = 2
SPECIFICATION Spec
INVARIANT AdaptersAreRegistered
