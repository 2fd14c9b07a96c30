\* Three clients, two callers, one task, stores of every origin; and the pages of a
\* list of four.
SPECIFICATION TasksSpec
CONSTANTS
  c1 = c1
  c2 = c2
  c3 = c3
  d1 = d1
  d2 = d2
  w1 = w1
  w2 = w2
  alice = alice
  bob = bob
  nobody = nobody
  plain = plain
  other = other
  Clients = {c1, c2, c3}
  Ids = {t1}
  Owners = {alice, bob}
  Docs = {d1, d2}
  OwnerOf <- MCOwnerOf
  NoTask = none
  Schemas = {"none", "other"}
  MaxVersion = 3
  TaskIds <- MCTasks
  Callers <- MCCallers
  Nobody = nobody
  CreatorOf <- MCCreatorOf
  Kinds <- MCKinds
  Filters <- MCFilters
  Walkers <- MCWalkers
  CallerOf <- MCCallerOf
  RequestSizes <- MCSizes
  DefaultPageSize = 2
  MaxPageSize = 2
  NoRow = none
  MaxTime = 1
SYMMETRY MCSymmetry
INVARIANTS
  AnswersHold
  Reopens
  WalksAreExact
PROPERTIES
  NoLostUpdate
  NumberedSteps
