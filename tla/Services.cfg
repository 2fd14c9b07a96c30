\* Snapshots, notes and runbook search, each with two workers, and the evaluation
\* harness, its turns, its verdicts and its retrieval evaluation; each alone.
SPECIFICATION Spec
CONSTANTS
  a = a
  b = b
  x = x
  y = y
  p = p
  q = q
  Databases = {a, b}
  Homes = {x, y}
  Stamps = {1, 2}
  Backups = {p, q}
  HomeOf <- MCHomeOf
  Initial <- MCInitial
  Keeps = {0, 2}
  DefaultKeep = 1
  MaxVersion = 1
  Edited = {1}
  Workers = {p, q}
  Calls <- MCCalls
  Corpora <- MCCorpora
  ChunksOf <- MCChunksOf
  Distances <- MCDistances
  Occurs <- MCOccurs
  InSlug <- MCInSlug
  Query <- MCQuery
  Limits = {0}
  Dimensions <- MCDimensions
  Foreign = {}
  Evalset <- MCEvalset
  Configs <- MCConfigs
  Source = "source"
  Runs <- MCRuns
  JudgedScores <- MCJudgedScores
  Labels <- MCLabels
  MinLabels = 3
  Questions <- MCQuestions
  AnySlugs <- MCSlugs
  Limit = 2
  Checkout = "source"
INVARIANTS
  EvaluationIsHonest
  TurnsAreTold
  VerdictsAreEarned
  BothModesMeasured
PROPERTIES
  SnapshotsHold
  MemoryIsWhole
  RunbooksAreIndexed
  HarnessEnds
