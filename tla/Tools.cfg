\* Two handlers, redeliveries and calls that may not write, with failures,
\* crashes and other writers at every step; and three callers of one tool, with
\* stragglers of two earlier generations of its breaker at once.
SPECIFICATION ToolsSpec
CONSTANTS
  Workers = {w1, w2}
  api = api
  inc = inc
  alice = alice
  bob = bob
  k1 = k1
  k2 = k2
  s1 = s1
  s2 = s2
  why = why
  leaky = leaky
  masked = masked
  blank = blank
  missing = missing
  Blank = blank
  Missing = missing
  Services <- MCServices
  Incidents <- MCIncidents
  On <- MCOn
  Redact <- MCRedact
  Short = {why, leaky, masked}
  Requests <- MCRequests
  Seed <- MCSeed
  Restored <- MCRestored
  MaxAudit = 2
  Callers = {c1, c2, c3}
  Tools = {tool}
  FailureThreshold = 2
  ResetTimeout = 2
  MaxRetries = 1
  MaxGeneration = 5
INVARIANTS
  AnswersAreRecorded
  ExactlyOneProbe
  OpenRetiresPermits
PROPERTIES
  WritesAccountable
  ExactlyOnce
  LockReleased
  CooldownUndisturbed
  OutcomesCount
  ProbeResolves
