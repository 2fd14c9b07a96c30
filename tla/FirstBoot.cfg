SPECIFICATION Spec
CONSTANTS
  p = p
  q = q
  Processes = {p}
  Requests = {r}
  Starts <- MCStarts
  Kinds <- MCKinds
  Found <- MCFound
INVARIANT InterruptedBootStarts
CHECK_DEADLOCK FALSE
