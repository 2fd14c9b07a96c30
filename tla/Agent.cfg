\* The agent's processes, settings and policy, each alone.
SPECIFICATION AgentSpec
CONSTANTS
  p = p
  q = q
  r = r
  Processes = {p, q}
  Requests = {r}
  Starts <- MCStarts
  Kinds <- MCKinds
  Found <- MCFound
  Environments <- MCEnvironments
  Tools <- MCTools
  Trusted <- MCTrusted
  Guarded <- MCGuarded
  Policies <- MCPolicies
  MaxMessages = 6
INVARIANTS
  RefusedUntouched
  ReleasedInOrder
  SettingsAreHonest
  GuardrailsHold
  MasksAreExact
PROPERTIES
  ReadyIsTrue
  SignalledEnds
\* Processes and settings end.
CHECK_DEADLOCK FALSE
