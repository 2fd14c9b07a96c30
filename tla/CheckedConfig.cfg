\* An accepted configuration that the A2A server refuses to be built of.
SPECIFICATION AgentSpec
CONSTANTS
  p = p
  q = q
  r = r
  Processes = {p, q}
  Requests = {r}
  Starts <- MCStarts
  Kinds <- MCKinds
  Found <- MCFound
  Environments <- MCEnvironments
  Tools <- MCTools
  Trusted <- MCTrusted
  Guarded <- MCGuarded
  Policies <- MCPolicies
  MaxMessages = 6
INVARIANTS
  DependenciesCheckedAtLoad
CHECK_DEADLOCK FALSE
