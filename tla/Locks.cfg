\* Four users of two sessions, every one of whom may need a lock object of its own;
\* and two turns of one session.
SPECIFICATION SessionsSpec
CONSTANTS
  u1 = u1
  u2 = u2
  s1 = s1
  l1 = l1
  l2 = l2
  Users = {u1, u2, u3, u4}
  Keys = {s1, s2}
  Locks = {l1, l2, l3, l4}
  NoLock = none
  Costs = {0, 1, 2}
  MaxTokens = 2
  CallLimit = 2
  StoreFails = TRUE
INVARIANTS
  RegistryIsExact
  TokensAccounted
  TurnsAreServed
PROPERTIES
  OneInside
  EveryTurnEnds
