CONSTANTS
  Peers = {1, 2, 3, 4}
  Methods = {"ring", "random", "sentinel"}
  Fanouts = {0, 1, 2, 3, 5}
SPECIFICATION RunnerFairSpec
INVARIANTS RunnerTypeOK LinksDocumented ExitComplete
PROPERTIES EndsUnlessRing
CHECK_DEADLOCK FALSE
