CONSTANTS
  Peers = {1, 2, 3}
  Methods = {"ring"}
  Fanouts = {1, 3}
SPECIFICATION RunnerFairSpec
PROPERTIES Terminates
CHECK_DEADLOCK FALSE
