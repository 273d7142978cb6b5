CONSTANTS
  NoMap = NoMap
  Peers = {1, 2, 3}
  Methods = {"sentinel"}
  Fanouts = {1}
  MaxFaults = 1
  MaxEdits = 1
SPECIFICATION FairSpec
INVARIANTS MapServesReaders
PROPERTIES Settles
