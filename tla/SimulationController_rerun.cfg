CONSTANTS
  Draws = {d1, d2}
  NoNonce = NoNonce
  MaxPeers = 2
  MaxReruns = 1
  MaxAborts = 1
  MaxPeerChanges = 1
  MaxDisruptions = 0
  MaxFaults = 1
SPECIFICATION Spec
INVARIANTS TypeOK OneNoncePerRun WorkersAfterManager
PROPERTIES ImplementsRun
SYMMETRY Symmetry
