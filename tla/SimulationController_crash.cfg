CONSTANTS
  Draws = {d1, d2}
  NoNonce = NoNonce
  MaxPeers = 2
  MaxReruns = 0
  MaxAborts = 2
  MaxPeerChanges = 0
  MaxDisruptions = 1
  MaxFaults = 3
SPECIFICATION FairSpec
PROPERTIES SavedRunCompletes UncutPassesLaunch
