CONSTANTS
  Draws = {d1, d2}
  NoNonce = NoNonce
  MaxPeers = 1
  MaxReruns = 0
  MaxAborts = 1
  MaxPeerChanges = 0
  MaxDisruptions = 0
  MaxFaults = 1
SPECIFICATION FairSpec
PROPERTIES Launches
