CONSTANTS
  Generators = {a, b}
  Draws = {d1, d2}
  NoNonce = NoNonce
  MaxAborts = 2
SPECIFICATION FairSpec
INVARIANTS TypeOK StatusNamesJob
PROPERTIES SavedLoadEnds TurnComes
CHECK_DEADLOCK FALSE
