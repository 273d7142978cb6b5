CONSTANTS
  Scenarios = {"newStreams", "anchoring", "cas", "modelReuse", "reconSync"}
  Workers = {1, 2}
  Users <- TwoAndOne
  NoKey = NoKey
  Target = 1
  OldDocs = 1
  MaxDocs = 1
  MaxFailures = 1
SPECIFICATION FairSpec
INVARIANTS SharedModels SuccessEarned AnchoringSuccessEarned
PROPERTIES RemovedWhenSynced Concludes
CHECK_DEADLOCK FALSE
