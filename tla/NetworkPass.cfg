SPECIFICATION FairSpec
CONSTANTS
  Specs <- MCSpecs
  Histories <- MCHistories
  MAX_CERAMICS = 2
  SourceSecrets = {"small"}
  Watched = {"prometheus", "cas", "ceramic-0"}
INVARIANTS TypeOK NoDanglingReference SecretsKept
PROPERTIES AgreedModeReached EverythingStarts ExpiredRemoved NothingLeftBehind
CHECK_DEADLOCK FALSE
