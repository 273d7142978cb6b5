CONSTANTS
  MaxCeramics = 3
  Specs <- AllSpecs
  Edited <- EditedSpecs
  LossyQuotients <- DoubleLosses
  MaxEdits = 2
  MaxAborts = 2
SPECIFICATION FairSpec
INVARIANTS TypeOK TotalPlaced ProportionalShares HeavierNeverFewer CompletedPassDeploys
PROPERTIES Converges
