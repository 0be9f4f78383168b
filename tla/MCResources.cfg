SPECIFICATION FairSpec
CONSTANTS
  Names <- MCNames
  WithSpec <- MCWithSpec
  Options <- MCOptions
  MaxEvents = 2
INVARIANTS TypeOK
PROPERTIES NoBlindWrite OwnershipKept PredictionSound Converges
