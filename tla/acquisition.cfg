SPECIFICATION AcquisitionSpec
CONSTANTS
  Relations <- AllRelations
  TextsOf <- MCTextsOf
  RecallOps <- MCRecallOps
  Factor <- MCFactor
  Whole = 10
  Tolerance = 25
  MinGroups = 2
  CrossFamilyOn = FALSE
  Considered <- MCConsidered
  EnableFacets = {"border_direct"}
  MinListingGroups = 1
  StockCrossFamily = TRUE
  Explosion = 1
INVARIANTS
  EveryCallLeavesARecord
  ClustersHoldTogether
  GatesAreEarned
  OpenEndsAreReported
  NewnessIsTrue
CHECK_DEADLOCK FALSE
