\* V3 control in calibrated production: Module 21 chooses, Module 20 pays.
SPECIFICATION PlannedSpec
CONSTANTS
  Relations <- MCRelations
  Candidates = {c1}
  PlainNames = {c1}
  MaxRounds = 3
  MaxCalls = 2
  ExtraCalls = 0
  None = None
  Calibration <- MCCalibration
  Bins <- MCBins
  Fallback = Fallback
  Cuts <- MCCuts
  Weights <- MCWeights
  Whole = 2
  NA = NA
  MaxPrior = 2
  MaxReservations = 3
  Depth = 2
  Gaps <- MCGaps
INVARIANT PlansAreFunded
PROPERTY ImplementsLoop
