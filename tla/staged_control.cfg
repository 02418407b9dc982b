SPECIFICATION StagedSpec
CONSTANTS
  Actions <- MCActions
  Role <- MCRole
  Cost <- MCCost
  Views <- MCViews
  Repeatable <- MCRepeatable
  Verifies <- MCVerifies
  MaxCalls = 5
  MaxTokens = 4
  MaxSteps = 4
  None = None
INVARIANT InterleavedCeiling
INVARIANT EachActionRunsOnce
INVARIANT SnapshotIsComplete
INVARIANT OverrunIsOneAction
PROPERTY PendedWorkIsKept
PROPERTY EveryOpenGraphIsDecided
