SPECIFICATION StagedSpec
CONSTANTS
  Actions <- MCActions
  Role <- MCRole
  Cost <- MCCost
  Views <- MCViews
  Repeatable <- MCRepeatable
  Verifies <- MCVerifies
  MaxCalls = 4
  MaxTokens = 4
  MaxSteps = 4
  None = None
PROPERTY EveryGraphIsDecided
