\* One query of each relation through both loops.
SPECIFICATION FairSpec
CONSTANTS
  Keys = {1, 2, 3, 4}
  Malformed <- MCMalformed
  NotPositive = {4}
  Enumerator = "qwen"
  SecondModel = "gemma"
  Divergence <- MCDivergence
  Frames <- MCFrames
  ClassesChecked = {0}
  ValueOf <- MCValueOf
  Relations <- AllRelations
  SecondFamilies <- MCSecondFamilies
  ViewAnswers <- MCViewAnswers
  ReverseAnswers <- MCReverseAnswers
  RecallAnswers <- MCRecallAnswers
  GateAnswers <- MCGateAnswers
  BlindAnswers <- MCBlindAnswers
  TokenCosts <- MCTokenCosts
  MaxCalls = 12
  MaxTokens = 6000
  MaxSteps = 12
INVARIANTS
  NothingIsAskedTwice
  CallsStayPlanned
  ReopensForAReason
PROPERTIES
  RestLeavesNothingPending
  SearchEnds
