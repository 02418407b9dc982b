\* Every relation from its first view to its row.
SPECIFICATION Spec
CONSTANTS
  Keys = {1, 2, 3, 4}
  Malformed <- MCMalformed
  NotPositive = {4}
  Enumerator = "qwen"
  SecondModel = "gemma"
  Divergence <- MCDivergence
  Frames <- MCFrames
  ClassesChecked = {0}
  ValueOf <- MCValueOf
  V31 <- MCV31
  Payload <- MCPayload
  NotExchanges = {2}
  Relations <- AllRelations
  SpecialistRuns <- MCSpecialistRuns
  ViewAnswers <- MCViewAnswers
  RecallAnswers <- MCRecallAnswers
  GateAnswers <- MCGateAnswers
  BlindAnswers <- MCBlindAnswers
  SpecialistAnswers <- MCSpecialistAnswers
  CheckAnswers <- MCCheckAnswers
  MaxVerifications = 6
  MaxRounds <- MCMaxRounds
INVARIANTS
  BridgeOnlyAnnotates
  FailureIsOnlyACost
  XTakesASecondFamily
  RowStandsOnTheEvidence
