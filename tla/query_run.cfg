SPECIFICATION RunSpec
CONSTANTS
  Actions <- MCActions
  Class <- MCClass
  Purpose <- MCPurpose
  Calls <- MCCalls
  Tokens <- MCTokens
  Bounded <- MCBounded
  HardCalls = 3
  HardTokens = 2
  ClassCap <- MCClassCap
  VerificationReserve = 1
  SpecialReserve <- MCSpecialReserve
  MaxPrior = 0
  MaxReservations = 3
  Repeatable <- MCRepeatable
  BudgetCalls = 2
  BudgetTokens = 2
  MaxQueries = 2
  MaxRounds = 3
  MaxAcquired = 1
INVARIANT HoldsAreClosed
INVARIANT LedgerMatchesMeters
INVARIANT SpendStaysUnderCap
PROPERTY EveryRowIsAccountedFor
PROPERTY RunCompletes
INVARIANT V3SpendStaysInBudget
