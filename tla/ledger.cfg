SPECIFICATION LedgerSpec
CONSTANTS
  Actions <- MCActions
  Class <- MCClass
  Purpose <- MCPurpose
  Calls <- MCCalls
  Tokens <- MCTokens
  Bounded <- MCBounded
  HardCalls = 5
  HardTokens = 2
  ClassCap <- MCClassCap
  VerificationReserve = 2
  SpecialReserve <- MCNoSpecial
  MaxPrior = 3
  MaxReservations = 3
INVARIANT TypeOK
INVARIANT LedgerBalances
INVARIANT EnvelopeHolds
INVARIANT SoleFloorHolds
PROPERTY ImplementsEnvelope
CHECK_DEADLOCK FALSE
