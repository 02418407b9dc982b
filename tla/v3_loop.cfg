SPECIFICATION V3Spec
CONSTANTS
  Relations = {"hasCapacity", "companyTradesAtStockExchange", "personHasCityOfDeath",
               "awardWonBy", "countryLandBordersCountry"}
  Candidates = {c1, c2}
  PlainNames = {c2}
  MaxRounds = 3
  MaxCalls = 1
  ExtraCalls = 1
  None = None
INVARIANT NoBarrenRetry
INVARIANT CollectionKeepsItsRow
PROPERTY RejectionIsFinal
