SPECIFICATION MCSpec
CONSTANTS
  N = 3
  MaxClaims = 4
  MaxRequests = 3
INVARIANTS
  TrentTypeOK
  Exclusive
  OnlyFirstRoundOpened
  AccusedHaveAsked
PROPERTIES
  NoAccusationOnceOpened
