SPECIFICATION MCSpec
CONSTANTS
  N = 2
  MaxClaims = 3
  MaxRequests = 2
PROPERTY OverturnOpens
