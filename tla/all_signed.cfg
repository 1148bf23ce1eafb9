SPECIFICATION Spec
CONSTANTS
  N = 2
  MaxClaims = 3
  Refusers = {}
  TimerParties = {}
INVARIANT FinalizedMeansAllSigned
