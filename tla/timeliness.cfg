SPECIFICATION FairSpec
CONSTANTS
  N = 2
  MaxClaims = 3
  Refusers = {1, 2}
  TimerParties = {}
PROPERTY Timeliness
