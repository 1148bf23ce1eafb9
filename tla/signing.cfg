SPECIFICATION FairSpec
CONSTANTS
  N = 2
  MaxClaims = 3
  Refusers = {1, 2}
  TimerParties = {1, 2}
INVARIANTS
  TypeOK
  NoClaimLeftWaiting
  ResolvedIsAccepted
  FinalizedHoldsClaim
  AllFoundAllSigned
  Agreement
  LockStep
PROPERTIES
  FinalizedForever
  EverybodySigns
  RefusalCancels
  FirstClaimSigns
  EarlyRequestDecides
  FairExchangeSpec
