SPECIFICATION FairSpec
CONSTANTS
  N = 2
  InitialLists <- MixedLists
  Numbers = {0, 1}
INVARIANTS
  TypeOK
  UnanimousTrent
  RestartNeverSigns
  NumbersCountOnce
PROPERTY EverybodyGoesOn
CHECK_DEADLOCK FALSE
