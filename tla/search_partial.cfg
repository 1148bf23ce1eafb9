SPECIFICATION Spec
CONSTANTS
  MaxSearches = 1
  Peers = {p1}
  Local = here
  TooMany = 3
INVARIANTS
  PartialListsAddUp
CHECK_DEADLOCK FALSE
