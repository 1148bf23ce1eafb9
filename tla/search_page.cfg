SPECIFICATION Spec
CONSTANTS
  MaxSearches = 2
  Peers = {p1}
  Local = here
  TooMany = 2
INVARIANTS
  PageTypeOK
  NoStaleItems
PROPERTIES
  SearchEndsTold
  LocalItemsShown
CHECK_DEADLOCK FALSE
