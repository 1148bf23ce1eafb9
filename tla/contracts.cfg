SPECIFICATION MCSpec
CONSTANTS
  ann = ann
  bob = bob
  Users <- MCUsers
  ContractIds = {1, 2}
  PartiesOf <- MCPartiesOf
  TitleOf <- MCTitleOf
  PartyLists <- MCPartyLists
  Texts = {"text1", "text2"}
  Threads = {1, 2}
  MaxRequests = 4
  MaxCrashes = 1
INVARIANTS
  ServerTypeOK
  StartedOnlyIfAsked
  NeutralAgree
  TextIsFixed
PROPERTIES
  DecidedForGood
  ListingRestarts
CHECK_DEADLOCK FALSE
