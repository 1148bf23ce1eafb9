SPECIFICATION Spec
CONSTANTS
  ann = ann
  bob = bob
  User = ann
  Users <- MCUsers
  ContractIds = {1}
  PartiesOf <- MCPartiesOf
  TitleOf <- MCTitleOf
  PartyLists <- MCPartyLists
  Texts = {"text1", "text2"}
  Threads = {1, 2}
  MaxRequests = 3
  MaxCrashes = 0
PROPERTY AcceptStarts
CHECK_DEADLOCK FALSE
