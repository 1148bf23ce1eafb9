SPECIFICATION Spec
CONSTANTS
  Passwords = {"first", "second"}
  FirstPassword = "first"
  MaxCalls = 3
  MaxFaults = 1
INVARIANTS TypeOK LogoutEndsSession FreshSessionIsAccepted
PROPERTY PasswordChanges
CHECK_DEADLOCK FALSE
