CONSTANTS
  MaxPopups = 3
  MaxClosed = 2
SPECIFICATION Spec
INVARIANTS TypeOK UsersForAdmins NeverUnseen
PROPERTIES Navigates
CHECK_DEADLOCK FALSE
