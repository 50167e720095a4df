SPECIFICATION MessagesSpec
CONSTANTS
  Names <- MCNames
  PwdHash <- MCHash
  Hwid <- MCHwid
  MaxAccounts = 2
CHECK_DEADLOCK FALSE
INVARIANTS PlainNamesCanSignIn FieldsArrive
