\* Two calls at a time, up to 2 password changes and 3 codes, one crash.
SPECIFICATION AccountsSpec
CONSTANTS
  Calls = {k1, k2}
  Phones = {p1}
  NoPhone = NoPhone
  NoUser = NoUser
  SendLimit = 2
  MaxChanges = 2
  MaxCodes = 3
  MaxAsked = 3
  MaxStops = 1
SYMMETRY CallSymmetry
INVARIANTS
  AccountsTypeOK
  PasswordAsConfirmed
  RowAsMeant
  CodesLimited
CHECK_DEADLOCK FALSE
