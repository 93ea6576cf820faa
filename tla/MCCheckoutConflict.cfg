\* One form that is sent twice, and no failures.
CONSTANTS
  r1 = r1
  r2 = r2
  Requests = {r1, r2}
  Users = {u1}
  Keys = {k1}
  NoKey = NoKey
  NoRequest = NoRequest
  Variants = {1, 2}
  Shelf <- MCShelf
  Levels = {}
  MaxSupply = 3
  MaxQty = 1
  MayFail = FALSE
SPECIFICATION CheckoutSpec
INVARIANT ConflictReturnsOrder
