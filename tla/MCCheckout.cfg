\* Two requests of one customer or of guests, two keys, two variants with two
\* units and one unit, quantities up to two, an admin who restocks, and
\* transactions that can fail.
CONSTANTS
  r1 = r1
  r2 = r2
  Requests = {r1, r2}
  Users = {u1}
  Keys = {k1, k2}
  NoKey = NoKey
  NoRequest = NoRequest
  Variants = {1, 2}
  Shelf <- MCShelf
  Levels = {2}
  MaxSupply = 2
  MaxQty = 2
  MayFail = TRUE
SPECIFICATION FairCheckoutSpec
INVARIANTS
  CheckoutTypeOK
  StockConserved
  OneOrderPerKey
PROPERTIES
  EveryPostAnswers
  ImplementsInventory
