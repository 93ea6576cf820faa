\* Nine budgets, one per behaviour: three requests from two browsers of one
\* account with one lost reply or stopped request and one change of rates or
\* currency; two requests beside a form of the back office, and beside one of its
\* other changes; two uploads or deletions of pictures with one failure and one
\* change, on disk and in a bucket; a walk beside a form; and a walk through two,
\* three or tied products beside one change of catalogue, wishlist or orders.
SPECIFICATION StorefrontSpec
CONSTANTS
  v1 = v1
  v2 = v2
  v3 = v3
  r1 = r1
  r2 = r2
  r3 = r3
  p1 = p1
  p2 = p2
  p3 = p3
  e1 = e1
  e2 = e2
  o1 = o1
  o2 = o2
  o3 = o3
  shoes = shoes
  bags = bags
  base = base
  foreign = foreign
  Variants = {v1, v2, v3}
  Currencies = {base, foreign}
  Base = base
  DefaultDisplay = foreign
  DisplayCurrencies = {base, foreign}
  ChargeCurrencies = {base, foreign}
  NoRate = NoRate
  Methods = {"standard"}
  ShippingCents <- MCShipping
  Products = {p1, p2, p3}
  ProductOf <- MCProductOf
  InitialStock <- MCStock
  PriceChoices <- MCPrices
  Supply = {1}
  Errands = {e1, e2}
  Links = {link}
  OldImage = OldImage
  NoFile = NoFile
  NoImage = NoImage
  Gone = Gone
  Nothing = Nothing
  Scenarios <- MCScenarios
  Browsers = {b1, b2}
  Members = {b1}
  Requests = {r1, r2, r3}
  Quantities = {1}
  RateTables <- MCRateTables
  Account = Account
  NoVariant = NoVariant
  NoCookie = NoCookie
  NoSale = NoSale
  Walks = {visitor}
  PageSize <- MCPageSize
  Categories = {shoes, bags}
  NoCategory = NoCategory
  CategoryOf <- MCCategoryOf
  IdRank <- MCIdRank
  FormFilters <- MCFilters
  Orders = {o1, o2, o3}
  Statuses <- MCStatuses
  InitialOrders <- MCOrders
  NoStatus = NoStatus
SYMMETRY Symmetry
INVARIANTS
  StorefrontTypeOK
  UnitsAccounted
  ChargedAsShown
  ImagesExplained
  WalksComplete
CHECK_DEADLOCK FALSE
