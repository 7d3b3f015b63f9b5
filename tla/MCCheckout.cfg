SPECIFICATION Spec
CONSTANTS
  None = None
  r1 = r1
  r2 = r2
  a1 = a1
  a2 = a2
  b1 = b1
  old = old
  new = new
  c1 = c1
  c2 = c2
  u1 = u1
  u2 = u2
  k1 = k1
  k2 = k2
  o1 = o1
  o2 = o2
  ref1 = ref1
  Procs = {p1, p2, p3}
  Restaurants = {r1, r2}
  Items = {a1, b1}
  Terms = {old, new}
  Carts = {c1, c2}
  Customers = {u1, u2}
  Keys = {k1, k2}
  OrderIds = {o1, o2}
  Refs = {ref1}
  Blank = Blank
  MaxQuantity = 1
  MaxInt = 1
  Hashes = {0}
  RestaurantOf <- RestaurantOfMC
  PriceOf <- PriceOfMC
  HashOf <- HashOfMC
  InitialMenu <- PricedMenu
  Requests <- CheckoutTraffic
SYMMETRY Symmetry
INVARIANTS
  UniqueIndexIsNeverHit
  AnswersAgree
  TypeOK
  CartNeverMixed
  DeadlockNeedsDelete
PROPERTIES
  ImplementsShop
