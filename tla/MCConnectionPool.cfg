SPECIFICATION FairPoolSpec
CONSTANTS
  None = None
  Procs = {p1, p2, p3}
  Conns = {x1, x2}
  Keys = {k1}
  Carts = {c1}
  Items = {a1, a2}
  Orders = {o1}
  Restaurants = {r1}
INVARIANTS
  PoolInv
  StuckOnlyOverALine
PROPERTIES
  RequestsEnd
