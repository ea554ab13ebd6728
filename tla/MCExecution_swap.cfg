CONSTANTS
  Holding = {h1}
  NoHolding = NoHolding
  Price = {p1, p2}
  NoPrice = NoPrice
  MaxOrders = 3
  MaxQty = 2
  MaxPolls = 0
  MayExpire = {}
SPECIFICATION Spec
INVARIANTS
  TypeOK
  BooksBalance
  OutIsSound
  ActiveMeansCovered
SYMMETRY Symmetry
