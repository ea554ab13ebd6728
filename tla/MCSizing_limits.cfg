CONSTANTS
  Whole = 10
  Lot = 2
  FeeReserve = 1
  MaxPosition = 3
  MaxTotal = 5
  Reserve = 5
  MaxChase = 2
  MaxSpread = 3
  Cutoff = 6
  BelowTick = 2
  AboveTick = 5
  Share = {2, 3}
  Alert = {7, 10}
  Quotes <- MCQuotes
  Accounts <- MCAccounts
  Fee = {1, 3}
  Prices = {4, 9, 10}
  MaxOrder = 2
SPECIFICATION SizingSpec
INVARIANTS
  SizingTypeOK
  OrderIsSound
PROPERTIES
  FillsPay
