\* One top-up, two purchases of two packets of one type for one listing.
SPECIFICATION Safety
CONSTANTS
  u1 = u1  u2 = u2  c1 = c1  c2 = c2  c3 = c3
  Payer <- MCPayer
  Amount <- MCAmount
  Type <- MCType
  Duration <- MCDuration
  Buyer <- MCBuyer
  NoCheckout = NoCheckout
  Users = {u1}
  Checkouts = {c1}
  Handlers = {h1}
  OverlappingDelivery = FALSE
  Listings = {l1}
  Packets = {k1, k2}
  Prices = {1, 2}
  Purchases = {p1, p2}
  MaxClock = 2
SYMMETRY MCSymmetry
INVARIANTS
  BalanceMatchesLedger
  DuplicateOnlyWhenRaced
PROPERTIES
  TermHonoured
  KeepsPromiseSafety
CHECK_DEADLOCK FALSE
