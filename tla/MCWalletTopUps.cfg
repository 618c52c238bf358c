\* Top-ups alone: two users, three checkouts, two webhook tasks.
SPECIFICATION Spec
CONSTANTS
  u1 = u1  u2 = u2  c1 = c1  c2 = c2  c3 = c3
  Payer <- MCPayer
  Amount <- MCAmount
  Type <- MCType
  Duration <- MCDuration
  Buyer <- MCBuyer
  NoCheckout = NoCheckout
  Users = {u1, u2}
  Checkouts = {c1, c2, c3}
  Handlers = {h1, h2}
  OverlappingDelivery = FALSE
  Listings = {}
  Packets = {}
  Prices = {}
  Purchases = {}
  MaxClock = 0
INVARIANT
  CreditMatchesPayment
PROPERTY
  KeepsPromise
CHECK_DEADLOCK FALSE
