\* Stripe delivers one event to two webhook tasks at once.
SPECIFICATION Safety
CONSTANTS
  u1 = u1  u2 = u2  c1 = c1  c2 = c2  c3 = c3
  Payer <- MCPayer
  Amount <- MCAmount
  Type <- MCType
  Duration <- MCDuration
  Buyer <- MCBuyer
  NoCheckout = NoCheckout
  Users = {u1}
  Checkouts = {c1}
  Handlers = {h1, h2}
  OverlappingDelivery = TRUE
  Listings = {}
  Packets = {}
  Prices = {}
  Purchases = {}
  MaxClock = 0
INVARIANT
  CreditedAtMostOnce
CHECK_DEADLOCK FALSE
