\* Four requests of any kind, from two devices.
SPECIFICATION Spec
CONSTANTS
  Requests = {r1, r2, r3, r4}
  Devices = {d1, d2}
  Initial = Initial
  None = None
SYMMETRY MCSymmetry
INVARIANTS
  RevocationCoversEarlier
  SessionDiesWithPassword
  TokenReuseOnlyWhenRaced
  RefreshStopsAtRevocation
CHECK_DEADLOCK FALSE
