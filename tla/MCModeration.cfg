\* Two moderators, a seller with two listings, two reports on any of them.
SPECIFICATION Spec
CONSTANTS
  u1 = u1
  Owner <- MCOwner
  NoReport = NoReport
  Nobody = Nobody
  Sellers = {u1}
  Listings = {l1, l2}
  Reports = {r1, r2}
  Reporters = {ann, bob}
  Moderators = {m1, m2}
SYMMETRY MCSymmetry
INVARIANTS
  StatusTellsTheTruth
  LeftoversOnlyWhenRaced
  OnePendingPerReporter
  SomeoneGoesOn
PROPERTY
  KeepsDocket
CHECK_DEADLOCK FALSE
