\* Three logins that need a key, or two requests of any kind; one account at first.  Or four
\* requests from a device with an FCM token, or three from two devices and a push.
SPECIFICATION MCSpec
CONSTANTS
  Callers = {r1, r2, r3}
  Initial = {a1}
  Emails = {e1, e2}
  Usernames = {n1, n2}
  Phones = {p1}
  Subs = {s1, s2}
  Kids = {k1, k2}
  Lifetimes = {0, 1}
  FetchTimeout = 1
  MaxTime = 2
  MaxRotations = 1
  NoKid = NoKid
  Nothing = Nothing
  d1 = d1  d2 = d2  f1 = f1  f2 = f2  q4 = q4
  Calls = {q1, q2, q3, q4}
  Pushes = {p1}
  Devices = {d1, d2}
  FcmTokens = {f1, f2}
  Home <- MCHome
  NoRow = NoRow
SYMMETRY MCSymmetry
INVARIANTS
  QueueMoves
  KeysAreRecent
  RejectedOnlyIfMissing
  OneAccountPerIdentity
  BannedStaysOut
  PushesFollowLogins
PROPERTIES
  FailsOnlyWhenRaced
  NameStandsUnlessRaced
CHECK_DEADLOCK FALSE
