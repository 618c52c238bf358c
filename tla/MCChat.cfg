\* Two messages to a recipient with one tab, one message to one with two tabs, or three to one
\* with one tab, to whom a replay sends one message and a page two.
SPECIFICATION MCSafety
CONSTANTS
  Messages = {m1, m2, m3}
  Tabs = {t1, t2}
  NoMessage = NoMessage
  ReplayLimit = 1
  PageLimit = 2
SYMMETRY MCSymmetry
INVARIANTS
  MissedOnlyWhenRaced
  PushedOrReplayed
  SeenIsRead
  DeletedIsHidden
  OpeningLostOnlyWhenRaced
CHECK_DEADLOCK FALSE
