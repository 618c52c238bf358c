\* One message to a recipient with two tabs.
SPECIFICATION Spec
CONSTANTS
  Messages = {m1}
  Tabs = {t1, t2}
  NoMessage = NoMessage
  ReplayLimit = 1
  PageLimit = 1
PROPERTY
  PresenceRecovers
CHECK_DEADLOCK FALSE
