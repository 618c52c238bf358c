\* Three requests from one device.
SPECIFICATION Spec
CONSTANTS
  Requests = {r1, r2, r3}
  Devices = {d1}
  Initial = Initial
  None = None
INVARIANT
  LoginNeverRefused
CHECK_DEADLOCK FALSE
