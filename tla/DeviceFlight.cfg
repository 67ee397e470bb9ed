SPECIFICATION Spec
CONSTANTS
  a = a
  b = b
  n = n
  r = r
  c = c
  None = None
  Device = {a, b}
  Recovered = {}
  Contact = {c}
  Starts <- Two
  MaxSerial = 2
  MaxInbox = 1
  MAX_AUTHORITY_DEVICES = 3
  MAX_DEVICE_AUTHORITY_TRANSITIONS = 4
INVARIANT NeverWedged
CHECK_DEADLOCK FALSE
