SPECIFICATION Spec
CONSTANTS
  a = a
  b = b
  n = n
  r = r
  c = c
  None = None
  Device = {a, b, n, r}
  Recovered = {r}
  Contact = {c}
  Starts <- OneOrTwo
  MaxSerial = 4
  MaxInbox = 1
  MAX_AUTHORITY_DEVICES = 3
  MAX_DEVICE_AUTHORITY_TRANSITIONS = 4
INVARIANTS
  TypeOK
  ForksShareASigner
  RevokedStaysOut
CHECK_DEADLOCK FALSE
