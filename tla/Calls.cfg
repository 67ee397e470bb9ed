SPECIFICATION LiveSpec
CONSTANTS
  alice = alice
  bob = bob
  a = a
  b = b
  b2 = b2
  None = None
  Account = {alice, bob}
  Device = {a, b, b2}
  OwnerOf <- Owners
  MaxCalls = 1
  CALL_OFFER_LIFETIME_SECS = 1
  HANGUP_LIFETIME_SECS = 1
  TERMINAL_CALL_RETENTION_SECS = 0
  MEDIA_ROUTE_LOSS_GRACE_SECS = 0
  MAX_TRANSIENT_CALLS = 2
  MAX_MEDIA_HANDSHAKE_FAILURES = 1
  MaxFaults = 1
INVARIANTS
  OneTalker
  HonestRefusal
PROPERTIES
  NobodyLeftTalking
CHECK_DEADLOCK FALSE
