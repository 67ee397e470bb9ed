SPECIFICATION TickingSpec
CONSTANTS
  m1 = m1
  m2 = m2
  m3 = m3
  None = None
  Device = {1, 2}
  Message = {m1, m2, m3}
  author <- ByHigher
  Starts <- AnyOrLower
  Rescans = {}
  MAX_COMMIT_QUEUE_ROWS = 4
  MaxSession = 2
INVARIANTS
  TypeOK
  SessionsAgree
  OpenCopiesAreCurrent
PROPERTIES
  AdoptedIsHeld
  DeliveredIfFlightsArrive
CHECK_DEADLOCK FALSE
