SPECIFICATION Spec
CONSTANTS
  phone = phone
  laptop = laptop
  Messages = {1}
  Devices = {phone, laptop}
  DELIVERY_EXPIRY_SECS = 2
  DELIVERY_SWEEP_INTERVAL_SECS = 1
  MAX_MAINTENANCE_MESSAGES_PER_TICK = 1
  MAX_MAINTENANCE_QUEUE_ROWS_PER_TICK = 1
  MAX_COMMIT_QUEUE_ROWS = 1
  MAX_MAINTENANCE_TRANSITIONS = 1
  RETRY_BASE_SECS = 2
  RETRY_CAP_SECS = 2
  PASSIVE_AFTER_ATTEMPTS = 1
  PASSIVE_RETRY_MIN_SECS = 1
  CAPACITY_RETRY_BASE_SECS = 0
  CAPACITY_RETRY_CAP_SECS = 1
  MaxTime = 3
  MaxAttempts = 2
  MaxWire = 2
INVARIANTS
  TypeOK
  CopiesTracked
  MessageSummarises
PROPERTIES
  ImplementsLifecycle
SYMMETRY Alike
CHECK_DEADLOCK FALSE
