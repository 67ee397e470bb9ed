SPECIFICATION Spec
CONSTANTS
  m = m
  m2 = m2
  h = h
  x = x
  f1 = f1
  f2 = f2
  intro = intro
  call = call
  ctl = ctl
  grp = grp
  bad = bad
  junk = junk
  p = p
  q = q
  Envelopes = {m, h, x, f1, f2, intro, call, junk, bad, ctl}
  Entrusted = {m, h, intro, junk, f1}
  Kind <- KindAmong
  Peer <- PeerAmong
  Deadline <- SoonForX
  Parts <- MInTwo
  Offers <- SafetyOffers
  MAX_PENDING_ENVELOPES = 2
  MAX_PENDING_WORK_PER_TICK = 2
  MAX_WAKE_PENDING_WORK_PER_TICK = 1
  PENDING_TTL_SECS = 0
  DELIVERY_EXPIRY_SECS = 1
  MaxTime = 1
  Faults = 1
INVARIANTS
  TypeOK
  ReleasedIsDurable
  AppliedOnce
  ReceiptsHonestAndRepeatable
  NoSilentDrop
CHECK_DEADLOCK FALSE
