SPECIFICATION IntactSpec
CONSTANTS
  m = m
  m2 = m2
  h = h
  x = x
  f1 = f1
  f2 = f2
  intro = intro
  call = call
  ctl = ctl
  grp = grp
  bad = bad
  junk = junk
  p = p
  q = q
  Envelopes = {m, h, x, ctl, grp}
  Entrusted = {m, h, ctl, grp}
  Kind <- KindAmong
  Peer <- PeerAmong
  Deadline <- NoDeadline
  Parts <- Whole
  Offers <- LiveOffers
  MAX_PENDING_ENVELOPES = 3
  MAX_PENDING_WORK_PER_TICK = 3
  MAX_WAKE_PENDING_WORK_PER_TICK = 1
  PENDING_TTL_SECS = 9
  DELIVERY_EXPIRY_SECS = 9
  MaxTime = 0
  Faults = 1
PROPERTY EntrustedApplied
CHECK_DEADLOCK FALSE
