SPECIFICATION Spec
CONSTANTS
  a = a
  b = b
  c = c
  Node = {a, b, c}
  Founder = a
  NoState = NoState
  NoGroup = NoGroup
  NoChain = NoChain
  Scenarios <- Changes
  GROUP_ROTATE_MSGS = 1
INVARIANTS
  TypeOK
  OnlyAudienceReads
  AcknowledgedIsHeld
  HonestResults
PROPERTY
  NeverRegresses
CHECK_DEADLOCK FALSE
