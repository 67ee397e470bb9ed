SPECIFICATION Spec
CONSTANTS
  c1 = c1
  c2 = c2
  c3 = c3
  t = t
  x = x
  y = y
  Clients = {c1, c2, c3}
  Tokens = {t}
  NoHint = NoHint
  Envelopes <- MCEnvelopes
  Config <- MCConfig
  Times <- MCTimes
  MaxEnvelopeBytes = 3
  PageMaxRows = 2
  PageMaxBytes = 3
  AckMaxRows = 2
  MaxCheckinTokens = 2
  MaxRow = 3
  MaxLease = 4
SYMMETRY Symmetry
INVARIANT TypeOK
INVARIANT ReopenAccepts
INVARIANT LeaseDiscipline
PROPERTY CustodyEnds
PROPERTY DrainedWhenEmpty
