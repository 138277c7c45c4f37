\* Two streams, two concurrent publishes, and a page open on one of them.
SPECIFICATION Spec
CONSTANTS
  s1 = s1
  s2 = s2
  c1 = c1
  c2 = c2
  Streams = {s1, s2}
  Signals = {hello, secret1}
  PublicSignals = {hello}
  Readers = {k1}
  Connections = {c1, c2}
  Pages = {s1}
  PageLimit = 1
  MaxAnswers = 2
  MaxEvents = 4
  NoRow = NoRow
  NoTxn = NoTxn
INVARIANTS KeyboxMatchesLatest NewestEventIsLatest PageMissesNothing
PROPERTIES ImplementsBoard
SYMMETRY MCSymmetry
