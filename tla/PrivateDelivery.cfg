\* One private stream or a public one, two publishers and a listener that rotates its key.
SPECIFICATION MCSpec
CONSTANTS
  p1 = p1
  p2 = p2
  Streams = {s1, s2}
  Signals = {sig1, sig2, hello}
  PublicSignals = {hello}
  PublicStreams = {s2}
  Subscribers = {alice}
  MaxGeneration = 1
  Publishers = {p1, p2}
  MetaTries = 2
  MaxRecords = 2
  MaxTime = 0
  FaultyNetwork = TRUE
  SocialPublisher = FALSE
  NoPost = NoPost
  NoRecord = NoRecord
  NoKey = NoKey
  Idle = Idle
INVARIANT HeardOnlyIfSealedFor
PROPERTIES ImplementsFeed
SYMMETRY MCSymmetry
