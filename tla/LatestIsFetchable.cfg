\* documents/Prepare_Publish_Signal_Flow.md against prepare and record.
SPECIFICATION Spec
CONSTANTS
  p1 = p1
  p2 = p2
  Streams = {s1}
  Signals = {sig1, sig2}
  PublicSignals = {}
  PublicStreams = {}
  Subscribers = {alice}
  MaxGeneration = 0
  Publishers = {p1}
  MetaTries = 1
  MaxRecords = 2
  MaxTime = 0
  FaultyNetwork = FALSE
  SocialPublisher = FALSE
  NoPost = NoPost
  NoRecord = NoRecord
  NoKey = NoKey
  Idle = Idle
INVARIANTS LatestIsFetchable
