\* One private stream or two public ones under fairness of the listener.
SPECIFICATION MCFairSpec
CONSTANTS
  p1 = p1
  p2 = p2
  Streams = {s1, s2, s3}
  Signals = {sig1, sig2, hello, bye}
  PublicSignals = {hello, bye}
  PublicStreams = {s2, s3}
  Subscribers = {alice}
  MaxGeneration = 1
  Publishers = {p1}
  MetaTries = 1
  MaxRecords = 2
  MaxTime = 0
  FaultyNetwork = FALSE
  SocialPublisher = FALSE
  NoPost = NoPost
  NoRecord = NoRecord
  NoKey = NoKey
  Idle = Idle
PROPERTIES HandedUnlessOvertaken
