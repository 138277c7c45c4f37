\* One of: requests to the social service, a page, the seeder, listeners, a reader, the rail, the switch.
SPECIFICATION MCSpec
CONSTANTS
  a = a
  b = b
  ann = ann
  bob = bob
  idAnn = idAnn
  idBob = idBob
  ownA = ownA
  ownB = ownB
  streamA = streamA
  streamB = streamB
  r1 = r1
  r2 = r2
  plain = plain
  private = private
  Wallets = {a, b}
  Names = {ann, bob}
  Username <- MCUsername
  OwnUsername <- MCOwnUsername
  StreamId <- MCStreamId
  Seeds = {seed1, seed2}
  DemoStreams <- MCDemoStreams
  Private = {private}
  Slots = {r1, r2}
  Requests = {r1, r2}
  Signals = {text1, text2}
  ListenIds = {id1, id2}
  ListenCalls = {listen1, listen2, listen3}
  MaxHandlers = 2
  MaxRequests = 3
  MaxEvents = 3
  Times = {1, 2}
  Limit = 2
  MaxItems = 2
  MaxPage = 2
  PageSize = 1
  None = None
SYMMETRY MCSymmetry
INVARIANTS OneProfile OneVoice NameIsSaved HeartIsHonest OwnDataShown ListIsHonest MarkerOpensSignals EveryListenerIsKnown ShownInTime RailShowsNewest SwitchIsHonest
CHECK_DEADLOCK FALSE
