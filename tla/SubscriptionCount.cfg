\* Two subscribers and a maker that also subscribes to its own stream.
SPECIFICATION Spec
CONSTANTS
  maker = maker
  dao = dao
  alice = alice
  bob = bob
  agent = agent
  NoAccount = NoAccount
  Streams = {s1}
  Makers = {maker}
  Treasuries = {dao}
  Agents = {agent}
  Subscribers = {alice, bob, maker}
  Tiers = {t1}
  TiersHashes = {h1}
  Visibilities = {public}
  Prices = {99, 250}
  Quotas = {0}
  EvidenceLevels = {trust}
  Expiries = {0, 1}
  Keys = {}
  Signals = {sig1}
  InitialLamports = 200
  MaxU64 = 10000
  MaxTime = 1
SYMMETRY MCSymmetry
INVARIANTS TypeOK CountMatchesActive OnePassPerSubscription LamportsLedger
PROPERTIES TermsAreKept ImplementsMembership
