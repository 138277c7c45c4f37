\* A maker drops a tier and describes the stream again.
SPECIFICATION Spec
CONSTANTS
  A = A
  a = a
  B = B
  m1 = m1
  m2 = m2
  d1 = d1
  t1 = t1
  t2 = t2
  free = free
  paid = paid
  slugA = slugA
  slugB = slugB
  p1 = p1
  p2 = p2
  r1 = r1
  Streams = {A}
  Makers = {m1}
  Treasuries = {d1}
  Agents = {}
  Tiers = {t1, t2}
  TiersHashes <- MCTierLists
  Visibilities = {"public", "private"}
  Prices = {0}
  Quotas = {0}
  EvidenceLevels = {"trust"}
  NoAccount = NoAccount
  Slugs = {slugA}
  SlugOf <- MCSlugOf
  Offers = {free, paid}
  FreeOffers = {free}
  NoOffer = NoOffer
  Posters = {p1}
  Readers = {}
  AllStreams = AllStreams
  SearchPage = 2
  ListPage = 1
  MaxSignals = 0
  NoContent = NoContent
  Nothing = Nothing
INVARIANTS StreamAppears
