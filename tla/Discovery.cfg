\* Overlapping requests that describe a private stream; a request and a reader of two public ones.
SPECIFICATION MCSpec
CONSTANTS
  A = A
  a = a
  B = B
  m1 = m1
  m2 = m2
  d1 = d1
  t1 = t1
  t2 = t2
  free = free
  paid = paid
  slugA = slugA
  slugB = slugB
  p1 = p1
  p2 = p2
  r1 = r1
  Streams = {A, B}
  Makers = {m1}
  Treasuries = {d1}
  Agents = {}
  Tiers = {t1}
  TiersHashes <- MCTierLists
  Visibilities = {"public", "private"}
  Prices = {0}
  Quotas = {0}
  EvidenceLevels = {"trust"}
  NoAccount = NoAccount
  Slugs = {slugA, slugB}
  SlugOf <- MCSlugOf
  Offers = {free, paid}
  FreeOffers = {free}
  NoOffer = NoOffer
  Posters = {p1, p2}
  Readers = {r1}
  AllStreams = AllStreams
  SearchPage = 1
  ListPage = 1
  MaxSignals = 1
  NoContent = NoContent
  Nothing = Nothing
INVARIANTS PublicIsFree PostedIsVisible
PROPERTIES ImplementsDirectory AnswersWhatWasAsked
SYMMETRY MCSymmetry
