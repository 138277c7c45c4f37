\* One stream, two makers' wallets and a buyer, in several casts of clients.
SPECIFICATION FlowsSpec
CONSTANTS
  m1 = m1
  m2 = m2
  alice = alice
  bob = bob
  wizard = wizard
  form0 = form0
  tool = tool
  seeder = seeder
  page = page
  swap = swap
  card = card
  link = link
  buyTool = buyTool
  server = server
  keyPage = keyPage
  keySwap = keySwap
  keyTool = keyTool
  walletTool = walletTool
  NoAccount = NoAccount
  NoOffer = NoOffer
  NoTerms = NoTerms
  NoKey = NoKey
  Direct = Direct
  Streams = {s1}
  Makers = {m1, m2}
  Treasuries = {m1, m2}
  Agents = {}
  Subscribers = {alice, bob}
  Tiers = {t1}
  TierId = t1
  TiersHashes = {0, 1}
  Visibilities = {"public", "private"}
  Prices = {0, 1}
  Quotas = {0}
  NoQuota = 0
  EvidenceLevels = {"trust"}
  Evidence = "trust"
  Expiries = {0}
  Expiry = 0
  Keys = {k1, k2}
  Signals = {}
  InitialLamports = 1
  MaxU64 = 10000
  MaxTime = 0
  Clients = {wizard, form0, tool, seeder, page, swap, card, link, buyTool, server, keyPage, keySwap, keyTool, walletTool}
  WalletOf <- MCWalletOf
  Pages = {swap, keySwap}
  Wizards = {wizard}
  StreamForms = {form0}
  StreamTools = {tool}
  Seeders = {seeder}
  OffersOf <- MCOffersOf
  SubscribeForms = {page, swap}
  Cards = {card}
  Blinks = {link}
  SubscribeTools = {buyTool}
  Servers = {server}
  KeyPages = {keyPage, keySwap}
  KeyTools = {keyTool}
  WalletTools = {walletTool}
  MaxSends = 4
  Casts <- MCCasts
  MaxDirect = 1
SYMMETRY MCSymmetry
INVARIANTS FlowsTypeOK ListedByOwner ToolDoneIsBuyable SubscribedIsHeld RegisteredKeyExists
PROPERTIES ChargedAsShown PublicCostsNothing
CHECK_DEADLOCK FALSE
