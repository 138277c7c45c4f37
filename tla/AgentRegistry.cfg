\* One stream, a registration wizard, and a client that uses the agent page and the MCP tools.
SPECIFICATION Spec
CONSTANTS
  w1 = w1
  Wallets = {alice}
  Streams = {s1}
  Wizards = {w1}
  Pages = {p1}
  Tools = {p1}
  WalletOf <- MCWalletOf
  MaxAgents = 2
  MaxLinks = 2
  NoStream = NoStream
  NoCall = NoCall
  Closed = Closed
INVARIANTS TypeOK OneSenderUnlessOverlapping LinkedOnceUnlessOverlapping DoneIsLinked
