\* documents/Plan_Agent_Publish_Delegation.md against the table's roles.
SPECIFICATION Spec
CONSTANTS
  w1 = w1
  Wallets = {alice}
  Streams = {s1}
  Wizards = {w1}
  Pages = {p1}
  Tools = {p1}
  WalletOf <- MCWalletOf
  MaxAgents = 1
  MaxLinks = 1
  NoStream = NoStream
  NoCall = NoCall
  Closed = Closed
PROPERTIES EveryRoleRegisters
