SPECIFICATION Spec
CONSTANTS
  alice = alice
  bob = bob
  escrow = escrow
  n1 = n1
  n2 = n2
  n3 = n3
  Wallets = {alice, bob, escrow}
  Creator = Creator
  NFTs = {n1, n2, n3}
  Coin = Coin
  InDatabase = {n1}
  TrackedNFTs = {n1, n2}
  Transactions <- MCTransactions
  None = None
INVARIANTS TypeOK SalePriced  InferredIsPaid IgnoredMovedNothing
CHECK_DEADLOCK FALSE
