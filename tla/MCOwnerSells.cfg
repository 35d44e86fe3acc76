SPECIFICATION Spec
CONSTANTS
  Wallets = {w1, w2, w3}
  Nfts = {n1}
  Bids = {}
  AuctionIds = {a1}
  Sigs = {s1}
  Uuids = {u1}
  Prices = {1, 2}
  Hours = {1}
  Reqs = {r1}
  MaxTime = 1
  None = None
  Ops <- MixedOps
SYMMETRY Symmetry
PROPERTY OnlyOwnerSells
CHECK_DEADLOCK FALSE
