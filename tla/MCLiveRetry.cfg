SPECIFICATION FairSpec
CONSTANTS
  Mints = {m1}
  Wallets = {w0}
  Minter = w0
  Kinds = {"SALE", "BURN"}
  Slots <- RetryAndLive
  RetryLimit = 1
  MaxTx = 2
  MaxPending = 1
  MaxErrors = 1
  MaxCrashes = 0
  None = None
PROPERTIES LiveIsSettled RetriesSucceed
CHECK_DEADLOCK FALSE
