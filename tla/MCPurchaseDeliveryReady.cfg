\* Bridge, page and time, no faults.
SPECIFICATION Spec
CONSTANTS
  m1 = m1
  m2 = m2
  d1 = d1
  d2 = d2
  Merchs = {m1, m2}
  b1 = b1
  Buyers = {b1}
  w1 = w1
  w2 = w2
  Wallets = {w1, w2}
  DatasetInfo <- EmptyAndNamed
  NoDataset = NoDataset
  Empty = Empty
  DatasetDefault = d2
  NoWallet = NoWallet
  OtherBodies = {}
  MaxPurchases = 2
  MaxFailures = 0
  MaxRestarts = 0
  MaxOthers = 0
  MaxFaults = 0
PROPERTY ReadyIsRedeemable
CHECK_DEADLOCK FALSE
