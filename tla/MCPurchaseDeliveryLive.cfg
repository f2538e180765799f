\* The same with one wallet and one failing call, under fairness.
SPECIFICATION FairSpec
CONSTANTS
  m1 = m1
  m2 = m2
  d1 = d1
  d2 = d2
  Merchs = {m1, m2}
  b1 = b1
  Buyers = {b1}
  w1 = w1
  w2 = w2
  Wallets = {w1}
  DatasetInfo <- EmptyAndNamed
  NoDataset = NoDataset
  Empty = Empty
  DatasetDefault = d2
  NoWallet = NoWallet
  OtherBodies = {}
  MaxPurchases = 2
  MaxFailures = 1
  MaxRestarts = 0
  MaxOthers = 0
  MaxFaults = 1
INVARIANT DatasetFromContract
PROPERTIES CallersGetAnswers WatchedPurchasesClaimed
CHECK_DEADLOCK FALSE
