\* One contract, two accounts that deploy and buy, and a denied one.
SPECIFICATION Spec
CONSTANTS
  a1 = a1
  a2 = a2
  d = d
  h1 = h1
  h2 = h2
  Accounts = {a1, a2, d}
  NoAccount = NoAccount
  Merchs = {m1}
  Price = 2
  Denied = {d}
  Payments = {1, 2, 3}
  RETRY_LIMIT = 3
  Keys = {k1, plain}
  ValidKeys = {k1}
  NoKey = NoKey
  Hashes = {h1, h2}
  NoHash = NoHash
  Uris = {u1}
  MaxLog = 5
SYMMETRY Symmetry
INVARIANTS
  TypeOK
  SaleStateConsistent
  FundsAccounted
  LogTellsState
  LogIsSerial
PROPERTY
  ImplementsOrders
