SPECIFICATION Spec
CONSTANTS
  A = A
  B = B
  V1 = V1
  V2 = V2
  Dev = Dev
  Base = Base
  Ext = Ext
  Clash = Clash
  U = U
  NoUrl = NoUrl
  Name = {A, B}
  Version = {V1, V2, Dev}
  Url = {U}
  Composable <- MCComposable
  TypeDefs = {Base, Ext, Clash}
  Txn = {t1, t2}
  Requests <- TwoServiceRequests
  PoolSize = 2
  Ticks = {1}
SYMMETRY TxnSymmetry
INVARIANT ServedComposes
