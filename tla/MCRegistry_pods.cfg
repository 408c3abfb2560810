SPECIFICATION Spec
CONSTANTS
  A = A
  B = B
  V1 = V1
  V2 = V2
  Dev = Dev
  Base = Base
  Ext = Ext
  Clash = Clash
  U = U
  NoUrl = NoUrl
  Name = {A, B}
  Version = {V1, V2, Dev}
  Url = {U}
  Composable <- MCComposable
  TypeDefs = {Base}
  Txn = {t1, t2, t3}
  Requests <- PodRequests
  PoolSize = 2
  Ticks = {0}
SYMMETRY TxnSymmetry
PROPERTY RepeatAccepted
