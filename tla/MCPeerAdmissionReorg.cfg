CONSTANTS
  Txs <- MCTxs
  Spends <- MCSpends
  Creates <- MCCreates
  Fee <- MCFee
  Vsize <- MCVsize
  Size <- MCSize
  Truc = {4, 5, 6}
  Signals = {1}
  Dust = {"o1"}
  Invalid = {7}
  Heavy = {7}
  FullRbf = TRUE
  MaxPackage = 3
  MaxPackageVsize = 4
  MaxCluster = 3
  MaxClusterVsize = 4
  MaxReplacements = 2
  MaxTruc = 2
  MaxTrucVsize = 1
  MaxTrucChildVsize = 1
  MinRelay = 1
  Incremental = 1
  SatsPerKvb = 1
  Genesis = "g"
  Path <- MCPath
  Work <- MCWork
  Content <- MCContent
  Base = {"c1", "c2", "c3"}
  MaxPending = 2
  MaxOrphans = 1
  MaxParentRequests = 1
  Setups <- MCReorgSetups
  Legacy = {1}
SPECIFICATION Spec

PROPERTY DisconnectedAreKept
