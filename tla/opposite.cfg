\* Two payments between two accounts, one in each direction, and no fault.
SPECIFICATION FairSpec
CONSTANTS
  t1 = t1  t2 = t2  t3 = t3
  a1 = 1  a2 = 2  b1 = 4  b2 = 5
  Clusters = 2
  Replicas = 4
  ShardSize = 3
  Tx = {t1, t2}
  NoTx = NoTx
  Cluster = {1, 2}
  Account = {1, 2, 4, 5}
  Home <- HomeOf
  Route <- RouteOf
  Body <- Opposite
  InitialBalance = 10
  MayFail <- Failing
  MaxSlot = 10
  MaxCalls = 1
  MaxFails = 0
  MaxLost = 0
  MaxUnheard = 0
\* The two payments may wait for ever.
CHECK_DEADLOCK FALSE
PROPERTY PaymentsSettle
