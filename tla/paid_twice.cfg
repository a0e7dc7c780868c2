\* One payment, called again before its commit is executed, and no fault.
SPECIFICATION Spec
CONSTANTS
  t1 = t1  t2 = t2  t3 = t3
  a1 = 1  a2 = 2  b1 = 4  b2 = 5
  Clusters = 2
  Replicas = 4
  ShardSize = 3
  Tx = {t1}
  NoTx = NoTx
  Cluster = {1, 2}
  Account = {1, 2, 4, 5}
  Home <- HomeOf
  Route <- RouteOf
  Body <- OnePayment
  InitialBalance = 10
  MayFail <- Failing
  MaxSlot = 10
  MaxCalls = 2
  MaxFails = 0
  MaxLost = 0
  MaxUnheard = 0
\* The calls are bounded.
CHECK_DEADLOCK FALSE
INVARIANT MoneyConserved
