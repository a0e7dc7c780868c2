\* Two rivals of one payer and a payment between their payees, every call made once.
SPECIFICATION FairSpec
CONSTANTS
  t1 = t1  t2 = t2  t3 = t3
  a1 = 1  a2 = 2  b1 = 4  b2 = 5
  Clusters = 2
  Replicas = 4
  ShardSize = 3
  Tx = {t1, t2, t3}
  NoTx = NoTx
  Cluster = {1, 2}
  Account = {1, 2, 4, 5}
  Home <- HomeOf
  Route <- RouteOf
  Body <- SamePayerAndThere
  InitialBalance = 10
  MayFail <- Failing
  MaxSlot = 10
  MaxCalls = 1
  MaxFails = 2
  MaxLost = 1
  MaxUnheard = 1
\* Payments that meet a fault may wait for ever.
CHECK_DEADLOCK FALSE
INVARIANT TypeOK
INVARIANT MoneyConserved
INVARIANT OneAnswer
INVARIANT CreditOnlyIfDebited
INVARIANT CommitOnlyIfPrepared
INVARIANT NoOverdraft
PROPERTY ImplementsAtomicCommit
PROPERTY PaymentsSettle
