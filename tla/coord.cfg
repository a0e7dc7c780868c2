\* Coordinator of a cross-shard payment with a rival in a synchronous cluster with one server down.
SPECIFICATION FairSpec
CONSTANTS
  s1 = s1  s2 = s2  s3 = s3  s4 = s4
  t1 = t1  t2 = t2
  a = a  b = b  c = c
  Node = {s1, s2, s3, s4}
  Leader = s1
  F = 1
  Tx = {t1, t2}
  NoTx = NoTx
  Account = {a, b, c}
  Shard = {a, b}
  Body <- CoordRivalBody
  InitialBalance = 10
  MaxRun = 3
  MaxSlot = 3
  MaxAttempts = 1
  Down = {s4}
  FlakyLive = {}
  FlakyByz = {}
  MaxFlips = 0
  Timely = TRUE
INVARIANT NoOverdraft
INVARIANT StatusAgreement
INVARIANT ReplicaConsistency
INVARIANT BalancesMatchOutcomes
PROPERTY EveryRequestDecided
PROPERTY LocksFreed
\* Attempts are bounded, and a lock that leaked stops a server for good.
CHECK_DEADLOCK FALSE
