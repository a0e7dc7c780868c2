\* One server down, the leader and a backup stop and come back, and the leader turns Byzantine and back.
SPECIFICATION Spec
CONSTANTS
  s1 = s1  s2 = s2  s3 = s3  s4 = s4
  t1 = t1  t2 = t2
  a = a  b = b  c = c
  Node = {s1, s2, s3, s4}
  Leader = s1
  F = 1
  Tx = {t1}
  NoTx = NoTx
  Account = {a, b}
  Shard = {a, b}
  Body <- OneBody
  InitialBalance = 20
  MaxRun = 2
  MaxSlot = 2
  MaxAttempts = 2
  Down = {s4}
  FlakyLive = {s1, s2}
  FlakyByz = {s1}
  MaxFlips = 2
  Timely = FALSE
INVARIANT TypeOK
INVARIANT OneSlotPerRequest
INVARIANT DecidedByQuorum
INVARIANT DecidedStaysLocked
INVARIANT BalancesMatchOutcomes
 
\* Attempts are bounded, and a lock that leaked stops a server for good.
CHECK_DEADLOCK FALSE
