\* Participant of one cross-shard payment, the leader stops and comes back, and a backup turns Byzantine and back.
SPECIFICATION Spec
CONSTANTS
  s1 = s1  s2 = s2  s3 = s3  s4 = s4
  t1 = t1  t2 = t2
  a = a  b = b  c = c
  Node = {s1, s2, s3, s4}
  Leader = s1
  F = 1
  Tx = {t1}
  NoTx = NoTx
  Account = {a, c}
  Shard = {a}
  Body <- PartBody
  InitialBalance = 10
  MaxRun = 3
  MaxSlot = 3
  MaxAttempts = 1
  Down = {s4}
  FlakyLive = {s1}
  FlakyByz = {s2}
  MaxFlips = 2
  Timely = TRUE
INVARIANT StatusAgreement
INVARIANT BalancesMatchOutcomes
\* Attempts are bounded, and a lock that leaked stops a server for good.
CHECK_DEADLOCK FALSE
