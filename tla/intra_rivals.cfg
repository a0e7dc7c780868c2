\* Two payments the payer cannot both afford, every timer free to fire.
SPECIFICATION Spec
CONSTANTS
  s1 = s1  s2 = s2  s3 = s3  s4 = s4
  t1 = t1  t2 = t2
  a = a  b = b  c = c
  Node = {s1, s2, s3, s4}
  Leader = s1
  F = 1
  Tx = {t1, t2}
  NoTx = NoTx
  Account = {a, b}
  Shard = {a, b}
  Body <- RivalBody
  InitialBalance = 10
  MaxRun = 2
  MaxSlot = 2
  MaxAttempts = 1
  Down = {}
  FlakyLive = {}
  FlakyByz = {}
  MaxFlips = 0
  Timely = FALSE
SYMMETRY Backups
INVARIANT SlotAgreement
INVARIANT PreparedByQuorum
PROPERTY ImplementsReplicatedLog
\* Attempts are bounded, and a lock that leaked stops a server for good.
CHECK_DEADLOCK FALSE
