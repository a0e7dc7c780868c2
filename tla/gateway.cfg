\* The gateway and two servers that exchange keys, one payment in each of two sets.
SPECIFICATION FairSpec
CONSTANTS
  g = g  s1 = s1  s2 = s2
  Process <- Processes
  File <- KeyFiles
  Server <- Servers
  Client = g
  Starts <- Once
  Rounds <- Once
  F = 1
  Quorum = 2
  Last = 2
  Row <- Input
  MaxEarly = 1
\* The sets are executed once.
CHECK_DEADLOCK FALSE
INVARIANT TypeOK
INVARIANT ResultIsTruth
 
