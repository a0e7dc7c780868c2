\* The gateway and two servers, one of which is started again.
SPECIFICATION KeysFairSpec
CONSTANTS
  g = g  s1 = s1  s2 = s2
  Process = {g, s1, s2}
  File <- KeyFiles
  Starts <- TwiceOneServer
  Rounds <- ReadTwice
\* Nobody reads the files for ever.
CHECK_DEADLOCK FALSE
INVARIANT KeysTypeOK
PROPERTY KeysMoveForward
PROPERTY KeysArrive
