\* The three servers of a cluster that can be reached: two requests, timers and one change of view in any order.
SPECIFICATION FairSpec
CONSTANTS
  s1 = s1  s2 = s2  s3 = s3
  Node = {s1, s2, s3}
  Member <- Members
  F = 1
  Down = {}
  Flaky = {s2}
  Byz = {}
  Patient = {s3}
  MaxView = 2
  MaxSlot = 1
  MaxCalls = 2
  MaxFlips = 1
\* The calls and the views are bounded.
CHECK_DEADLOCK FALSE
INVARIANT TypeOK
INVARIANT ViewByQuorum
INVARIANT PreparedSurvives
INVARIANT DecidedByQuorum
PROPERTY SlotsMoveForward
PROPERTY JoinsFollow
