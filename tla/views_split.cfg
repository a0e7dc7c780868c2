\* A change of view while a request is being ordered, and a request of the next view.
SPECIFICATION Spec
CONSTANTS
  s1 = s1  s2 = s2  s3 = s3
  Node = {s1, s2, s3}
  Member <- Members
  F = 1
  Down = {}
  Flaky = {}
  Byz = {}
  Patient = {}
  MaxView = 2
  MaxSlot = 1
  MaxCalls = 2
  MaxFlips = 0
\* The calls and the views are bounded.
CHECK_DEADLOCK FALSE
INVARIANT AgreementAcrossViews
