CONSTANTS
  N = 3
  Words = {lamp}
  LongWords = {lamp}
  Numbers = {2}
  Absent = Absent
  NoDevice = NoDevice
  Requests = {r1}
  MaxChanges = 1
SPECIFICATION Spec
CHECK_DEADLOCK FALSE
INVARIANT ActsOnTheReferenceGiven
