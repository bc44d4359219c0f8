CONSTANTS
  Sessions = {s1}
  Aliases = {a1}
  Keys = {k1, k2}
  NoKey = NoKey
  NoSession = NoSession
  Requests = {r1, r2}
  MaxRestarts = 2
  MaxFaults = 1
SPECIFICATION Spec
CHECK_DEADLOCK FALSE
PROPERTY DeletedRecordsRunOut
