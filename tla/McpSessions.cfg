CONSTANTS
  Sessions = {s1, s2}
  Aliases = {a1}
  Keys = {k1, k2}
  NoKey = NoKey
  NoSession = NoSession
  Requests = {r1, r2}
  MaxRestarts = 1
  MaxFaults = 1
SPECIFICATION Spec
SYMMETRY Symmetry
CHECK_DEADLOCK FALSE
INVARIANT TypeOK
INVARIANT OpenSessionsAreWhole
INVARIANT StrayServersAreExplained
INVARIANT ProjectIsSettledAtOpening
INVARIANT StrayIdsAreExplained
