SPECIFICATION MCSpec
CONSTANTS
  c1 = c1
  c2 = c2
  c3 = c3
  Callers <- TwoCallers
  Threshold = 1
  OpenDuration = 1
INVARIANTS
  AtMostOneProbe
