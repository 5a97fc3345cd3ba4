SPECIFICATION MCLiveSpec
CONSTANTS
  c1 = c1
  c2 = c2
  c3 = c3
  Callers <- ThreeCallers
  Threshold = 2
  OpenDuration = 2
INVARIANTS
  TypeOK
  HalfOpenIsOwned
PROPERTIES
  OpenBreakerSheds
  ImplementsAtomicBreaker
  HalfOpenResolves
  OpenGetsAnotherChance
