SPECIFICATION MCSpec
CONSTANTS
  r1 = r1
  r2 = r2
  v1 = v1
  v2 = v2
  plain = plain
  premium = premium
  g1 = g1
  g2 = g2
  g3 = g3
  Handlers <- ThreeHandlers
  Served <- FirstHandler
  MaxChanges = 2
  Governed <- OnlyPlain
  Strategies <- OffOrTracked
  RuleLists <- TwoFilesOrNone
  Contents <- PersonalOrInjection
  Signals <- SimpleAndComplex
  Limits <- NoneOrThree
  Tiers <- PremiumAndPlain
  Challenger = plain
  MaxConcurrent = 1
  Wires <- AllWires
  Providers <- AllProviders
  Instructions <- NoneOrTwo
  MaxTurns = 5
  MaxCalls = 2
  Requests <- TwoSlots
  Values <- TwoValues
  Aliases <- TwoAliases
  Org = org
  NoOrg = noOrg
  Denied <- NoPremium
  Budget = 1
  Cost = 1
  Supplied = supplied
  MaxEntries = 1
  None = None
SYMMETRY Symmetric
INVARIANTS
  RecordingsHoldNoValues
