SPECIFICATION MCSpec
CONSTANTS
  i1 = i1
  i2 = i2
  i3 = i3
  org = org
  rr = rr
  ll = ll
  a1 = a1
  a2 = a2
  o1 = o1
  o2 = o2
  t1 = t1
  u1 = u1
  u2 = u2
  e1 = e1
  e2 = e2
  alice = alice
  acme = acme
  entry = entry
  ka = ka
  kb = kb
  Ids <- TwoIds
  Owners <- TwoOwners
  Strategies <- TwoStrategies
  Admins <- TwoAdmins
  Absent = Absent
  Unspecified = Unspecified
  Global = Global
  Default <- rr
  Config = Config
  None = None
  Gone = Gone
  Orgs <- TwoOrgs
  Teams <- OneTeam
  Users <- TwoUsers
  Keys <- TwoIds
  Emails <- TwoEmails
  Names <- TwoNames
  Workspace <- AllAlice
  Granted <- TeamAdmin
  Master <- rr
  MaxSpend = 1
  PriceRows <- ThreeRows
  Entries <- OneEntry
  Costs <- TwoCosts
  BuiltIn <- AllOne
  Percents <- OnePercent
  SigningKeys <- TwoSigners
SYMMETRY Interchangeable
INVARIANTS
  PartTypeOK
  LoneFollowsTables
  ListedKeysAreCounted
  BilledDiscountWasAttested
PROPERTIES
  DeletedStaysDeleted
  SpendIsNeverLost
  LoneDeletionRevokes
