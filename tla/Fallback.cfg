SPECIFICATION MCSpec
CONSTANTS
  d1 = d1
  d2 = d2
  a = a
  r1 = r1
  r2 = r2
  global = global
  noOrg = noOrg
  Keys = {k1}
  Teams = {t1}
  Amounts = {0, 1}
  Price = 60
  Unit = 100
  None = None
  Removed = Removed
  Global <- global
  NoOrg <- noOrg
  Deployments <- Both
  Owner <- FirstOfA
  Orgs <- OnlyOrgA
  Requests <- TwoRequests
  OrgOf <- KeyOrgs
  Retries = 0
  Catalogs <- AnyCatalog
  MaxReloads = 1
  CounterPeriod = 2
  Threshold = 1
  OpenDuration = 1
INVARIANTS
  OneOwnerOneCatalog
  HalfOpenIsProbed
  VerdictIsEarned
  BooksAgree
PROPERTIES
  PanicNeedsRemoval
