SPECIFICATION MCSpec
CONSTANTS
  one = one
  two = two
  w1 = w1
  w2 = w2
  w3 = w3
  o1 = o1
  o2 = o2
  Replicas <- TwoReplicas
  Writers <- ThreeWriters
  ReplicaOf <- Placement
  Orgs <- TwoOrgs
  MaxSigned = 3
  None = None
  Handlers = {h1, h2}
  Workers = {w1, w2}
  QueueSize = 1
  AuditSize = 1
  Recorded <- SixRecordings
  Filter <- OfOneOrg
  Limit = 0
  MaxPage = 10
  PageSize = 3
  Parallel = 2
  Every = 1
  Reasons = {Empty, "rule"}
  Scorers = {Empty, "json_schema", "llm_judge"}
  Replies <- OneReply
  Original <- Recording
  Patterns = {"yes"}
  RequiredKeys = {"k"}
  TypeHints <- Types
  Empty = Empty
  Error = Error
CHECK_DEADLOCK FALSE
INVARIANTS
  PartTypeOK
  OneProcessNeverForks
  ReceiptsNeverFork
  ShutdownIsClean
PROPERTIES
  ProgressIsTrue
  EverythingEnds
