\* One user; everything but an edit may fail at any time.
SPECIFICATION Spec
CONSTANTS
  Users = {alice}
  Bystanders = {eve}
  NoMessage = NoMessage
  NoRow = NoRow
  NoMeta = NoMeta
  NoUser = NoUser
  Digits = {0, 1}
  SolutionLen = 2
  solution_for <- MCsolution_for
  short_id <- MCshort_id
  Attempts = 2
  Lifetime = 1
  BatchSize = 1
  MaxIssues = 2
  Faults = {"crash", "shutdown", "redis", "redisLoss", "database", "render", "send", "delete"}
INVARIANTS
  CacheSound
  AnswersAreOwn
  RecordedPhotoIsCurrent
PROPERTIES
  ServiceSpec
