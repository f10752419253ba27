\* One user; everything but the bot's deletes may fail, and it keeps running.
SPECIFICATION FairSpec
CONSTANTS
  Users = {alice}
  Bystanders = {eve}
  NoMessage = NoMessage
  NoRow = NoRow
  NoMeta = NoMeta
  NoUser = NoUser
  Digits = {0, 1}
  SolutionLen = 2
  solution_for <- MCsolution_for
  short_id <- MCshort_id
  Attempts = 1
  Lifetime = 1
  BatchSize = 1
  MaxIssues = 2
  Faults = {"redis", "redisLoss", "database", "render", "send", "edit"}
PROPERTIES
  EveryChallengeEnds
  SweptPhotoGoes
