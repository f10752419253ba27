\* The code does not keep NoCaptchaForVerified.
SPECIFICATION Spec
CONSTANTS
  Users = {alice}
  Bystanders = {eve}
  NoMessage = NoMessage
  NoRow = NoRow
  NoMeta = NoMeta
  NoUser = NoUser
  Digits = {0, 1}
  SolutionLen = 2
  solution_for <- MCsolution_for
  short_id <- MCshort_id
  Attempts = 2
  Lifetime = 1
  BatchSize = 1
  MaxIssues = 3
  Faults = {}
PROPERTIES
  NoCaptchaForVerified
