\* Two users share the chat, nothing fails.
SPECIFICATION Spec
CONSTANTS
  Users = {alice, bob}
  Bystanders = {eve}
  NoMessage = NoMessage
  NoRow = NoRow
  NoMeta = NoMeta
  NoUser = NoUser
  Digits = {0, 1}
  SolutionLen = 2
  solution_for <- MCsolution_for
  short_id <- MCshort_id
  Attempts = 1
  Lifetime = 1
  BatchSize = 1
  MaxIssues = 3
  Faults = {}
SYMMETRY MCSymmetry
INVARIANTS
  TypeOK
  MetaMatchesKeyboard
  RefreshIsAccepted
