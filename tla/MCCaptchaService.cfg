\* Safety: two members, any caller, crashes and shutdowns at any time.
SPECIFICATION Spec
CONSTANTS
  Users = {alice, bob}
  Messages = {m1}
  NoMessage = NoMessage
  NoRow = NoRow
  right = right
  wrong = wrong
  Solutions <- MCSolutions
  solution_for <- MCsolution_for
  Attempts = 2
  Lifetime = 2
  BatchSize = 1
  MaxIssues = 3
SYMMETRY MCSymmetry
INVARIANTS
  TypeOK
  VerifiedAreAudited
  OutcomesAccounted
PROPERTIES
  ChallengeOnlyRunsDown
  GateSpec
