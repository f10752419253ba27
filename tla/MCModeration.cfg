\* Three overlapping runs of apply, everything may fail.
SPECIFICATION FairSpec
CONSTANTS
  Callers = {c1, c2, c3}
  Targets = {mallory}
  Messages = {m1}
  NoMessage = NoMessage
  Writer = mallory
  author <- MCauthor
  Kinds = {"ban", "unban", "delete"}
  MaxCalls = 3
  Faults = {"crash", "database", "refused", "failed", "unheard"}
INVARIANTS
  TypeOK
  RowsWereAnswered
  CallsAreSerial
  StatsFollowLedger
PROPERTIES
  AlreadyAppliedIsBacked
  EveryCallEnds
CHECK_DEADLOCK FALSE
