\* Every zone; two messages and one action at any hours of three days.
SPECIFICATION WindowSpec
CONSTANTS
  DayLength = 4
  MaxDates = 3
  MaxMessages = 2
  MaxActions = 1
  Zones <- MCZones
  Malformed = Malformed
  SPARKLINE_DAYS = 2
INVARIANTS
  WindowTypeOK
  ActionsAreOnTheirDay
  StatsCoverTheDay
CHECK_DEADLOCK FALSE
