\* The code does not keep SparklineShowsLastDays, not even for a chat in UTC.
SPECIFICATION WindowSpec
CONSTANTS
  DayLength = 4
  MaxDates = 3
  MaxMessages = 1
  MaxActions = 0
  Zones <- MCUtc
  Malformed = Malformed
  SPARKLINE_DAYS = 2
INVARIANTS
  SparklineShowsLastDays
CHECK_DEADLOCK FALSE
