\* The process is started and stopped at any moment; any part may fail.
SPECIFICATION FairSpec
CONSTANTS
  Units <- MCUnits
  MaxWaiting = 1
  Faults = {"startup", "telegram", "pubsub", "panic"}
INVARIANTS
  TypeOK
  OnlyTimeoutCutsOff
PROPERTIES
  Drains
  ShutdownEnds
CHECK_DEADLOCK FALSE
