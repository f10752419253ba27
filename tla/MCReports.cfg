\* The job and the worker deliver and summarise across midnight, all may fail.
SPECIFICATION Spec
CONSTANTS
  Budget = 2
  Reserve = 2
  Uses = {1, 3}
  MaxRetries = 2
  MaxDays = 1
  MaxRuns = 3
  Commands = {"report", "summary"}
  Faults = {"crash", "database", "delete", "send", "chart", "openai", "quiet", "policy"}
INVARIANTS
  TypeOK
  RowsStand
  UseIsCharged
  BudgetHolds
CHECK_DEADLOCK FALSE
