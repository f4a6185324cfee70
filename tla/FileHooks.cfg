\* beforeAll, whose start() may still be pending when afterAll runs, and every
\* callback may fail.
CONSTANTS
  HookTimeout = TRUE
  Faults = {"prepare", "cleanup", "application", "applicationStop"}
SPECIFICATION HooksSpec
INVARIANTS
  HooksReleaseEverything
  ContainersReleased
  StopsOnlyWhatStarted
PROPERTIES
  HooksReverseOrder
  HooksSettle
CHECK_DEADLOCK FALSE
