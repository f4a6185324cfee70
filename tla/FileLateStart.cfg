\* beforeAll times out, and its start() goes on under and after afterAll.
CONSTANTS
  HookTimeout = TRUE
  Faults = {}
SPECIFICATION Spec
INVARIANT FileReleasesEverything
CHECK_DEADLOCK FALSE
