\* One call of up to four names, stop() at any time, any fault: the contract of
\* the runtime, and what it keeps to an owner that waits for its start.
CONSTANTS
  Containers = {c1, c2, c3, c4}
  Registered = {c1, c2, c3}
  Calls = {a}
  Faults = {"networkStart", "boot", "resource", "stop", "networkStop"}
  StopDuringStart = TRUE
SPECIFICATION RacedSpec
INVARIANTS
  OwnerReleasesEverything
  ReverseReadiness
PROPERTY ImplementsContract
CHECK_DEADLOCK FALSE
