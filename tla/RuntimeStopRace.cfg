\* stop() while startInstances() awaits the network; Docker never fails.
CONSTANTS
  Containers = {c1, c2}
  Registered = {c1, c2}
  Calls = {a}
  Faults = {}
  StopDuringStart = TRUE
SPECIFICATION Spec
INVARIANT StopReleasesEverything
CHECK_DEADLOCK FALSE
