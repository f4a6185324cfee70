\* Two concurrent startInstances() calls over three names, one of them without a
\* factory, stop() at any time, any fault.
CONSTANTS
  Containers = {c1, c2, c3}
  Registered = {c1, c2}
  Calls = {a, b}
  Faults = {"networkStart", "boot", "resource", "stop", "networkStop"}
  StopDuringStart = TRUE
SPECIFICATION Spec
INVARIANTS
  TypeOK
  SnapshotReleased
  NetworkReleased
PROPERTIES
  StartPromisesReused
  EveryoneSettles
CHECK_DEADLOCK FALSE
