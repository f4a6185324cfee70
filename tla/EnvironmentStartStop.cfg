\* Either source; start() and stop() at any time, every callback may fail.
CONSTANT
  Faults = {"prepare", "application", "applicationStop"}
SPECIFICATION Spec
INVARIANTS
  EverythingIsReleased
  ContextIsAlive
PROPERTIES
  ApplicationStopsFirst
  StopSettles
CHECK_DEADLOCK FALSE
