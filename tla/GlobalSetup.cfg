SPECIFICATION Spec
CONSTANTS
  p1 = p1
  p2 = p2
  Projects = {p1, p2}
  Roots <- MCRoots
  None = None
  Faults = {"discovery", "prepare", "cleanup", "directory", "file", "provide", "removal", "token"}
INVARIANTS
  EverythingIsReleased
  ResourcePathIsLive
  SessionsAreFound
  SessionEndsLast
PROPERTIES
  CleanupPrecedesStop
  ReleaseEnds
