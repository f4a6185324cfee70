\* Up to three boots of one adapter and a log of up to five symbols.
CONSTANTS
  MaxAttempts = 3
  MaxText = 5
SPECIFICATION Spec
INVARIANTS
  StopReleases
  OneContainer
  LinesAreWhole
PROPERTY
  StopSettles
CHECK_DEADLOCK FALSE
