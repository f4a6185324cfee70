\* One run; nothing fails.
CONSTANTS
  Reporter = reporter
  Clients = {reporter, worker}
  BatchSize = 2
  MaxEvents = 4
  MaxHookEvents = 2
  MaxRuns = 1
  Faults = {}
SPECIFICATION Spec
INVARIANT EventsAreRecorded
