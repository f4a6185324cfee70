\* Two runs; any request may fail, any report may not be written and a
\* container that was not stopped may go on logging.
CONSTANTS
  Reporter = reporter
  Clients = {reporter, worker}
  BatchSize = 2
  MaxEvents = 4
  MaxHookEvents = 2
  MaxRuns = 2
  Faults = {"send", "report", "containerStop"}
SPECIFICATION Spec
INVARIANTS
  QueueIsWatched
  InOrder
  RunsAreExecutions
PROPERTIES
  DrainingFlushDelivers
  RunnerIsNotHeldUp
