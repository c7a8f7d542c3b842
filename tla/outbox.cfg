SPECIFICATION EventsSpec
CONSTANTS
  Handlers = {h1}
  MaxRows = 1
  Attempts = 3
  MaxStalls = 1
  MaxFaults = 0
  Events = {e1}
  EventFaults = 3
INVARIANTS
  FailedIsDeadLettered
  PerformedBoundedly
PROPERTIES
  KeepsPromise
  DispatchReturns
  StoredJobSettles
CHECK_DEADLOCK FALSE
