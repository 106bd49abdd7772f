\* With and without callbacks, by callers that await each anchor() or do not.
SPECIFICATION Spec
CONSTANTS
  Call = {c1, c2}
  IntervalBatches = 2
  IntervalMs = 2
  MaxFlushes = 5
  MaxTime = 4
INVARIANTS
  AnchorsVerify
  LogIsChain
  CounterIsBacklog
  AnchoredEventsProvable
\* The bounds end the flushes and the clock.
CHECK_DEADLOCK FALSE
