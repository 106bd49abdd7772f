\* Events of an agent with and without a score, in any order of times; two calls
\* under way together, be they replays, polls or restarts; each may fail.
SPECIFICATION FairSpec
CONSTANTS
  Agent = {a1}
  NoAgent = none
  NoScore = none
  Fact <- SomeFacts
  Task = {t1, t2}
  ManualReplay = TRUE
  Failing = {"poll", "start", "replay"}
  ReplayBatchSize = 1
  MaxEvents = 2
  MaxTime = 2
  MaxIntervals = 2
  MaxReplays = 2
INVARIANTS
  ProjectedOnce
  MissedOnlyBehindReplay
  SummariesCount
PROPERTY EveryEventProjected
\* A projector may be stopped and never started again.
CHECK_DEADLOCK FALSE
