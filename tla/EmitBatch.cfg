\* Two batches and single calls that share an emitter and its lock.
SPECIFICATION FairBatchSpec
CONSTANTS
  Emitter = {m1}
  Request = {ok, bad}
  Malformed = {bad}
  Named = {}
  Signers = {}
  Anonymous = {}
  Production = FALSE
  Listener = {l1}
  Transient = {}
  AwaitsOwnEmit = FALSE
  UncertainAppend = TRUE
  MaxEmits = 3
  MaxSubscriptions = 1
  Batch = {b1, b2}
  MaxBatch = 2
INVARIANTS
  ReportMatchesStore
  EachRequestOnce
PROPERTY EveryEmitSettles
\* All batches are done.
CHECK_DEADLOCK FALSE
