\* Two emitters over one store in production; listeners may leave or await an emit().
SPECIFICATION Spec
CONSTANTS
  Emitter = {m1, m2}
  Request = {ok}
  Malformed = {}
  Named = {}
  Signers = {m1}
  Anonymous = {m2}
  Production = TRUE
  Listener = {l1}
  Transient = {l1}
  AwaitsOwnEmit = TRUE
  UncertainAppend = TRUE
  MaxEmits = 4
  MaxSubscriptions = 1
INVARIANTS
  MutualExclusion
  CallOrder
  ForksOnlyBetweenEmitters
\* A listener that awaits an emit() of its own emitter blocks it.
CHECK_DEADLOCK FALSE
