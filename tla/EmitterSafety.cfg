\* One emitter, three emit() calls, two listeners that come and go.
SPECIFICATION DeliverySpec
CONSTANTS
  Emitter = {m1}
  Request = {ok, bad}
  Malformed = {bad}
  Named = {}
  Signers = {m1}
  Anonymous = {}
  Production = FALSE
  Listener = {l1, l2}
  Transient = {l1}
  AwaitsOwnEmit = FALSE
  UncertainAppend = TRUE
  MaxEmits = 3
  MaxSubscriptions = 2
INVARIANTS
  ChainIsValid
  StoredOnceIfAccepted
  DeliveryFollowsChain
  SubscribersAreTold
PROPERTY ImplementsProofLog
\* All emit() calls have settled and nobody subscribes any more.
CHECK_DEADLOCK FALSE
