\* A store's own consumer and one of a pool, rebalances, redelivery, rejections.
SPECIFICATION FairSpec
CONSTANTS
  Consumer = {c1, c2}
  Partition = {p1, p2}
  Tenant = {t1}
  FromBeginning = {c1}
  MaxEvents = 3
  MaxRebalances = 2
INVARIANTS
  CopiesNeedAssignments
  PartitionOrder
  CommittedIsSettled
  ChainUnlessLagged
PROPERTY EventuallyMaterialized
\* Nothing more is published and every message is handled.
CHECK_DEADLOCK FALSE
