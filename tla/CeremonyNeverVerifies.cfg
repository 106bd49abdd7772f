\* One witness; the steps in the documented order.
SPECIFICATION CeremonySpec
CONSTANTS
  Detail = {d1}
  Custodian = {u1}
  Witness = {w1}
  Incomplete = {}
  Key = {k1}
  None = none
  MaxSteps = 3
INVARIANT DocumentedOrderVerifies
\* The bound ends the operations.
CHECK_DEADLOCK FALSE
