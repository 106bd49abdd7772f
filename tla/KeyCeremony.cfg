\* Two witnesses, one without a signature, two keys; five operations.
SPECIFICATION CeremonySpec
CONSTANTS
  Detail = {d1, d2}
  Custodian = {u1, u2}
  Witness = {w1, w2}
  Incomplete = {w2}
  Key = {k1, k2}
  None = none
  MaxSteps = 5
INVARIANTS
  HashVerdict
  AttestationVerdict
\* The bound ends the operations.
CHECK_DEADLOCK FALSE
