\* Three events, signed or not, two faults of the medium, keys that change.
SPECIFICATION SignedSpec
CONSTANTS
  Correlation = {x}
  Body <- SignedBody
  Payload = {p, q}
  Key = {k1, k2}
  Owner = {o1, o2}
  ServiceId = o1
  NoSignature = unsigned
  NoKey = nokey
  MaxEvents = 3
  MaxFaults = 2
  MaxSteps = 4
SYMMETRY Interchangeable
INVARIANTS
  CheckpointsPinHistory
  NoSilentDamage
  UndamagedPrefixVerifies
  FullyVerifiedIsAsRecorded
  SignedEventsVerify
\* The bounds end the recording and the faults.
CHECK_DEADLOCK FALSE
