CONSTANTS
  None = None
  Intent = {i1, i2}
  Http = {i1}
  Kernel = {k1, k2}
  DrainBatch = 2
  AttemptCeiling = 2
  Faults = {"sink", "abandon", "crash", "lapse"}
  MaxFaults = 3
SPECIFICATION FairSpec
INVARIANTS ClosedIsDelivered RepeatsArePaid
PROPERTIES ImplementsLedger RecordedIsDelivered
CHECK_DEADLOCK FALSE
