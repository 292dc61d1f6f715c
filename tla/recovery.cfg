CONSTANTS
  c1 = c1  c2 = c2  c3 = c3  k1 = k1  k2 = k2  m1 = m1  m2 = m2  t1 = t1  t2 = t2
  None = None
  Cont = {c1}
  Msg = {}
  Topic = {t1}
  TopicOf <- NoTopics
  Kernel = {k1, k2}
  Ends = {"done", "timer", "event", "signal"}
  Revocable = {c1}
  MaxSeq = 2
  MaxConds = 2
  DrainBatch = 2
  AttemptCeiling = 1
  Faults = {"crash", "lapse", "error", "abandon"}
  MaxFaults = 2
SPECIFICATION FairSpec
INVARIANTS ReadyIsDriven
PROPERTY ReadyIsStepped
CHECK_DEADLOCK FALSE
