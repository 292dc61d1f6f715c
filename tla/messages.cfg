CONSTANTS
  c1 = c1  c2 = c2  c3 = c3  k1 = k1  k2 = k2  m1 = m1  m2 = m2  t1 = t1  t2 = t2
  None = None
  Cont = {c1, c2}
  Msg = {m1, m2}
  Topic = {t1, t2}
  TopicOf <- TwoTopics
  Kernel = {k1, k2}
  Ends = {"done", "message", "send", "mail"}
  Revocable = {}
  MaxSeq = 3
  MaxConds = 1
  DrainBatch = 2
  AttemptCeiling = 2
  Faults = {"crash", "lapse", "error", "abandon"}
  MaxFaults = 1
SYMMETRY ContKernelSymmetry
SPECIFICATION Spec
INVARIANTS TypeOK PinnedIsClaimed ReceivedOnce ClaimedIsDelivered NoMissedRendezvous
PROPERTY ImplementsChannel
CHECK_DEADLOCK FALSE
