CONSTANTS
  c1 = c1  c2 = c2  c3 = c3  k1 = k1  k2 = k2  m1 = m1  m2 = m2  t1 = t1  t2 = t2
  None = None
  Cont = {c1, c2, c3}
  Msg = {}
  Topic = {t1}
  TopicOf <- NoTopics
  Kernel = {k1, k2}
  Ends = {"done", "timer", "signal", "all", "race"}
  Revocable = {}
  MaxSeq = 2
  MaxConds = 1
  DrainBatch = 1
  AttemptCeiling = 1
  Faults = {}
  MaxFaults = 0
SYMMETRY ContKernelSymmetry
SPECIFICATION Spec
INVARIANTS JoinWakesAtQuorum
PROPERTIES LosersStop TerminalStays
CHECK_DEADLOCK FALSE
