CONSTANTS
  s1 = s1  s2 = s2  h1 = h1  w1 = w1  None = None
  Session <- Views
  Watched <- OneView
  Handler <- Handlers
  Worker <- Workers
  RingCap = 1
  ChanCap = 2
  QueueCap = 1
  MaxRedrive = 1
  MaxTries = 2
  MaxWrites = 1
  MaxTrouble = 2
SPECIFICATION Spec
INVARIANTS StaleIsCarried QuietClientAgrees
CHECK_DEADLOCK FALSE
