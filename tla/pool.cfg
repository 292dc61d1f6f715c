CONSTANTS
  r1 = r1  r2 = r2  r3 = r3  r4 = r4  r5 = r5
  None = None  Nil = Nil
  Req = {r1, r2, r3, r4, r5}
  Outer <- SecondOfTwo
  Conn = {x1, x2}
  Size = 2
  Faults = {"break", "dirty", "dial", "ctx"}
  MaxFaults = 2
SPECIFICATION FairSpec
INVARIANTS SlotsAccounted OnlyLateCancelsStray
PROPERTY WaitersServed
CHECK_DEADLOCK FALSE
