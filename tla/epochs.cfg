CONSTANTS
  i1 = i1  i2 = i2  n1 = n1  n2 = n2  b1 = b1  b2 = b2
  k1 = k1  k2 = k2  c1 = c1  c2 = c2
  None = None
  Cont = {c1}
  Kernel = {k1, k2}
  Image = {i1, i2}
  Name = {n1, n2}
  Body = {b1, b2}
  EpochOf <- TwoImages
  Std <- Extended
  Genesis = i1
  Writer = {i1}
  MaxEpoch = 3
  MaxKills = 1
SPECIFICATION FairSpec
INVARIANTS TypeOK BadWorkIsHeld BannedIsGone
PROPERTY ReadyUnlessDrained
CHECK_DEADLOCK FALSE
