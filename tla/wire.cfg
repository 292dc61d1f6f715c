CONSTANTS
  Request = {r1, r2, r3}
  Text = {q1, q2}
  MaxDials = 2
  MaxNotes = 2
SPECIFICATION Spec
SYMMETRY Symmetry
INVARIANTS InStep AnswersAreOwn CacheIsBacked AnswerIsComing
CHECK_DEADLOCK FALSE
