SPECIFICATION Spec
CONSTANTS
  d1 = d1
  Docs = {d1}
  Legacy = {}
  Nulled = {}
  Copies = {}
  Bare = {d1}
  w1 = w1
  w2 = w2
  Workers = {w1, w2}
  None = None
  Stages = 2
  MaxAttempts = 2
  MaxStalled = 1
  MaxFaults = 3
  MaxOps = 0
SYMMETRY WorkerSymmetry
INVARIANT OutcomeRecorded
PROPERTY NoFailureOverSuccess
CHECK_DEADLOCK FALSE
