SPECIFICATION Spec
CONSTANTS
  d1 = d1
  d2 = d2
  Docs = {d1, d2}
  Legacy = {d1}
  Nulled = {d1}
  Copies = {d1, d2}
  Bare = {}
  w1 = w1
  w2 = w2
  Workers = {w1, w2}
  None = None
  Stages = 2
  MaxAttempts = 2
  MaxStalled = 1
  MaxFaults = 0
  MaxOps = 2
SYMMETRY WorkerSymmetry
INVARIANT ReadySearchable
INVARIANT QueuedHasCarrier
PROPERTY ReprocessingStartsPrivate
CHECK_DEADLOCK FALSE
