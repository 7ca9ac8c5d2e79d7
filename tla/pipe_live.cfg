SPECIFICATION FairSpec
CONSTANTS
  d1 = d1
  Docs = {d1}
  Legacy = {}
  Nulled = {}
  Copies = {}
  Bare = {}
  w1 = w1
  Workers = {w1}
  None = None
  Stages = 2
  MaxAttempts = 2
  MaxStalled = 1
  MaxFaults = 2
  MaxOps = 1
PROPERTY EventuallyStable
PROPERTY HealthyUploadReady
CHECK_DEADLOCK FALSE
