SPECIFICATION Spec
CONSTANTS
  a1 = a1
  a2 = a2
  Accounts = {a1, a2}
  o1 = o1
  o2 = o2
  Objects = {o1, o2}
  w1 = w1
  w2 = w2
  Workers = {w1, w2}
  Owner <- OwnerOf
  Undeletable = {o2}
  None = None
  Batch = 1
  MaxAttempts = 2
  MaxCancels = 0
  MaxFaults = 0
INVARIANT GoneAccountsLeaveNothing
CHECK_DEADLOCK FALSE
