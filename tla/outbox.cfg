SPECIFICATION FairSpec
CONSTANTS
  Events = {1, 2, 3}
  Invalid = {2}
  p1 = p1
  p2 = p2
  Publishers = {p1, p2}
  BatchSize = 2
  MaxFaults = 2
  MaxStops = 1
INVARIANT DeliveredOnceWithoutFaults
INVARIANT ShutdownLeavesNoLease
PROPERTY OutcomeFinal
PROPERTY PromiseKept
CHECK_DEADLOCK FALSE
