SPECIFICATION Spec
CONSTANTS
  s1 = s1
  s2 = s2
  s3 = s3
  n1 = n1
  ann = ann
  bob = bob
  Streams = {s1, s2, s3}
  Notifications = {n1}
  ReaderOf <- Readers
  RecipientOf <- Recipients
  MaxFaults = 2
INVARIANT SubscriptionTracksSet
INVARIANT NoGhostHandlers
PROPERTY ListenersHear
CHECK_DEADLOCK FALSE
