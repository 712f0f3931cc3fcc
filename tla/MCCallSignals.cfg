CONSTANTS
  n1 = n1
  n2 = n2
  s1 = s1
  Nodes = {n1, n2}
  Signals = {s1, s2}
  s2 = s2
  NoDelivery = NoDelivery
  NoTimer = NoTimer
  Homes = {n2}
  Offset <- MCOffset
  Created <- MCCreated
  Lifetime = 2
  MaxSkew = 1
  RetryOffsets <- MCRetryOffsets
  Backoff = 1
  MaxNow = 4
  MaxFaults = 1
SPECIFICATION MCSpec
INVARIANT RetriesAreSpaced MaintenanceIsArmed
PROPERTY DeliveriesOnlyAdvance UnacknowledgedGo
CHECK_DEADLOCK FALSE
