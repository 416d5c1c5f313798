SPECIFICATION FairSpec
CONSTANTS
  Consumers = {c1, c2, c3}
  RequestedCapacity = 0
  MaxPushes = 3
PROPERTIES
  CloseReleasesWaiters
  WaiterIsServed
