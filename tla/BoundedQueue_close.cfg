SPECIFICATION Spec
CONSTANTS
  Consumers = {c1, c2}
  RequestedCapacity = 2
  MaxPushes = 3
PROPERTIES
  ClosedWaitPopFails
