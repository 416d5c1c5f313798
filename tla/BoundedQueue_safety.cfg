\* More consumers than capacity, and more pushes than both together.
SPECIFICATION Spec
CONSTANTS
  Consumers = {c1, c2, c3, c4}
  RequestedCapacity = 2
  MaxPushes = 7
SYMMETRY ConsumerSymmetry
INVARIANTS
  TypeOK
  NoLostWakeup
  HoldsNewest
PROPERTIES
  DeliveredInOrder
  ImplementsStream
