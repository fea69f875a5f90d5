SPECIFICATION Spec
CONSTANTS
  in_sim = TRUE
  Second = 2
  a = a
  b = b
  c = c
  Vehicle = {a, b, c}
  Batch <- MCBatch
  Flight <- MCFlight
  MaxSent = 2
INVARIANTS
  TypeOK
  QueuesInOrder
  ReceivedOnce
PROPERTIES
  QuietInTheEnd
  HeardUnlessOverlapped
