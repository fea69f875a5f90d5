SPECIFICATION Spec
CONSTANTS
  in_sim = FALSE
  Second = 1
  Batch <- MCBatch
  Heard = {"MINI"}
  MaxHeard = 1
  MaxReconnects = 1
PROPERTY TimeoutBasedOnPacket
