SPECIFICATION Spec
CONSTANTS
  v1 = v1
  typo = typo
  x = x
  y = y
  Vehicle = {v1}
  Dest = {v1, typo}
  Var = {x, y}
  VehicleList <- OneVehicle
  Repeat <- MCRepeat
  MaxID = 3
  MaxConnects = 1
  MaxRestarts = 0
  MayGarble = FALSE
PROPERTIES
  EveryRequestResolved
  ImplementsAckedDelivery
