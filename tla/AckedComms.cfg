SPECIFICATION Spec
CONSTANTS
  v1 = v1
  typo = typo
  x = x
  y = y
  Vehicle = {v1}
  Dest = {v1, typo}
  Var = {x}
  VehicleList <- OneVehicle
  Repeat <- MCRepeat
  MaxID = 2
  MaxConnects = 2
  MaxRestarts = 1
  MayGarble = TRUE
INVARIANTS
  TypeOK
  SuccessSound
  EveryNumberAccountedFor
  FailureAfterAllAttempts
PROPERTIES
  VerdictIsFinal
