SPECIFICATION MCSpec
CONSTANTS
  ShoreSchedule <- MCShoreSchedule
  VehicleSchedule <- MCVehicleSchedule
  Active = {1, 2}
  Codes = {1, 9}
  command_map = {1}
  MaxLength = 1
  MaxOrders = 1
  MaxCommands = 2
  MaxLate = 0
  Cycles = 2
  TdoaShoreSchedule <- MCTdoaShore
  TdoaVehicleSchedule <- MCTdoaVehicle
  Afloat = {1, 3}
  TdoaMaxOrders = 2
  TdoaMaxCommands = 1
INVARIANTS
  RequiredFields
