SPECIFICATION MCSpec
CONSTANTS
  ShoreSchedule <- MCShoreSchedule
  VehicleSchedule <- MCVehicleSchedule
  Active = {1, 2}
  Codes = {1}
  command_map = {1}
  MaxLength = 1
  MaxOrders = 2
  MaxCommands = 2
  MaxLate = 1
  Cycles = 2
  TdoaShoreSchedule <- MCTdoaShore
  TdoaVehicleSchedule <- MCTdoaVehicle
  Afloat = {1, 3}
  TdoaMaxOrders = 2
  TdoaMaxCommands = 1
INVARIANTS
  TypeOK
  OneReportPerCycle
  AckIsForLastCommand
  NoCollision
  TdoaTypeOK
  TrackerIsServed
PROPERTIES
  NothingSentTwice
  CatchesUp
  WaypointsAreNew
