SPECIFICATION LinkFairSpec
CONSTANTS
  Node <- MCNodes
  AttrOrder <- MCOne
  Owns <- MCOwnsOne
  Roles <- MCWifi
  ArmsOnLeaveAll = TRUE
  Phase <- MCPhase
  JoinMax = 1
  LeaveTime = 2
  PeriodicTime = 2
  SelfLeaveTime = 4
  SwitchLeaveTime = 2
  LeaveAllMin = 5
  LeaveAllMax = 5
  MaxLoss = 1
  MaxCrash = 1
  MaxChange = 2
PROPERTIES DeclaredConverges StationAgesOut
