SPECIFICATION MCSpec
CONSTANTS
  Node <- MCNodes
  AttrOrder <- MCAttrs
  Owns <- MCOwns
  Roles <- MCEach
  ArmsOnLeaveAll = TRUE
  Phase <- MCPhase
  JoinMax = 1
  LeaveTime = 5
  PeriodicTime = 5
  SelfLeaveTime = 10
  SwitchLeaveTime = 3
  LeaveAllMin = 12
  LeaveAllMax = 12
  MaxLoss = 0
  MaxCrash = 0
  MaxChange = 2
  Station = {"a", "b"}
  Streams <- MCStreams
  Seed <- MCSeed
  Stride = 2
  Pool = 6
  Retransmits = 3
  ProbeTime = {1, 2}
  AnnounceTime = {4}
  NoAddress = NoAddress
  MaxMissed = 3
  MaxOff = 1
INVARIANTS StandingIsRegistered DestUnique SharedNotLong
PROPERTY HeldIsKept
