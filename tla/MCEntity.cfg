SPECIFICATION Spec
CONSTANTS
  Controller <- MCControllers
  p1 = p1
  p2 = p2
  p3 = p3
  Port <- MCPorts
  Id <- MCId
  NoOne = "none"
  Input = {"in"}
  Output = {"out"}
  Rate = {48, 96}
  DefaultRate = 48
  Talker = {"t1"}
  None = "unbound"
  MaxTable = 2
  AutoCrf = TRUE
  MaxCommand = 2
  MaxEvent = 3
INVARIANT KnowsSettings
PROPERTIES LockProtects RunningKeepsFormat
SYMMETRY MCSymmetry
