SPECIFICATION Spec
CONSTANTS
  Word = 9
  Window = 4
  PerBundle = 2
  MaxAge = 1
  LeftAge = 2
  History = 3
  Spacing = 2
  Trip = 1
  MinBudget = 1
  HoldMax = 2
  HoldTime = {1, 4}
  StaleTime = 2
  Repeat = 2
  Delay = 1
  Boot = 8
  PerTick = 2
  MaxFrame = 5
  MaxLoss = 2
  MaxNackLoss = 1
  Pdu <- MCPdu
  MaxRestart = 1
INVARIANTS SplitRestores InOrder OneLossRecovered HeldReleased
PROPERTY NothingLeftPlayed
