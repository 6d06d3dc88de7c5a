SPECIFICATION FairSpec
CONSTANTS
  Offset = 2
  Extra = 0
  Wifi = FALSE
  Transit = 1
  Word = 16
  LateSpan = 2
  Sizable = 12
  Capacity = 9
  Prefill = 3
  DmaDepth = 2
  GateLate = 1
  GateFar = 5
  Patience = 4
  Stale = 8
  GiveUp = 2
  UnarmedMin = 2
  RegateMin = 4
  RegateMax = 6
  IdleWait = 6
  LongPause = 3
  Sane = 8
  Slack = 1
  Swing = 1
  MinSamples = 1
  HoldSamples = 1
  Unlock = 6
  TrimWindow = 3
  Margin = 1
  Sparse = 2
  Shifts <- MCShifts
  TuHold = 1
  MaxPreempt = 1
  MaxFault = 1
INVARIANT OnTime
PROPERTY Plays
