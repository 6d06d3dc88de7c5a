SPECIFICATION MCSpec
CONSTANTS
  Stream = {"a", "b"}
  None = None
  Entry = {1}
  Depth = 2
  Interval <- MCInterval
  Tspecs = {0, 1, 2}
  Idle = 1
  MaxFrame = 3
  Entity = {"c", "e", "f"}
  Sta = {"p", "q"}
  Msg <- MCMsg
  Slot = {1, 2}
  Valid = 1
  Ring = 2
  Window = 1
  Retry = 2
  ClassA = FALSE
INVARIANTS InOrder Spacing KnownEntity AnsweredOnce
PROPERTY Leaves
