SPECIFICATION MCSpec
CONSTANTS
  Stream = {s1, s2}
  Direct = {rate}
  Binding = {none, b1}
  Conf = {none, c1}
  Default = none
  Capacity = 3
  QuietMax = 1
  ForcedFlush = 1
  Reflashes = TRUE
INVARIANTS BindingRestored SaveNotLost
PROPERTIES DeferredWritten EagerSaved
