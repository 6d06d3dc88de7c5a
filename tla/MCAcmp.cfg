SPECIFICATION FairSpec
CONSTANTS
  Talker = {t1, t2}
  Stream = {s1}
  None = None
  Class = {"A"}
  Gen = {0}
  MaxInflight = 2
  MaxQueue = 1
  MvuBinds = FALSE
  Superfast = TRUE
INVARIANT PendingIsTracked
PROPERTIES BoundConnects
