SPECIFICATION FairSpec
CONSTANTS
  Listener = {"l1", "l2"}
  Mac = {"m1", "m2", "bridge"}
  NoListener = NoListener
  NoMac = NoMac
  MacOf <- MCMacOf
  Roaming = {"l2"}
  MaxRows = 2
  HoldDown = 0
  MaxTasks = 2
  MaxFail = 1
  Settings <- MCSettings
INVARIANTS StreamIsRegistered RowsDistinct StreamKeepsTask
PROPERTIES KnownReadyStreams QuietStops
