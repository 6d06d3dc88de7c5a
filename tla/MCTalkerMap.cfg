SPECIFICATION MCSpec
CONSTANTS
  Port = {"p1", "p2"}
  Wifi = {"p2"}
  Stream = {"s1"}
  Value <- MCValues
  Home <- MCFixed
  CapChoice = {2, 3}
  Word = 64
  Rejoins = FALSE
INVARIANTS TwinExclusive AdvertiseIsReserved AdmittedIsRegistered
PROPERTY ImplementsAdmission
CONSTRAINT MCSteadyRate
