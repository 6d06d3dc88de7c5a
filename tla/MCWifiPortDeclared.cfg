SPECIFICATION Spec
CONSTANTS
  Stream = {"s", "t"}
  None = None
  Value <- MCValue
  Offers <- MCOffers
  Hears <- MCHears
  Steady = {"t"}
  Says <- MCSays
  AllowA = FALSE
  Budget = 3
  Cap = 2
  Size = 2
  Octet <- MCOctet
INVARIANT MergedIsDeclared
