SPECIFICATION FairSpec
CONSTANTS
  Currents <- LoadCurrents
  IMax = 4
  IIdle = 1
  SocMax = 3
  SocLow = 1
  SocHigh = 2
  SocStart = 2
  TWarn = 1
  TFault = 1
  EWarn = 1
  EFault = 2
  MaxHeat = 1
  Commands = {"SET_CURRENT", "SET_FAULT", "RESET"}
INVARIANTS TypeOK
PROPERTIES ImplementsLatch ProtectedUnlessOverlapped OvercurrentTrips RemovedLoadSettles
