SPECIFICATION FairSpec
CONSTANTS
  Ids = {"PULSE", "DISCHARGE"}
  Spec0 <- Currents
  Delays = 2
  Backlog = 1
  MaxStarts = 0
  MaxManual = 1
  MaxCrashes = 0
PROPERTIES
  DropoutIsRepaired
