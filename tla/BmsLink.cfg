SPECIFICATION FairSpec
CONSTANTS
  Ids = {"PULSE", "DISCHARGE"}
  Spec0 <- Currents
  Delays = 2
  Backlog = 1
  MaxStarts = 2
  MaxManual = 1
  MaxCrashes = 1
INVARIANTS
  TypeOK
  EndsUnloaded
PROPERTIES
  CrashIsRepaired
