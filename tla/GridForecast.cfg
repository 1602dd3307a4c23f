SPECIFICATION Spec
CONSTANTS
  Nodes = {n1, n2}
  Workers = {w1, w2}
  None = None
  Kwh = {1, 2}
  K = 2
  MaxReadings = 4
  Stored <- OneEach
  MaxFailures = 1
INVARIANTS TypeOK SmaIsTheMean ForecastWasDue SleepsUnlocked
CHECK_DEADLOCK FALSE
PROPERTIES ForecastsSettle StopIsHeeded
