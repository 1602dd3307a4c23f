SPECIFICATION Spec
CONSTANTS
  Assets = {"wind", "sun"}
  Known = {"wind"}
  Capacity <- SomeCapacity
  Ramp <- SomeRamp
  Posts = {"p1", "p2", "p3"}
  Rows <- SomeRows
  Jobs = {j1, j2}
  MinRows = 1
  Curves <- SomeCurves
  Requests = {"q1"}
  Asked <- SomeAsked
  Hours <- SomeHours
  Outputs <- SomeOutputs
  Tolerance = 1
  Eps = 1
  None = None
INVARIANTS TypeOK IngestIsAtomic RunsAreGrounded ForecastsAreFresh SchedulesAreFeasible
PROPERTIES PostsAreAnswered
CHECK_DEADLOCK FALSE
