SPECIFICATION Spec
CONSTANTS
  Events = {"e1", "e2", "e3"}
  Archived = {"e1"}
  Plant <- SomePlant
  Stamp <- SomeStamp
  Filters = {"B", NoFilter}
  PageLimit = 1
  MaxDay = 2
  NoFilter = NoFilter
  NoKey = NoKey
  Places = {"a", "b", "c"}
  Km <- SomeKm
  Routes = {"r1", "r2", "r3"}
  Ask <- SomeAsk
  Users = {"dispatcher1", "viewer1"}
  Role <- SomeRole
  Caller <- SomeCaller
  NoRoute = NoRoute
  Series = {"s1", "s2"}
  ModelKey <- SomeKeys
  MaxRows = 4
  Trainings = {"t1", "t2"}
  Predictions = {"p1"}
  SeriesOf <- SomeSeries
  WindowSize <- SomeWindow
  NoModel = NoModel
  Torn = Torn
  GridNodes = {"m", "n"}
  Existing = {}
  GridPosts = {"b1", "b2", "g1"}
  NodesOf <- SomeNodes
  Deviations = {"d1", "d2"}
  MaxAge = 1
  Visibility = 1
  Attempts = 2
  MaxTime = 2
  MaxTasks = 3
  Registers = {x, y}
  MaxPolls = 3
  MaxClock = 3
INVARIANTS TypeOK KeyNamesObject WalkMissesNothing AnswersAreNearest PredictionsAreBacked OnlyFreshDeviations
PROPERTIES ImplementsLog StatusIsLatest
CHECK_DEADLOCK FALSE
