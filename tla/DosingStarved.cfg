SPECIFICATION FairSpec
CONSTANTS
  Tags = {t1}
  NoTag = NoTag
  Target = 1
  MaxPour = 1
  Plcs = {p1}
  Collectors = {c1}
  Operators = {}
  NoClient = NoClient
  MayDrop = {c1}
  Backlog = 1
  t1 = t1
  p1 = p1
  c1 = c1
PROPERTIES TelemetryIsPersisted
