SPECIFICATION FairSpec
CONSTANTS
  Tags = {t1}
  NoTag = NoTag
  Target = 1
  MaxPour = 1
  Plcs = {p1}
  Collectors = {}
  Operators = {}
  NoClient = NoClient
  MayDrop = {}
  Backlog = 1
  t1 = t1
  p1 = p1
PROPERTIES PlcOpensValve
