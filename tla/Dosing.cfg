SPECIFICATION FairSpec
CONSTANTS
  Tags = {t1}
  NoTag = NoTag
  Target = 2
  MaxPour = 1
  Plcs = {p1}
  Collectors = {}
  Operators = {o1}
  NoClient = NoClient
  MayDrop = {o1}
  Backlog = 1
  t1 = t1
  p1 = p1
  o1 = o1
INVARIANTS TypeOK NoOverdose CompletePublished
PROPERTIES VolumeFallsOnlyByReset ImplementsBatch HeldValveCompletes ResetHolds PlcClosesValve
