SPECIFICATION Spec
CONSTANTS
  Ids = {i1}
  Workers = {w1, w2}
  Assets = {a1, a2}
  low = low
  high = high
  MWs = {low, high}
  Bodies <- Plans
  Patches <- Changes
  Statuses = {DRAFT, SUBMITTED, ACTIVE}
  Draft = DRAFT
  None = None
SYMMETRY Symmetry
INVARIANTS
  TypeOK
  ArchiveIsCommitted
  ReadsAreWhole
PROPERTIES
  ChangesOnlyWhatWasAsked
