SPECIFICATION RetrySpec
CONSTANTS
  Ids = {i1}
  Workers = {w1}
  Assets = {a1}
  low = low
  high = high
  MWs = {low}
  Bodies <- Plans
  Patches <- Changes
  Statuses = {DRAFT}
  Draft = DRAFT
  None = None
PROPERTIES
  RetryArchives
