SPECIFICATION LiveSpec
CONSTANTS
  top = top
  left = left
  right = right
  leaf = leaf
  Rules = {top, leaf}
  Child <- Pair
  Polled = {leaf}
  MayAbort = {leaf}
  Recovers = {leaf}
  Deletable = {}
  MaxJobs = 1
CHECK_DEADLOCK FALSE
PROPERTIES
  CulpritFound
  RootCauseActs
