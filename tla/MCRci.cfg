SPECIFICATION Spec
CONSTANTS
  top = top
  left = left
  right = right
  leaf = leaf
  Rules = {top, left, right, leaf}
  Child <- Diamond
  Polled = {top, left, right, leaf}
  MayAbort = {}
  Recovers = {}
  Deletable = {top}
  MaxJobs = 1
CHECK_DEADLOCK FALSE
INVARIANTS
  TypeOK
  RootCauseFails
  OnlyLowest
  NamedAboveFailure
  CulpritMarked
  NoRciDeadlock
