CONSTANTS
  w1 = w1 w2 = w2 w3 = w3 r1 = r1 r2 = r2 j1 = j1 j2 = j2 j3 = j3 j4 = j4
  Workers = {w1, w2}
  Jobs = {j1, j2, j3}
  Requesters = {r1, r2}
  NoJob = NoJob
  Nobody = Nobody
  DbLocked = TRUE
  MayStop = FALSE
SPECIFICATION FairSpec
INVARIANTS IInv HandOffSucceeds ListsTellThreadState
PROPERTIES PendingJobsAreDrained HandedJobsRun
CHECK_DEADLOCK FALSE
