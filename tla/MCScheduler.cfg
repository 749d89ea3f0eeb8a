CONSTANTS
  t1 = t1 t2 = t2 t3 = t3 n1 = n1 n2 = n2
  Tests = {t1, t2, t3}
  Polled = {t1, t2, t3}
  Autopass = {}
  Base <- MCOneObject
  DefaultPeriod <- MCDefaultPeriod
  Length <- MCLength
  AutopassDelay = 2
  Calls = {"enable", "disable", "immediate", "delete"}
  MaxCalls = 6
SPECIFICATION FairSpec
INVARIANTS TypeOK WakeupPending NoTestForgotten DisabledOffQueue
PROPERTIES PolledKeepsRunning
CHECK_DEADLOCK FALSE
