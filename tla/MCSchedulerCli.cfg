CONSTANTS
  t1 = t1 t2 = t2 t3 = t3 n1 = n1 n2 = n2
  Tests = {t1, t2}
  Polled = {t1, t2}
  Autopass = {}
  Base <- MCOneObject
  DefaultPeriod <- MCDefaultPeriod
  Length <- MCLength
  AutopassDelay = 1
  Calls = {"enable", "disable", "cli", "period", "delete"}
  MaxCalls = 5
SPECIFICATION Spec
INVARIANTS IInv QueueConsistent
CHECK_DEADLOCK FALSE
