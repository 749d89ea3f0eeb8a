CONSTANTS
  t1 = t1 t2 = t2 t3 = t3 n1 = n1 n2 = n2
  Tests = {t2, n1}
  Polled = {t2}
  Autopass = {n1}
  Base <- MCNoMembers
  DefaultPeriod <- MCDefaultPeriod
  Length <- MCLength
  AutopassDelay = 1
  Calls = {"notify", "immediate", "delete"}
  MaxCalls = 5
SPECIFICATION FairSpec
INVARIANT QueuesSorted
PROPERTY AutopassClears
CHECK_DEADLOCK FALSE
