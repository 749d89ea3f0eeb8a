CONSTANTS
  sys = sys c1 = c1 c2 = c2 c3 = c3 r1 = r1 r2 = r2 r3 = r3 r4 = r4
  Objs = {sys, r1, r2, r3, r4}
  CompNames = {sys}
  System = sys
  NoComp = NoComp
  Freed = Freed
  Containments = {}
  Declared <- MCLoops
  Deletable = {}
  MaxDomains = 2
SPECIFICATION Spec
INVARIANTS Acyclic
CHECK_DEADLOCK FALSE
