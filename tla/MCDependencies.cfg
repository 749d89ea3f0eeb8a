CONSTANTS
  sys = sys c1 = c1 c2 = c2 c3 = c3 r1 = r1 r2 = r2 r3 = r3 r4 = r4
  Objs = {sys, c1, c2, c3, r1, r2}
  CompNames = {sys, c1, c2, c3}
  System = sys
  NoComp = NoComp
  Freed = Freed
  Containments <- MCContainments
  Declared <- MCDeclared
  Deletable = {c2}
  MaxDomains = 2
SPECIFICATION Spec
INVARIANTS TypeOK LinksAgree BoundaryIsInside Nested AllFound LoopsCrossDomains
PROPERTY ContainsReturns
CHECK_DEADLOCK FALSE
