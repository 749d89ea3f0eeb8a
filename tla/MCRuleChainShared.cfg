SPECIFICATION Spec
CONSTANTS
  t1 = t1
  t2 = t2
  r1 = r1
  r2 = r2
  r3 = r3
  Tests = {t1, t2}
  Rules = {r1, r2}
  NoRule = NoRule
  Feeds <- Shared
  Types <- BothAnd
  Answers <- YesNo
  Deletable = {}
  ByteBits = 2
  MaxCount = 2
  Window <- NoneKept
CHECK_DEADLOCK FALSE
INVARIANT InputsPointBack
