SPECIFICATION Spec
CONSTANTS
  t1 = t1
  t2 = t2
  r1 = r1
  r2 = r2
  r3 = r3
  Tests = {t1}
  Rules = {r1, r2, r3}
  NoRule = NoRule
  Feeds <- Apart
  Types <- AllTypes
  Answers <- AllAnswers
  Deletable = {t1, r3}
  ByteBits = 2
  MaxCount = 2
  Window <- Kept
CHECK_DEADLOCK FALSE
INVARIANTS
  IInv
  FailuresCounted
  RowCounted
  HeardOnce
  ChainsAreInputs
  LogicSettles
