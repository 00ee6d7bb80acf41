CONSTANTS
  Width = 6
  HeaderSize = 1
  SentinelSize = 1
  DefaultAlign = 1
  Cells = 8
  Sizes <- MCSizes
  Aligns <- MCAligns
  MaxStray = 1
SPECIFICATION Spec
INVARIANTS TypeOK BlockHoldsRequest NoFalseAlarm DamageReported MismatchReported DoubleFreeReported RightCallsAreExact
