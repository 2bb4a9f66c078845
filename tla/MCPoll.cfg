SPECIFICATION Spec
CONSTANTS
  Second = 4
  Intervals <- MCIntervals
  Timeouts <- MCTimeouts
  DefaultInterval = 12
  MinBackoff = 4
  MaxBackoff = 16
  CallTimeout = 2
  ReqTimeout = 1
  Lag = 1
  MaxSilence = 30
INVARIANTS
  TypeOK
  OneMissSurvived
  BackInTime
