SPECIFICATION Spec
CONSTANTS
  Base = 3
  Digits = 2
  MaxCycles = 2
  WordBase = 3
  HostTimes <- MCHostTimes
  Addresses = {t1, t2, t3}
  Columns = 2
  Rows = 2
  TabStop = 2
  DigitBase = 3
  MaxParameter = 2
  ParameterCount = 2
  Width = 3
  Height = 2
  BytesPerPixel = 2
  AccessBytes = {1, 2, 4}
  RefreshInterval = 1
INVARIANTS TimerNeverEarly TimeNotTorn AlarmNotMissed TimersKept ScreenHonest
PROPERTIES ScreenCatchesUp
