CONSTANTS
  Codes = {c1}
  LastDay = 4
  Month <- MCMonth
  Weekend = {3}
  Holidays = {4}
  MaxGap = 1
  Close = close
  Manual = {m1}
  NoCode = none
  Windows <- MCWindows
  Suspended = {}
SPECIFICATION Spec
CHECK_DEADLOCK FALSE
INVARIANT LatestForTomorrow
