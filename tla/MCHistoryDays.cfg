CONSTANTS
  Codes = {c1, c2}
  LastDay = 4
  Month <- MCMonth
  Weekend = {3}
  Holidays = {4}
  MaxGap = 1
  Close = close
  Manual = {m1}
  NoCode = none
  Windows <- MCWindows
  Suspended = {c2}
SPECIFICATION Spec
CONSTRAINT SuspendedHaveNoBars
CHECK_DEADLOCK FALSE
INVARIANTS TypeOK NothingOverdue EveryCodeAnswered
