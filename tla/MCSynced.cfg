CONSTANTS
  Codes = {c1}
  LastDay = 2
  Month <- MCMonth
  Weekend = {2}
  Holidays = {}
  MaxGap = 1
  Close = close
  Manual = {r1}
  Windows <- MCWindows
  NoCode = none
  Runs = {r1}
  NoRun = none
  Total <- MCTotal
  MaxFaults = 1
SPECIFICATION SyncedSpec
CHECK_DEADLOCK FALSE
INVARIANTS CountsAreAnswers ShownIsStored
