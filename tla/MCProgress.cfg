CONSTANTS
  r1 = r1
  r2 = r2
  Runs = {r1, r2}
  NoRun = none
  Total <- MCTotal
  MaxFaults = 2
SPECIFICATION FairSpec
CHECK_DEADLOCK FALSE
INVARIANTS ShownIsCommitted
PROPERTIES NeverBackwards SettlesOrForgets
