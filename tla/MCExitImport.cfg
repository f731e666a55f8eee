CONSTANTS
  LastDay = 5
  Weekend = {4}
  Prices = {80, 100}
  Commission = 1
  Atrs = {4, 20}
  KeepPct = 93
  MaxHold <- MCMaxHold
SPECIFICATION Spec
CHECK_DEADLOCK FALSE
INVARIANT HeldThatLong
